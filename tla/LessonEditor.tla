---------------------------- MODULE LessonEditor ----------------------------
(***************************************************************************)
(* Editing one lesson: the teacher's LessonConstructor and the             *)
(* administrator's AdminLessonEditor, which hold the same graph and the    *)
(* same handlers behind different headers.  Every action is one thing the  *)
(* page offers; what it does to the graph is the handler's updater.        *)
(*                                                                         *)
(* Saving is one step here: the graph sent is the one on the page when the *)
(* button is pressed, and two pages that save are the subject of           *)
(* CourseDesk.                                                             *)
(***************************************************************************)
EXTENDS LessonGraph, FiniteSets

CONSTANTS
  Offered,   \* kinds of blocks added in a behaviour
  Grades,    \* verdicts that an author changes to in a behaviour
  MaxNodes,  \* bound on the blocks of a lesson
  MaxOptions, \* bound on the options of a block
  NewNodes,  \* the ids of blocks that genId may give
  NewOptions, \* and those of options
  Pages      \* whose page opens which stored lesson to begin with

ASSUME EditorAssumption ==
  /\ {"start", "end"} \subseteq NodeIds \ NewNodes
  /\ NewNodes \subseteq NodeIds /\ NewOptions \subseteq OptionIds
  /\ Offered \subseteq Kinds /\ Grades \subseteq Verdicts
  /\ MaxNodes \in Nat /\ MaxOptions \in Nat \ {0, 1}
  /\ IsFiniteSet(NewOptions) /\ Cardinality(NewOptions) >= MaxOptions

VARIABLES
  desk,    \* whose page it is
  stored,  \* the lesson in the draft, as the server keeps it
  graph    \* the graph on the page

editorVars == <<desk, stored, graph>>

isPlaceholderGraph(g) ==
  /\ g.start = "start" /\ Len(g.nodes) = 2
  /\ \E i \in DOMAIN g.nodes :
       g.nodes[i].id = "start" /\ g.nodes[i].type = "story" /\ ~g.nodes[i].filled
  /\ \E i \in DOMAIN g.nodes : g.nodes[i].id = "end" /\ g.nodes[i].type = "terminal"
  /\ g.edges = [e \in {<<"start", Onward>>} |-> "end"]

(* What the page makes of the lesson when it opens.                        *)
Opened(raw) ==
  LET g == graphFromBackendFormat(raw) IN
  IF isPlaceholderGraph(g) THEN EmptyGraph ELSE normalizeLessonGraph(g)

(* A lesson that is there to begin with was admitted by the validator,     *)
(* whoever wrote it, and lists its blocks so that exits lead forward.  The *)
(* placeholder of a new lesson is the only one with a block of that id:    *)
(* genId gives others.                                                     *)
ASSUME PagesAssumption ==
  \A page \in Pages :
    /\ page[1] \in {"teacher", "admin"}
    /\ isStoredLesson(page[2]) /\ validateLessonGraph(page[2]) = {}
    /\ Len(page[2].nodes) <= MaxNodes
    /\ "start" \in Ids(page[2].nodes) => isPlaceholderGraph(graphFromBackendFormat(page[2]))

(* Whatever is added, removed, moved and connected, exits lead forward in  *)
(* the list, so that no sequence of edits makes a lesson go round, and the *)
(* options of a block have grades if and only if its answers are graded.   *)
EditorTypeOK ==
  /\ desk \in {"teacher", "admin"}
  /\ Ids(stored.nodes) \subseteq NodeIds
  /\ graph.start \in NodeIds \cup {None}
  /\ graph.nodes \in Seq(GraphNode) /\ Len(graph.nodes) <= MaxNodes
  /\ \A i, j \in DOMAIN graph.nodes : graph.nodes[i].id = graph.nodes[j].id => i = j
  /\ \A e \in DOMAIN graph.edges : e[1] \in NodeIds /\ graph.edges[e] \in NodeIds
  /\ \A e \in DOMAIN graph.edges : isForwardEdge(graph.nodes, graph.edges, e)
  /\ \A node \in ToSet(graph.nodes) :
       LET graded == node.type \in {"single_choice", "free_text"} IN
       /\ \A i \in DOMAIN node.options : (node.options[i].verdict # None) <=> graded
       /\ (node.fallback # None) <=> (node.type = "free_text")

EditorInit ==
  /\ \E page \in Pages : desk = page[1] /\ stored = page[2]
  /\ graph = Opened(stored)

-----------------------------------------------------------------------------
(* The handlers, as functions of the graph.                                *)

FreshNodes == NewNodes \ Ids(graph.nodes)

(* genId of an option: ids of options are compared within a block only, so *)
(* that any new one will do.                                               *)
FreshOption(taken) == CHOOSE o \in NewOptions : o \notin taken

createNode(type, id) ==
  LET o == <<FreshOption({}), FreshOption({FreshOption({})})>>
      two(a, b) == <<[id |-> o[1], verdict |-> a], [id |-> o[2], verdict |-> b]>> IN
  [id |-> id, type |-> type, filled |-> type \in {"single_choice", "terminal"},
   options |-> CASE type \in {"single_choice", "free_text"} -> two("correct", "incorrect")
                 [] type = "decision" -> two(None, None)
                 [] OTHER -> <<>>,
   fallback |-> IF type = "free_text" THEN "incorrect" ELSE None]

Terminals(nodes) == {i \in DOMAIN nodes : nodes[i].type = "terminal"}

(* Mutant: the block before the end keeps pointing at the end.             *)
addNodeUntied(prev, node) ==
  LET ends == Terminals(prev.nodes)
      at == IF ends = {} THEN Len(prev.nodes) + 1 ELSE CHOOSE i \in ends : TRUE
  IN normalizeLessonGraph(
       [prev EXCEPT !.nodes = InsertAt(@, at, node),
          !.edges = IF ends = {} THEN @
                    ELSE connectMissingNodeOutputs(@, node, prev.nodes[at].id)])

(* A block goes before the end, the first one found; the block before it   *)
(* hands over its exits to the end, or gets the exits it misses.           *)
addNode(prev, node) ==
  LET ends == Terminals(prev.nodes)
      isEnd == node.type = "terminal"
      at == IF isEnd \/ ends = {} THEN Len(prev.nodes) + 1
            ELSE CHOOSE i \in ends : \A j \in ends : i <= j
      before == prev.nodes[at - 1]
      untied == InsertAt(prev.nodes, at, node)
      tied == IF at = 1 THEN prev.edges
              ELSE IF isEnd \/ ends = {}
                   THEN connectMissingNodeOutputs(prev.edges, before, node.id)
                   ELSE connectMissingNodeOutputs(
                          retargetNodeOutputs(prev.edges, before, prev.nodes[at].id, node.id),
                          node, prev.nodes[at].id)
  IN IF isEnd /\ ends # {} THEN normalizeLessonGraph(prev)
     ELSE normalizeLessonGraph(
            [start |-> IF prev.start \in Ids(prev.nodes) THEN prev.start ELSE FirstId(untied),
             nodes |-> untied, edges |-> tied])

removeNode(prev, n) ==
  LET left == RemoveAt(prev.nodes, Position(prev.nodes, n)) IN
  normalizeLessonGraph(
    [start |-> IF prev.start = n THEN FirstId(left) ELSE prev.start,
     nodes |-> left,
     edges |-> Kept(prev.edges, {e \in DOMAIN prev.edges : e[1] # n /\ prev.edges[e] # n})])

(* updateGraph with a change of one block.                                 *)
changeNode(prev, node) ==
  normalizeLessonGraph(
    [prev EXCEPT !.nodes = [i \in DOMAIN @ |-> IF @[i].id = node.id THEN node ELSE @[i]]])

WithOption(node, verdict) ==
  [node EXCEPT !.filled = FALSE,
     !.options = Append(@, [id |-> FreshOption(OptionsOf(node)), verdict |-> verdict])]

addOption(prev, node) ==
  changeNode(prev, WithOption(node, IF node.type = "single_choice" THEN "incorrect" ELSE None))

addOutcome(prev, node) == changeNode(prev, WithOption(node, "correct"))

WithoutOption(node, o) == [node EXCEPT !.options = RemoveAt(@, Position(@, o))]

(* Its edge goes with it, by name and by normalisation.                    *)
WithoutEdge(edges, n, c) == Kept(edges, DOMAIN edges \ {<<n, c>>})

removeOption(prev, node, o) ==
  changeNode([prev EXCEPT !.edges = WithoutEdge(@, node.id, optionEdgeCondition(o))],
             WithoutOption(node, o))

removeOutcome(prev, node, o) ==
  changeNode([prev EXCEPT !.edges = WithoutEdge(@, node.id, outcomeEdgeCondition(o))],
             WithoutOption(node, o))

setNextNode(prev, n, c, to) ==
  normalizeLessonGraph([prev EXCEPT !.edges = setGraphEdgeTarget(@, n, c, to)])

(* updateChoiceOption, updateOutcome: the grade of an option.              *)
setVerdict(prev, node, o, v) ==
  changeNode(prev, [node EXCEPT !.options = [i \in DOMAIN @ |->
    IF @[i].id = o THEN [@[i] EXCEPT !.verdict = v] ELSE @[i]]])

updateDefaultOutcome(prev, node, v) == changeNode(prev, [node EXCEPT !.fallback = v])

(* The texts of a block are completed, or one of them is emptied.          *)
updateNodeData(prev, node, filled) == changeNode(prev, [node EXCEPT !.filled = filled])

-----------------------------------------------------------------------------
(* What the page offers for a block.                                       *)

Edit(g) == graph' = g /\ UNCHANGED <<desk, stored>>

Exit(node, c) ==
  \E to \in getForwardTargetNodes(graph.nodes, node.id) \cup {None} :
    Edit(setNextNode(graph, node.id, c, to))

(* The exits listed under a block.                                         *)
describeOutgoingEdges(g, node) ==
  {x \in {<<c, getGraphEdgeTarget(g.edges, node.id, c)>> : c \in getNodeOutputConditions(node)} :
     x[2] # None}

Texts(node) == Edit(updateNodeData(graph, node, ~node.filled))

(* The teacher confirms a removal, the administrator cannot remove an end. *)
NodeHeader(i) ==
  LET node == graph.nodes[i] IN
  \/ desk = "teacher" /\ Edit(removeNode(graph, node.id))
  \/ i > 1 /\ Edit(reorderGraphNodes(graph, i, i - 1))
  \/ i < Len(graph.nodes) /\ Edit(reorderGraphNodes(graph, i, i + 1))

AdminNodeHeader(i) ==
  /\ desk = "admin" /\ graph.nodes[i].type # "terminal"
  /\ Edit(removeNode(graph, graph.nodes[i].id))

StoryBlock(node) ==
  /\ node.type = "story"
  /\ Texts(node) \/ Exit(node, Onward)

ChoiceBlock(node) ==
  /\ node.type = "single_choice"
  /\ \/ Texts(node)
     \/ \E o \in OptionsOf(node) :
          \/ Len(node.options) > 2 /\ Edit(removeOption(graph, node, o))
          \/ \E v \in Grades : Edit(setVerdict(graph, node, o, v))
          \/ Exit(node, optionEdgeCondition(o))
     \/ Len(node.options) < MaxOptions /\ Edit(addOption(graph, node))

DecisionBlock(node) ==
  /\ node.type = "decision"
  /\ \/ Texts(node)
     \/ \E o \in OptionsOf(node) :
          \/ Len(node.options) > 2 /\ Edit(removeOption(graph, node, o))
          \/ Exit(node, optionEdgeCondition(o))
     \/ Len(node.options) < MaxOptions /\ Edit(addOption(graph, node))

FreeTextBlock(node) ==
  /\ node.type = "free_text"
  /\ \/ Texts(node)
     \/ \E o \in OptionsOf(node) :
          \/ Len(node.options) > 1 /\ Edit(removeOutcome(graph, node, o))
          \/ \E v \in Grades : Edit(setVerdict(graph, node, o, v))
          \/ Exit(node, outcomeEdgeCondition(o))
     \/ \E v \in Grades : Edit(updateDefaultOutcome(graph, node, v))
     \/ Exit(node, outcomeEdgeCondition(DefaultOutcome))
     \/ Len(node.options) < MaxOptions /\ Edit(addOutcome(graph, node))

AddNodeBar ==
  /\ Len(graph.nodes) < MaxNodes
  /\ \E type \in Offered, id \in FreshNodes : Edit(addNode(graph, createNode(type, id)))

(* handleSave: the server keeps what its validator does not refuse.        *)
Save ==
  LET raw == graphToBackendFormat(graph) IN
  /\ validateLessonGraph(raw) = {}
  /\ stored' = raw
  /\ UNCHANGED <<desk, graph>>

(* The page is left and opened again; what was not saved is lost.          *)
Open == Edit(Opened(stored))

EditorNext ==
  \/ \E i \in DOMAIN graph.nodes :
       LET node == graph.nodes[i] IN
       \/ NodeHeader(i) \/ AdminNodeHeader(i)
       \/ StoryBlock(node) \/ ChoiceBlock(node) \/ DecisionBlock(node) \/ FreeTextBlock(node)
  \/ AddNodeBar
  \/ Save
  \/ Open

EditorSpec == EditorInit /\ [][EditorNext]_editorVars

-----------------------------------------------------------------------------
(* Properties.                                                             *)

(* Storing and opening lose nothing: the page would show the same blocks,  *)
(* grades, exits and start again, whatever the author made of them.        *)
OpensAsSaved == Opened(graphToBackendFormat(graph)) = graph

(* The page shows what students walk: for every stored lesson, in the      *)
(* older form too, it lists the exits they can take, and for a free text   *)
(* without a rubric those that were written down.                          *)
ShowsWhatIsStored ==
  LET shown == Opened(stored) IN
  shown # EmptyGraph =>
    /\ shown.start = stored.start
    /\ \A n \in Ids(stored.nodes) :
         /\ describeOutgoingEdges(shown, NodeOf(shown.nodes, n))
              = {x \in ExitsOf(NodeOf(stored.nodes, n)) : x[2] # None}
         /\ getNodeOutputConditions(NodeOf(shown.nodes, n))
              = {x[1] : x \in ExitsOf(NodeOf(stored.nodes, n))}

(* From every block one can go on, by whatever answer, and comes to an end *)
(* and never back.                                                         *)
CanBeFinished(raw) ==
  LET node == StoredById(raw) IN
  \A n \in DOMAIN node :
    /\ node[n].kind = "end" \/ TakenExits(node[n]) # {}
    /\ \A x \in TakenExits(node[n]) : x[2] \in DOMAIN node
    /\ \E m \in Reach(raw, {n}) : node[m].kind = "end"
    /\ n \notin Reach(raw, Targets(node[n]))

(* Blocks the validator admits and no editor writes: a story marked as a   *)
(* final one, and a free text without a rubric.                            *)
DeadEnd(node) ==
  \/ node.kind = "story" /\ node.terminal /\ node.next = None
  \/ node.kind = "free_text" /\ node.rubric = None

(* Whatever the editors make, what the validator admits of it can be       *)
(* finished; and so can a stored lesson of whatever origin, in the older   *)
(* form too, that has none of the two blocks which end no lesson and lead  *)
(* nowhere.                                                                *)
StoredCanBeFinished ==
  /\ LET raw == graphToBackendFormat(graph) IN
     validateLessonGraph(raw) = {} => CanBeFinished(raw)
  /\ (\A node \in ToSet(stored.nodes) : ~DeadEnd(node)) => CanBeFinished(stored)

(* What specs/ARCHITECTURE.md says of the final blocks of a lesson: they   *)
(* are marked as terminal, and who reaches one has finished it.  It does   *)
(* not hold: the server finishes a lesson at blocks of kind end only.      *)
AdmittedCanBeFinished == validateLessonGraph(stored) = {} => CanBeFinished(stored)

(* All the blocks can be reached and every output leads on.                *)
WiredUp(g) ==
  LET raw == graphToBackendFormat(g) IN
  /\ raw.nodes # <<>>
  /\ Reach(raw, {raw.start}) = Ids(raw.nodes)
  /\ \A n \in ToSet(raw.nodes) : \A x \in ExitsOf(n) : x[2] # None

(* Adding a block to a lesson that holds together leaves it so, unless the *)
(* lesson is nothing but an end, whose place as the start is kept, or has  *)
(* several, for nothing need lead to a block before the first of them.     *)
AddingKeepsItWired ==
  [][/\ AddNodeBar /\ Len(graph'.nodes) > Len(graph.nodes)
     /\ WiredUp(graph)
     /\ Len(graph.nodes) > 1
     /\ \A i, j \in Terminals(graph.nodes) : i = j
     => WiredUp(graph')]_editorVars
=============================================================================
