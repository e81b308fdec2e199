----------------------------- MODULE LessonGraph -----------------------------
(***************************************************************************)
(* The graph of a lesson as the two lesson editors hold it (blocks in a    *)
(* list, edges beside them), as it is stored (every block with its own     *)
(* exits), the conversions between the two (frontend/src/api/types.ts) and *)
(* the validator that admits a stored graph (courses/validator.go).        *)
(*                                                                         *)
(* Texts are one flag per block: filled says that the texts the validator  *)
(* asks for are there.  Edges are a function of their block and output,    *)
(* which is what the editors keep by their edgeKey.                        *)
(***************************************************************************)
EXTENDS Naturals, SequencesExt

CONSTANTS
  NodeIds,    \* ids of blocks
  OptionIds,  \* ids of the options and outcomes of a block
  None        \* no block, the empty string of the code

Verdicts == {"correct", "partial", "incorrect"}
Kinds == {"story", "single_choice", "free_text", "decision", "terminal"}
Rubrics == {"outcomes", "verdicts", "plain"}

ASSUME IdAssumption ==
  None \notin NodeIds \cup Verdicts \cup Rubrics /\ "default" \notin OptionIds

(* The condition of an edge: none, option:id or outcome:id.                *)
Onward == <<"next">>
optionEdgeCondition(o) == <<"option", o>>
outcomeEdgeCondition(o) == <<"outcome", o>>
DefaultOutcome == "default"

Choice == [id : OptionIds \cup Verdicts, verdict : Verdicts \cup {None}]

GraphNode ==
  [id : NodeIds, type : Kinds, filled : BOOLEAN, options : Seq(Choice),
   fallback : Verdicts \cup {None}]

Ids(nodes) == {nodes[i].id : i \in DOMAIN nodes}
NodeOf(nodes, n) == nodes[CHOOSE i \in DOMAIN nodes : nodes[i].id = n]
Position(nodes, n) == CHOOSE i \in DOMAIN nodes : nodes[i].id = n
FirstId(nodes) == IF nodes = <<>> THEN None ELSE nodes[1].id
OptionsOf(node) == {node.options[i].id : i \in DOMAIN node.options}

EmptyGraph == [start |-> None, nodes |-> <<>>, edges |-> <<>>]

Kept(edges, D) == [e \in D |-> edges[e]]

-----------------------------------------------------------------------------
(* Edges.                                                                  *)

getForwardTargetNodes(nodes, n) ==
  IF n \notin Ids(nodes) THEN Ids(nodes)
  ELSE {nodes[i].id : i \in {j \in DOMAIN nodes : j > Position(nodes, n)}}

getGraphEdgeTarget(edges, n, c) ==
  IF <<n, c>> \in DOMAIN edges THEN edges[<<n, c>>] ELSE None

setGraphEdgeTarget(edges, n, c, to) ==
  LET others == DOMAIN edges \ {<<n, c>>} IN
  IF to = None THEN Kept(edges, others)
  ELSE [e \in others \cup {<<n, c>>} |-> IF e = <<n, c>> THEN to ELSE edges[e]]

getNodeOutputConditions(node) ==
  CASE node.type = "story" -> {Onward}
    [] node.type \in {"single_choice", "decision"} ->
         {optionEdgeCondition(o) : o \in OptionsOf(node)}
    [] node.type = "free_text" ->
         {outcomeEdgeCondition(o) : o \in OptionsOf(node) \cup {DefaultOutcome}}
    [] OTHER -> {}

connectMissingNodeOutputs(edges, node, to) ==
  LET missing == {<<node.id, c>> : c \in getNodeOutputConditions(node)} \ DOMAIN edges
  IN IF to = None THEN edges
     ELSE [e \in DOMAIN edges \cup missing |-> IF e \in missing THEN to ELSE edges[e]]

retargetNodeOutputs(edges, node, old, new) ==
  [e \in DOMAIN edges |->
     IF e[1] = node.id /\ e[2] \in getNodeOutputConditions(node) /\ edges[e] = old
     THEN new ELSE edges[e]]

(* Mutant: the default outcome is no output of its block.                  *)
isEdgeOfListedOption(node, c) ==
  \/ node.type = "story" /\ c = Onward
  \/ c[1] \in {"option", "outcome"} /\ c[2] \in OptionsOf(node)

isValidEdgeForNode(node, c) ==
  \/ node.type = "story" /\ c = Onward
  \/ /\ node.type \in {"single_choice", "decision"}
     /\ c[1] = "option" /\ c[2] \in OptionsOf(node)
  \/ /\ node.type = "free_text"
     /\ c[1] = "outcome" /\ c[2] \in OptionsOf(node) \cup {DefaultOutcome}

normalizeLessonGraph(g) ==
  LET ids == Ids(g.nodes)
      fit == {e \in DOMAIN g.edges :
                /\ e[1] \in ids /\ g.edges[e] \in ids
                /\ isValidEdgeForNode(NodeOf(g.nodes, e[1]), e[2])}
  IN [start |-> IF g.start \in ids THEN g.start ELSE FirstId(g.nodes),
      nodes |-> g.nodes, edges |-> Kept(g.edges, fit)]

isForwardEdge(nodes, edges, e) ==
  /\ e[1] \in Ids(nodes) /\ edges[e] \in Ids(nodes)
  /\ Position(nodes, edges[e]) > Position(nodes, e[1])

(* Mutant: edges that have become backward stay.                           *)
reorderKeepingEdges(g, i, j) ==
  IF {i, j} \subseteq DOMAIN g.nodes /\ i # j
  THEN normalizeLessonGraph([g EXCEPT !.nodes = InsertAt(RemoveAt(@, i), j, @[i])])
  ELSE normalizeLessonGraph(g)

reorderGraphNodes(g, i, j) ==
  IF {i, j} \subseteq DOMAIN g.nodes /\ i # j
  THEN LET moved == InsertAt(RemoveAt(g.nodes, i), j, g.nodes[i])
           forward == {e \in DOMAIN g.edges : isForwardEdge(moved, g.edges, e)}
       IN normalizeLessonGraph(
            [g EXCEPT !.nodes = moved, !.edges = Kept(@, forward)])
  ELSE normalizeLessonGraph(g)

-----------------------------------------------------------------------------
(* The stored form.  A free text block has its exits by outcome, or in     *)
(* older lessons by verdict, and then its rubric has texts by verdict too, *)
(* is plain (it lacks some of them) or is missing.  A story may be marked  *)
(* as a final one, which the editors neither do nor show.                  *)

Exits ==
  [id : OptionIds \cup Verdicts \cup {DefaultOutcome}, verdict : Verdicts \cup {None},
   to : NodeIds \cup {None}]

StoredExit(id, verdict, to) == [id |-> id, verdict |-> verdict, to |-> to]
NoExit == StoredExit(None, None, None)

KindOf(type) == IF type = "terminal" THEN "end" ELSE type
TypeOf(kind) == IF kind = "end" THEN "terminal" ELSE kind

(* Mutant: the exits of decisions are those of stories.                    *)
StoredNodeNextOnly(edges, node) ==
  [id |-> node.id, kind |-> KindOf(node.type), filled |-> node.filled,
   terminal |-> FALSE, rubric |-> IF node.type = "free_text" THEN "outcomes" ELSE None,
   next |-> getGraphEdgeTarget(edges, node.id, Onward),
   options |-> [i \in DOMAIN node.options |->
     StoredExit(node.options[i].id, node.options[i].verdict,
                getGraphEdgeTarget(edges, node.id, Onward))],
   fallback |-> NoExit]

StoredNode(edges, node) ==
  LET exit(o, c) == StoredExit(o.id, o.verdict, getGraphEdgeTarget(edges, node.id, c)) IN
  [id |-> node.id, kind |-> KindOf(node.type), filled |-> node.filled,
   terminal |-> FALSE, rubric |-> IF node.type = "free_text" THEN "outcomes" ELSE None,
   next |-> IF node.type = "story" THEN getGraphEdgeTarget(edges, node.id, Onward) ELSE None,
   options |-> [i \in DOMAIN node.options |->
     LET o == node.options[i] IN
     exit(o, IF node.type = "free_text" THEN outcomeEdgeCondition(o.id)
             ELSE optionEdgeCondition(o.id))],
   fallback |->
     IF node.type = "free_text"
     THEN exit([id |-> DefaultOutcome, verdict |-> node.fallback],
               outcomeEdgeCondition(DefaultOutcome))
     ELSE NoExit]

graphToBackendFormat(graph) ==
  LET g == normalizeLessonGraph(graph) IN
  [start |-> g.start,
   nodes |-> [i \in DOMAIN g.nodes |-> StoredNode(g.edges, g.nodes[i])]]

(* The second branch of graphFromBackendFormat, and of freeTextOutcomes in *)
(* courses/graph.go and the lesson runtime: the three verdicts are the     *)
(* outcomes, and what matches none of them is incorrect.                   *)
DefaultExit(node) ==
  IF node.rubric # "outcomes"
  THEN LET wrong == CHOOSE i \in DOMAIN node.options : node.options[i].verdict = "incorrect"
       IN [node.options[wrong] EXCEPT !.id = DefaultOutcome]
  ELSE node.fallback

(* The exits of a stored block: its outputs, with the target of each, as   *)
(* the editors and the validator list them.                                *)
ExitsOf(node) ==
  LET exits == {node.options[i] : i \in DOMAIN node.options} IN
  CASE node.kind = "story" -> {<<Onward, node.next>>}
    [] node.kind \in {"single_choice", "decision"} ->
         {<<optionEdgeCondition(o.id), o.to>> : o \in exits}
    [] node.kind = "free_text" ->
         {<<outcomeEdgeCondition(o.id), o.to>> : o \in exits \cup {DefaultExit(node)}}
    [] OTHER -> {}

(* Those that a student can take.  freeTextOutcomes gives none where there *)
(* is no rubric: every answer to such a block is refused.                  *)
TakenExits(node) ==
  IF node.kind = "free_text" /\ node.rubric = None THEN {} ELSE ExitsOf(node)

(* As it is written: the exits of a block have ids of their own, choices   *)
(* have options, grades go with graded answers, older free texts have an   *)
(* outcome for wrong answers and the others a default, texts are missing   *)
(* where the rubric has no place for them, and exits lead forward in the   *)
(* list.                                                                   *)
StoredGraphNode ==
  [id : NodeIds, kind : {KindOf(type) : type \in Kinds}, filled : BOOLEAN,
   terminal : BOOLEAN, rubric : Rubrics \cup {None},
   next : NodeIds \cup {None}, options : Seq(Exits), fallback : Exits \cup {NoExit}]

isStoredNode(node) ==
  /\ \A i, j \in DOMAIN node.options : node.options[i].id = node.options[j].id => i = j
  /\ \A i \in DOMAIN node.options :
       /\ node.options[i].id # DefaultOutcome
       /\ (node.options[i].verdict # None) <=> node.kind \in {"single_choice", "free_text"}
  /\ node.kind \in {"single_choice", "decision"} => node.options # <<>>
  /\ node.kind = "free_text" =>
       /\ node.rubric \in {"plain", None} => ~node.filled
       /\ IF node.rubric = "outcomes"
          THEN node.fallback.id = DefaultOutcome /\ node.fallback.verdict \in Verdicts
          ELSE \E i \in DOMAIN node.options : node.options[i].verdict = "incorrect"

isStoredLesson(raw) ==
  /\ raw \in [start : NodeIds \cup {None}, nodes : Seq(StoredGraphNode)]
  /\ raw.start \in Ids(raw.nodes) \/ (raw.start = None /\ raw.nodes = <<>>)
  /\ \A i, j \in DOMAIN raw.nodes : raw.nodes[i].id = raw.nodes[j].id => i = j
  /\ \A i \in DOMAIN raw.nodes :
       /\ isStoredNode(raw.nodes[i])
       /\ \A x \in ExitsOf(raw.nodes[i]) :
            x[2] = None \/ \E j \in DOMAIN raw.nodes : i < j /\ x[2] = raw.nodes[j].id

LoadedNode(node) ==
  [id |-> node.id, type |-> TypeOf(node.kind), filled |-> node.filled,
   options |-> [i \in DOMAIN node.options |->
     [id |-> node.options[i].id, verdict |-> node.options[i].verdict]],
   fallback |-> IF node.kind = "free_text" THEN DefaultExit(node).verdict ELSE None]

graphFromBackendFormat(raw) ==
  LET outputs(n) == {x \in ExitsOf(n) : x[2] # None}
      edges == UNION {{<<n.id, x[1]>> : x \in outputs(n)} : n \in ToSet(raw.nodes)}
      target(e) == LET n == raw.nodes[Position(raw.nodes, e[1])]
                   IN (CHOOSE x \in outputs(n) : x[1] = e[2])[2]
  IN normalizeLessonGraph(
       [start |-> raw.start,
        nodes |-> [i \in DOMAIN raw.nodes |-> LoadedNode(raw.nodes[i])],
        edges |-> [e \in edges |-> target(e)]])

-----------------------------------------------------------------------------
(* The validator of drafts, as the codes it refuses with.                  *)

Targets(node) == {x[2] : x \in ExitsOf(node)} \ {None}

StoredById(raw) == [n \in Ids(raw.nodes) |-> NodeOf(raw.nodes, n)]

(* Blocks that can be reached from the blocks S.                           *)
Reach(raw, S) ==
  LET node == StoredById(raw)
      after[k \in 0..Len(raw.nodes)] ==
        IF k = 0 THEN S \cap DOMAIN node
        ELSE after[k-1] \cup ((UNION {Targets(node[n]) : n \in after[k-1]}) \cap DOMAIN node)
  IN after[Len(raw.nodes)]

(* Mutant: the exits of decisions are not looked at.                       *)
collectTargetsOfStories(node) ==
  IF node.kind = "story" /\ node.next = None /\ ~node.terminal THEN {"missing_transition"} ELSE {}

collectTargets(node) ==
  LET unled == \E x \in ExitsOf(node) : x[2] = None
      incomplete == unled \/ ~node.filled
      right == \E i \in DOMAIN node.options : node.options[i].verdict = "correct" IN
  CASE node.kind = "story" -> IF unled /\ ~node.terminal THEN {"missing_transition"} ELSE {}
    [] node.kind = "single_choice" ->
         (IF node.options = <<>> THEN {"missing_options"} ELSE {})
         \cup (IF incomplete THEN {"invalid_option"} ELSE {})
         \cup (IF right THEN {} ELSE {"missing_correct_option"})
    [] node.kind = "decision" ->
         (IF Len(node.options) < 2 THEN {"missing_decision_options"} ELSE {})
         \cup (IF incomplete THEN {"invalid_decision_option"} ELSE {})
    [] node.kind = "free_text" /\ node.rubric = "outcomes" ->
         (IF node.options = <<>> THEN {"missing_outcomes"} ELSE {})
         \cup (IF incomplete THEN {"invalid_outcome"} ELSE {})
         \cup (IF right THEN {} ELSE {"missing_correct_outcome"})
    [] node.kind = "free_text" /\ node.rubric # "outcomes" ->
         (IF unled THEN {"missing_transition"} ELSE {})
         \cup (IF node.rubric = "verdicts" /\ ~node.filled
               THEN {"missing_free_text_criteria"} ELSE {})
    [] OTHER -> {}

validateLessonGraph(raw) ==
  LET node == StoredById(raw) IN
  (UNION {collectTargets(node[n]) : n \in DOMAIN node})
  \cup (IF raw.start = None THEN {"missing_start_node"}
        ELSE IF raw.start \notin DOMAIN node THEN {"missing_start_target"} ELSE {})
  \cup (IF \E n \in DOMAIN node : ~(Targets(node[n]) \subseteq DOMAIN node)
        THEN {"missing_transition_target"} ELSE {})
  \cup (IF raw.start # None /\ \E n \in Reach(raw, {raw.start}) : n \in Reach(raw, Targets(node[n]))
        THEN {"cycle_detected"} ELSE {})
  \cup (IF raw.start # None /\ Reach(raw, {raw.start}) # DOMAIN node
        THEN {"unreachable_node"} ELSE {})
=============================================================================
