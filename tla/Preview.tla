------------------------------ MODULE Preview ------------------------------
(***************************************************************************)
(* Previewing a lesson of a draft: the previews an API server keeps in     *)
(* memory (backend/internal/courses) and the page that walks one           *)
(* (frontend/src/pages/teacher/PreviewPlayer.tsx), in several tabs.        *)
(*                                                                         *)
(* A preview is never stored.  It is forgotten when it is not used for a   *)
(* while, when newer ones need its place, and with the server.  Every      *)
(* handler holds the server's one mutex, also while a free text is         *)
(* evaluated, which is the only handler that takes more than one step.     *)
(* A call or its answer may be lost, and the call of a closed tab is       *)
(* handled for nobody.                                                     *)
(***************************************************************************)
EXTENDS Integers, FiniteSets, SequencesExt

CONSTANTS
  Nodes, Options,
  Drafts,      \* what the author may save; each is the graph of the lesson
  Previews,    \* preview session ids, never used twice
  Authors,     \* teachers and administrators
  Pages,       \* browser tabs
  Author,      \* who is signed in in a tab
  PreviewMax,  \* s.previewMax, which NewService sets to 1024
  MaxVersion,  \* bound on the state version of a preview
  MaxCalls,    \* bound on the calls under way
  NoOption, NoPage, NoStep, NoPreview

Kinds == {"story", "single_choice", "free_text", "decision", "end"}
Questions == {"single_choice", "free_text"}

(* ValidateDraft: a draft that breaks this can be saved, not previewed.  A *)
(* story marked as terminal and a free text without a rubric are let in    *)
(* with no exit at all.                                                    *)
IsValid(g) ==
  \A n \in Nodes :
    /\ g.kind[n] = "end" => g.exits[n] = {}
    /\ g.kind[n] \in {"single_choice", "decision"} => g.exits[n] # {}
    /\ g.kind[n] = "story" => \A d, e \in g.exits[n] : d = e
    /\ \A d, e \in g.exits[n] : d.option = e.option => d = e

ASSUME DraftAssumption ==
  Drafts \subseteq [start : Nodes, kind : [Nodes -> Kinds],
                    exits : [Nodes -> SUBSET [option : Options, to : Nodes]]]

ASSUME PageAssumption ==
  /\ Author \in [Pages -> Authors] /\ NoPage \notin Pages
  /\ PreviewMax \in Nat \ {0} /\ MaxVersion \in Nat \ {0} /\ MaxCalls \in Nat

VARIABLES
  draft,    \* the lesson as it was saved last
  preview,  \* what there is, or was, of each preview
  recent,   \* the previews in memory, the longest untouched first
  page,     \* what each tab shows
  calls     \* the calls under way, with their answers

previewVars == <<draft, preview, recent, page, calls>>

Steps == [version : 1..MaxVersion, node : Nodes, kind : Kinds, back : BOOLEAN]
PreviewRows == [owner : Authors, graph : Drafts, at : Nodes, version : 1..MaxVersion,
                history : Seq(Nodes)]

ASSUME AbsenceAssumption ==
  NoStep \notin Steps /\ NoPreview \notin Previews \cup PreviewRows

Away == [preview |-> NoPreview, step |-> NoStep, selected |-> NoOption,
         result |-> NoStep, completed |-> FALSE]

(* However many previews are started, the server keeps PreviewMax.         *)
PreviewTypeOK ==
  /\ draft \in Drafts
  /\ preview \in [Previews -> PreviewRows \cup {NoPreview}]
  /\ ToSet(recent) \subseteq {s \in Previews : preview[s] # NoPreview}
  /\ Len(recent) <= PreviewMax
  /\ page \in [Pages -> [preview : Previews \cup {NoPreview}, step : Steps \cup {NoStep},
                         selected : Options \cup {NoOption},
                         result : Steps \cup {NoStep}, completed : BOOLEAN]]
  /\ \A c \in calls : c.step \in Steps => c.status = "answered"

-----------------------------------------------------------------------------
(* The previews of the server.                                             *)

Kind(s, n) == preview[s].graph.kind[n]
Exits(s, n) == preview[s].graph.exits[n]

(* A handler can run: the mutex is not held by an evaluation.              *)
MutexFree == \A c \in calls : c.status # "evaluating"

(* latestActivePreviewHistoryIndex and the loop of Back: of the history    *)
(* only what is active is kept, for nothing reads the rest.                *)
DecisionsBehind(row) ==
  {i \in 1..(Len(row.history) - 1) : row.graph.kind[row.history[i]] = "decision"}

previewNavigation(row) == DecisionsBehind(row) # {}

(* Mutant: the navigation is not filled in.                                *)
EnvelopeOnly(row) ==
  [version |-> row.version, node |-> row.at, kind |-> row.graph.kind[row.at],
   back |-> FALSE]

buildPreviewEnvelope(row) ==
  [version |-> row.version, node |-> row.at, kind |-> row.graph.kind[row.at],
   back |-> previewNavigation(row)]

Moved(row, n) ==
  [row EXCEPT !.version = @ + 1, !.at = n, !.history = Append(@, n)]

(* Mutant: Back leaves the path behind the decision active.                *)
MovedBackOnly(row, t) ==
  [row EXCEPT !.version = @ + 1, !.at = row.history[t]]

MovedBack(row, t) ==
  [row EXCEPT !.version = @ + 1, !.at = row.history[t], !.history = SubSeq(@, 1, t)]

(* Mutant: one preview too many is kept.                                   *)
EvictedLate(rs) == IF Len(rs) <= PreviewMax THEN rs ELSE Tail(rs)

evictPreviews(rs) == IF Len(rs) < PreviewMax THEN rs ELSE Tail(rs)

(* StartPreview, of the draft of its author or of one under moderation.    *)
startPreviewFromDraft(s, owner) ==
  /\ IsValid(draft) /\ MutexFree
  /\ preview[s] = NoPreview
  /\ preview' = [preview EXCEPT ![s] =
       [owner |-> owner, graph |-> draft, at |-> draft.start, version |-> 1,
        history |-> <<draft.start>>]]
  /\ recent' = Append(evictPreviews(recent), s)

(* The preview of a call is in memory and belongs to who calls.            *)
loadPreview(c) ==
  /\ c.status = "sent" /\ MutexFree
  /\ c.preview \in ToSet(recent) /\ preview[c.preview].owner = c.by

AtVersion(c) ==
  /\ loadPreview(c)
  /\ preview[c.preview].version = c.version /\ preview[c.preview].at = c.node

(* The call is answered with where its preview is from now on, row.        *)
Answers(c, row) ==
  calls' = (calls \ {c}) \cup
    (IF c.page = NoPage THEN {}
     ELSE {[c EXCEPT !.status = "answered", !.step = buildPreviewEnvelope(row)]})

Walks(c, row) ==
  /\ row.version <= MaxVersion
  /\ preview' = [preview EXCEPT ![c.preview] = row]
  /\ \E i \in DOMAIN recent :
       recent[i] = c.preview /\ recent' = Append(RemoveAt(recent, i), c.preview)
  /\ Answers(c, row)

(* Reading a preview does not touch it.                                    *)
PreviewSession(c) ==
  /\ c.op = "get" /\ loadPreview(c)
  /\ Answers(c, preview[c.preview])
  /\ UNCHANGED <<preview, recent>>

(* Mutant: any node ahead is taken for the answer of a repeated call.      *)
RepeatedFromAnywhere(c) ==
  /\ c.op = "next" /\ loadPreview(c)
  /\ preview[c.preview].version > c.version

Repeated(c) ==
  LET row == preview[c.preview] IN
  /\ c.op = "next" /\ loadPreview(c)
  /\ row.version = c.version + 1
  /\ Kind(c.preview, c.node) = "story"
  /\ row.at \in {e.to : e \in Exits(c.preview, c.node)}

(* A call that was handled before is answered with where it led.           *)
PreviewNextRepeated(c) ==
  /\ Repeated(c)
  /\ Answers(c, preview[c.preview])
  /\ UNCHANGED <<preview, recent>>

PreviewNext(c) ==
  /\ c.op = "next" /\ AtVersion(c)
  /\ Kind(c.preview, c.node) = "story"
  /\ \E e \in Exits(c.preview, c.node) : Walks(c, Moved(preview[c.preview], e.to))

Chosen(c) == {e \in Exits(c.preview, c.node) : e.option = c.option}

PreviewAnswerChoice(c) ==
  /\ c.op = "answer" /\ AtVersion(c)
  /\ Kind(c.preview, c.node) = "single_choice"
  /\ \E e \in Chosen(c) : Walks(c, Moved(preview[c.preview], e.to))

(* The evaluator is asked with the mutex held.                             *)
PreviewAnswerText(c) ==
  /\ c.op = "answer" /\ AtVersion(c)
  /\ Kind(c.preview, c.node) = "free_text"
  /\ calls' = (calls \ {c}) \cup {[c EXCEPT !.status = "evaluating"]}
  /\ UNCHANGED <<preview, recent>>

(* It chooses an outcome, if only the default one.                         *)
PreviewEvaluated(c) ==
  /\ c.status = "evaluating"
  /\ \E e \in Exits(c.preview, c.node) : Walks(c, Moved(preview[c.preview], e.to))

PreviewDecision(c) ==
  /\ c.op = "decision" /\ AtVersion(c)
  /\ Kind(c.preview, c.node) = "decision"
  /\ \E e \in Chosen(c) : Walks(c, Moved(preview[c.preview], e.to))

(* Back, to the last decision, does not say which node it was asked from.  *)
PreviewBack(c) ==
  LET row == preview[c.preview] IN
  /\ c.op = "back" /\ loadPreview(c)
  /\ row.version = c.version
  /\ \E t \in DecisionsBehind(row) :
       /\ \A i \in DecisionsBehind(row) : i <= t
       /\ Walks(c, MovedBack(row, t))

(* previewTTL: the longest untouched go first, but one whose answer is     *)
(* being evaluated is in use and is touched when that is done.             *)
Evaluated(s) == \E c \in calls : c.preview = s /\ c.status = "evaluating"

Expires(i) ==
  /\ ~Evaluated(recent[i])
  /\ \A j \in 1..(i - 1) : Evaluated(recent[j])
  /\ recent' = RemoveAt(recent, i)
  /\ UNCHANGED <<draft, preview, page, calls>>

(* The author saves the lesson meanwhile.                                  *)
Saves(g) ==
  /\ g # draft /\ draft' = g
  /\ UNCHANGED <<preview, recent, page, calls>>

-----------------------------------------------------------------------------
(* The page.                                                               *)

(* submitting and advancing: an action of the page waits for its answer.   *)
Waits(p, ops) == \E c \in calls : c.page = p /\ c.op \in ops
advancing(p) == Waits(p, {"next", "back"})
submitting(p) == Waits(p, {"answer", "decision"})

Asks(p, op, option) ==
  /\ Cardinality(calls) < MaxCalls
  /\ calls' = calls \cup
       {[page |-> p, by |-> Author[p], op |-> op, preview |-> page[p].preview,
         version |-> page[p].step.version, node |-> page[p].step.node,
         option |-> option, status |-> "sent", step |-> NoStep]}
  /\ UNCHANGED <<draft, preview, recent>>

(* The page of a preview is mounted: it asks for the preview.              *)
Mounted(p, s) ==
  /\ Cardinality(calls) < MaxCalls
  /\ page' = [page EXCEPT ![p] = [Away EXCEPT !.preview = s]]
  /\ calls' = calls \cup
       {[page |-> p, by |-> Author[p], op |-> "get", preview |-> s, version |-> 0,
         node |-> preview'[s].graph.start, option |-> NoOption, status |-> "sent",
         step |-> NoStep]}

(* The editor starts a preview and leads to its page, unless the answer    *)
(* gets lost.                                                              *)
handlePreview(p, s) ==
  /\ page[p].preview = NoPreview
  /\ startPreviewFromDraft(s, Author[p])
  /\ Mounted(p, s) \/ UNCHANGED <<page, calls>>
  /\ UNCHANGED draft

(* A preview is opened by its address, by whoever has it.                  *)
OpenAddress(p, s) ==
  /\ page[p].preview = NoPreview /\ preview[s] # NoPreview
  /\ UNCHANGED <<draft, preview, recent>>
  /\ Mounted(p, s)

(* setCurrentStep and resetTransientState.                                 *)
StepShown(pg, step) ==
  [pg EXCEPT !.step = step, !.result = NoStep, !.selected = NoOption]

(* What a button needs: the panel of a step is on show.                    *)
StepPanel(p, kinds) ==
  /\ page[p].step # NoStep /\ page[p].result = NoStep /\ ~page[p].completed
  /\ page[p].step.kind \in kinds

setSelectedOption(p, o) ==
  /\ StepPanel(p, {"single_choice", "decision"})
  /\ o \in {e.option : e \in Exits(page[p].preview, page[p].step.node)}
  /\ page' = [page EXCEPT ![p].selected = o]
  /\ UNCHANGED <<draft, preview, recent, calls>>

handleNext(p) ==
  \/ /\ StepPanel(p, {"story"}) /\ ~advancing(p)
     /\ Asks(p, "next", NoOption)
     /\ page' = [page EXCEPT ![p] = StepShown(@, @.step)]
  \/ /\ StepPanel(p, {"end"})
     /\ page' = [page EXCEPT ![p].completed = TRUE]
     /\ UNCHANGED <<draft, preview, recent, calls>>

handleAnswer(p) ==
  /\ StepPanel(p, Questions) /\ ~submitting(p)
  /\ page[p].step.kind = "free_text" \/ page[p].selected # NoOption
  /\ Asks(p, "answer", page[p].selected)
  /\ UNCHANGED page

handleDecision(p) ==
  /\ StepPanel(p, {"decision"}) /\ ~submitting(p)
  /\ page[p].selected # NoOption
  /\ Asks(p, "decision", page[p].selected)
  /\ UNCHANGED page

handleBack(p) ==
  /\ StepPanel(p, {"story", "decision", "end"}) /\ ~advancing(p)
  /\ page[p].step.back
  /\ page[p].step.kind = "decision" => ~submitting(p)
  /\ Asks(p, "back", NoOption)
  /\ UNCHANGED page

(* The result of an answer carries the step that follows.                  *)
handleContinueAfterFeedback(p) ==
  /\ page[p].result # NoStep
  /\ page' = [page EXCEPT ![p] = StepShown(@, page[p].result)]
  /\ UNCHANGED <<draft, preview, recent, calls>>

(* Back to the editor, the tab closed, or reloaded before it is opened     *)
(* again: nobody waits for what is under way.                              *)
handleReturnToEditor(p) ==
  /\ page[p].preview # NoPreview
  /\ page' = [page EXCEPT ![p] = Away]
  /\ calls' = {c \in calls : c.page # p} \cup
       {[c EXCEPT !.page = NoPage] :
          c \in {d \in calls : d.page = p /\ d.op # "get" /\ d.status # "answered"}}
  /\ UNCHANGED <<draft, preview, recent>>

(* The answer of a call arrives.                                           *)
Arrives(c) ==
  /\ c.status = "answered"
  /\ calls' = calls \ {c}
  /\ page' = [page EXCEPT ![c.page] =
       IF c.op = "answer" THEN [@ EXCEPT !.result = c.step] ELSE StepShown(@, c.step)]
  /\ UNCHANGED <<draft, preview, recent>>

(* It is refused, or lost on either way: the page shows a message and      *)
(* stays as it is.                                                         *)
CallFails(c) ==
  /\ calls' = calls \ {c}
  /\ UNCHANGED <<draft, preview, recent, page>>

(* The server restarts: the previews were in its memory only, and what it  *)
(* was evaluating fails.                                                   *)
Restarts ==
  /\ recent # <<>> /\ recent' = <<>>
  /\ calls' = {c \in calls : c.status # "evaluating"}
  /\ UNCHANGED <<draft, preview, page>>

-----------------------------------------------------------------------------
PreviewInit ==
  /\ draft \in Drafts
  /\ preview = [s \in Previews |-> NoPreview]
  /\ recent = <<>>
  /\ page = [p \in Pages |-> Away]
  /\ calls = {}

Server(c) ==
  \/ PreviewSession(c) \/ PreviewNext(c) \/ PreviewNextRepeated(c)
  \/ PreviewAnswerChoice(c) \/ PreviewAnswerText(c) \/ PreviewEvaluated(c)
  \/ PreviewDecision(c) \/ PreviewBack(c)

PreviewPlayer(p) ==
  \/ handleNext(p) \/ handleAnswer(p) \/ handleDecision(p) \/ handleBack(p)
  \/ handleContinueAfterFeedback(p) \/ handleReturnToEditor(p)
  \/ \E o \in Options : setSelectedOption(p, o)

PreviewStep ==
  \/ \E p \in Pages : PreviewPlayer(p)
  \/ \E p \in Pages, s \in Previews : handlePreview(p, s) \/ OpenAddress(p, s)
  \/ \E c \in calls : (Server(c) /\ UNCHANGED <<draft, page>>) \/ Arrives(c) \/ CallFails(c)
  \/ \E i \in DOMAIN recent : Expires(i)
  \/ \E g \in Drafts : Saves(g)
  \/ Restarts

PreviewSpec == PreviewInit /\ [][PreviewStep]_previewVars

-----------------------------------------------------------------------------
(* Properties.                                                             *)

(* What a preview remembers is a walk through its graph, from the start to *)
(* where it is, whatever was walked back and walked again, so that Back    *)
(* always leads to a decision that was really met.                         *)
HistoryIsWalk ==
  \A s \in {t \in Previews : preview[t] # NoPreview} :
    LET h == preview[s].history IN
    /\ h[1] = preview[s].graph.start /\ h[Len(h)] = preview[s].at
    /\ \A i \in 1..(Len(h) - 1) : \E e \in Exits(s, h[i]) : e.to = h[i + 1]

(* A tab may be behind its preview, when another tab or a lost answer has  *)
(* moved it, but never beside it: at the same version it shows the same    *)
(* step with the same way back.  What follows an answer is one version     *)
(* further, at an exit of the question still on show.  What is selected is *)
(* an option of the step on show, however that step came there.            *)
PageTrailsPreview ==
  \A p \in Pages : page[p].step # NoStep =>
    LET row == preview[page[p].preview]
        Trails(step) == /\ step.version <= row.version
                        /\ step.version = row.version =>
                             step.node = row.at /\ step.back = previewNavigation(row)
    IN /\ Trails(page[p].step)
       /\ page[p].result # NoStep =>
            /\ Trails(page[p].result)
            /\ page[p].result.version = page[p].step.version + 1
            /\ \E e \in Exits(page[p].preview, page[p].step.node) : e.to = page[p].result.node
       /\ page[p].selected # NoOption =>
            \E e \in Exits(page[p].preview, page[p].step.node) : e.option = page[p].selected

(* A press leads one step further, or back to a decision, and never past   *)
(* what other tabs have done: a repeated "next" is answered with the step  *)
(* it led to, everything else that comes too late is refused.              *)
OneStepPerPress ==
  [][\A p \in Pages :
       LET old == page[p].step
           new == page'[p].step IN
       /\ old # NoStep /\ new # NoStep /\ new # old /\ page[p].preview = page'[p].preview
       => /\ new.version = old.version + 1
          /\ \/ new.kind = "decision"
             \/ \E e \in Exits(page[p].preview, old.node) : e.to = new.node]_previewVars
=============================================================================
