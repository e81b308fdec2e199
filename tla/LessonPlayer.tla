---------------------------- MODULE LessonPlayer ----------------------------
(***************************************************************************)
(* The student's pages of a lesson (frontend/src/pages/student): the tree  *)
(* of the course and the player, in several browser tabs at once, over the *)
(* lesson runtime that answers them.                                       *)
(*                                                                         *)
(* A tab sends one request at a time.  The request is handled and answered *)
(* in one step: the page can do nothing meanwhile, so what others do in    *)
(* between might as well have been done before it was sent.  A request or  *)
(* its answer may be lost, and a tab may be closed with a request on its   *)
(* way, which the server then handles for nobody.  Only the abandonment of *)
(* a session has a slot of its own: the page goes on while it is awaited.  *)
(***************************************************************************)
EXTENDS LessonRuntime

CONSTANTS
  Tabs,     \* browser tabs; each is the start request it may send
  NoTab,
  NoStep,   \* currentStep is null
  NoKey

ASSUME TabAssumption == Tabs = Starts /\ NoTab \notin Tabs /\ NoKey \notin Keys

VARIABLES
  tab,      \* what each tab shows, holds and waits for
  opener    \* the tab whose request is about to insert a session

playerVars == <<vars, tab, opener>>

StepScreens == Kinds
Screens == StepScreens \cup
  {"away", "tree", "loading", "checking", "feedback", "complete", "paywall", "error"}
Walks == {"next", "answer", "decision", "back"}
Calls == {"none", "session", "start", "retry"} \cup Walks

Steps == [session : Sessions, version : Nat, node : Nodes, kind : Kinds, back : BOOLEAN]
Results == [verdict : Verdicts \cup {"none"}, done : BOOLEAN]
NoAccess == [l \in Lessons |-> "locked"]
NoResult == [verdict |-> "none", done |-> FALSE]

PlayerTypeOK ==
  /\ LessonTypeOK
  /\ tab \in [Tabs -> [screen : Screens, lesson : Lessons, step : Steps \cup {NoStep},
                       key : Keys \cup {NoKey}, result : Results, call : Calls,
                       access : [Lessons -> {"completed", "open", "locked"}],
                       exit : Sessions \cup {NoStep}]]
  /\ opener \in Tabs \cup {NoTab}
  /\ (opener = NoTab) <=> (opening = Idle)

-----------------------------------------------------------------------------
(* What the server says of a session: the node it is at, rendered from the *)
(* graph of revision r, and whether a decision can be undone.              *)
(* Mutant: a lesson is always rendered from its start.                     *)
StepViewOfStart(s, row, entries, r) ==
  LET g == Graph[r][row.lesson] IN
  [session |-> s, version |-> row.version, node |-> g.start, kind |-> g.kind[g.start],
   back |-> FALSE]

StepView(s, row, entries, r) ==
  LET A == {i \in DOMAIN entries : entries[i].active}
      kind == Graph[r][row.lesson].kind IN
  [session |-> s, version |-> row.version, node |-> row.node, kind |-> kind[row.node],
   back |-> A # {} /\ \E i \in A \ {Latest(A)} : kind[entries[i].node] = "decision"]

ViewOf(s) == StepView(s, session[s], path[s], session[s].rev)
NewViewOf(s) == StepView(s, session'[s], path'[s], session'[s].rev)

(* A key never generated before; keys are only compared, so any will do.   *)
(* Every step gets one, and only the answer of a question sends it.        *)
FreshKeys == Keys \ ({a.key : a \in attempts} \cup {tab[t].key : t \in Tabs})
generateIdempotencyKey(kind) ==
  IF kind \in Questions THEN CHOOSE k \in FreshKeys : TRUE ELSE NoKey

(* What a page does not look at again is forgotten: the key until the next *)
(* step, the verdict once it was shown, the access the tree was shown with *)
(* outside the tree.                                                       *)
Screen(page, screen) ==
  [page EXCEPT !.screen = screen, !.call = "none", !.result = NoResult, !.key = NoKey,
               !.step = IF screen = "away" THEN NoStep ELSE @,
               !.access = IF screen = "tree" THEN @ ELSE NoAccess]

Loading(t, l) == [Screen(tab[t], "loading") EXCEPT !.lesson = l, !.call = "session"]

transitionToStep(page, view) ==
  [Screen(page, view.kind) EXCEPT !.step = view, !.key = generateIdempotencyKey(view.kind)]

(* The request of t has failed; the tree only shows the message.           *)
Failed(t) ==
  tab' = [tab EXCEPT ![t] =
            Screen(@, IF @.screen \in {"away", "tree"} THEN @.screen ELSE "error")]

(* The request of t is answered, and the page becomes page, unless the     *)
(* answer is lost; nobody looks at the answer in a closed tab.             *)
Answered(t, page) ==
  \/ /\ tab[t].screen # "away" /\ FreshKeys # {}
     /\ tab' = [tab EXCEPT ![t] = page]
  \/ Failed(t)

Sent(t, call) == tab[t].call = call /\ UNCHANGED opener

-----------------------------------------------------------------------------
(* The tree of the course.                                                 *)

AccessState(l) ==
  IF \E p \in DOMAIN progress : p = Preferred(DOMAIN progress) /\ lp[p][l].status = "completed"
  THEN "completed" ELSE IF l \in open THEN "open" ELSE "locked"

(* The tab is free to show another page: what it has sent before is done.  *)
TabIsFree(t) == tab[t].screen \in {"away", "tree"} /\ tab[t].call = "none" /\ tab[t].exit = NoStep

(* The tree is fetched whenever it is come to, and shown as it was then.   *)
CourseTree(t) ==
  /\ TabIsFree(t)
  /\ tab' = [tab EXCEPT ![t] = [Screen(@, "tree") EXCEPT
                !.step = NoStep, !.access = [l \in Lessons |-> AccessState(l)]]]
  /\ UNCHANGED <<vars, opener>>

handleStart(t, l) ==
  /\ tab' = [tab EXCEPT ![t] = Loading(t, l)]
  /\ UNCHANGED <<vars, opener>>

(* The tree asks for the retry itself and then opens the player.           *)
handleRetryTree(t, l) ==
  /\ tab' = [tab EXCEPT ![t].lesson = l, ![t].call = "retry"]
  /\ UNCHANGED <<vars, opener>>

(* What the tree offers for a lesson, by the access it was shown with.     *)
LessonNodeItem(t, l) ==
  /\ tab[t].screen = "tree" /\ tab[t].call = "none"
  /\ \/ tab[t].access[l] = "open" /\ handleStart(t, l)
     \/ tab[t].access[l] = "completed" /\ handleRetryTree(t, l)

-----------------------------------------------------------------------------
(* Opening a lesson: initSession.                                          *)

InitSession(t, l) ==
  /\ tab[t].call = "none"
  /\ tab' = [tab EXCEPT ![t] = Loading(t, l)]
  /\ UNCHANGED <<vars, opener>>

SessionByCourseLesson(t) ==
  /\ Sent(t, "session")
  /\ \E s \in OpenSessionOf(tab[t].lesson) :
       tab[t].lesson \in open /\ Answered(t, transitionToStep(tab[t], ViewOf(s)))
  /\ UNCHANGED vars

(* Whatever the reason, the page goes on to start the lesson.              *)
SessionFails(t) ==
  /\ Sent(t, "session")
  /\ tab' = [tab EXCEPT ![t].call = IF tab[t].screen = "away" THEN "none" ELSE "start"]
  /\ UNCHANGED vars

(* An open session is answered as it is, rendered from the revision that   *)
(* StartLesson resolved.                                                   *)
StartReturnsOpen(t) ==
  LET l == tab[t].lesson IN
  /\ Sent(t, "start")
  /\ GameStateFree /\ l \in open
  /\ \E s \in OpenSessionOf(l) :
       Answered(t, transitionToStep(tab[t], StepView(s, session[s], path[s], Resolved)))
  /\ looking' = looking \ {<<t, l>>}
  /\ UNCHANGED <<current, open, progress, lp, session, path, attempts, xp, opening>>

StartChecks(t) ==
  LET l == tab[t].lesson IN
  /\ tab[t].call = "start"
  /\ \/ LookForProgress(t, l) /\ UNCHANGED opener
     \/ StartInProgress(l) /\ opener' = t
     \/ StartPublished(t, l) /\ opener' = t
  /\ UNCHANGED tab

RetryChecks(t) ==
  /\ tab[t].call = "retry"
  /\ CheckRetry(tab[t].lesson)
  /\ opener' = t
  /\ UNCHANGED tab

SessionOpens(s) ==
  /\ opener # NoTab
  /\ CommitStart(s) \/ CommitRetry(s)
  /\ Answered(opener, IF tab[opener].screen = "tree" THEN Loading(opener, tab[opener].lesson)
                      ELSE transitionToStep(tab[opener], NewViewOf(s)))
  /\ opener' = NoTab

(* The lesson is locked behind the paywall, or locked otherwise, out of    *)
(* order, already open, or the request fails: the page has a screen for    *)
(* the first and shows the message of the others.                          *)
OpeningRefused(t) ==
  /\ tab[t].call \in {"start", "retry"}
  /\ IF opener = t THEN OpeningFails /\ opener' = NoTab
     ELSE /\ looking' = looking \ {<<t, tab[t].lesson>>}
          /\ UNCHANGED <<current, open, progress, lp, session, path, attempts, xp,
                         opening, opener>>
  /\ \/ Failed(t)
     \/ /\ tab[t].screen = "loading" /\ tab[t].lesson \notin open
        /\ tab' = [tab EXCEPT ![t] = Screen(@, "paywall")]

-----------------------------------------------------------------------------
(* Walking.                                                                *)

Ask(t, call) ==
  /\ tab[t].call = "none"
  /\ tab' = [tab EXCEPT ![t].call = call]
  /\ UNCHANGED <<vars, opener>>

handleStoryNext(t) == Ask(t, "next")
handleDecision(t) == Ask(t, "decision")
handleGoBack(t) == Ask(t, "back")

handleSubmitAnswer(t) ==
  /\ tab' = [tab EXCEPT ![t].call = "answer", ![t].screen = "checking"]
  /\ UNCHANGED <<vars, opener>>

(* Next and Decision and Back answer with the step the session is at.      *)
Walked(t) ==
  /\ tab[t].step # NoStep
  /\ LET at == tab[t].step IN
     /\ \/ /\ Sent(t, "next")
           /\ \/ StoryNext(at.session, at.version, at.node)
              \/ RepeatedNext(at.session, at.version, at.node)
        \/ Sent(t, "decision") /\ Decision(at.session, at.version, at.node)
        \/ Sent(t, "back") /\ Back(at.session, at.version)
     /\ Answered(t, transitionToStep(tab[t], NewViewOf(at.session)))

(* The verdict is shown first; the next step is kept beside it, and there  *)
(* is none when the lesson is done.                                        *)
AnswerEvaluated(t) ==
  /\ tab[t].step # NoStep
  /\ Sent(t, "answer")
  /\ LET at == tab[t].step IN
     /\ Answer(at.session, at.version, at.node, tab[t].key)
     /\ \E a \in attempts' \ attempts :
          LET done == session'[at.session].status = "completed"
              page == [tab[t] EXCEPT !.screen = "feedback", !.call = "none",
                         !.result = [verdict |-> a.verdict, done |-> done]]
          IN Answered(t, IF done THEN page ELSE [page EXCEPT !.step = NewViewOf(at.session)])

(* Refused, or lost on the way to the server.                              *)
WalkFails(t) ==
  /\ tab[t].call \in Walks
  /\ Failed(t)
  /\ UNCHANGED <<vars, opener>>

(* Mutant: every verdict ends the lesson.                                  *)
FeedbackCompletes(t) ==
  /\ tab' = [tab EXCEPT ![t] = Screen(@, "complete")]
  /\ UNCHANGED <<vars, opener>>

handleFeedbackNext(t) ==
  /\ IF tab[t].result.done THEN tab' = [tab EXCEPT ![t] = Screen(@, "complete")]
     ELSE /\ FreshKeys # {}
          /\ tab' = [tab EXCEPT ![t] = transitionToStep(tab[t], tab[t].step)]
  /\ UNCHANGED <<vars, opener>>

(* No request is made: the server has completed the lesson, or has not.    *)
handleEndComplete(t) ==
  /\ tab[t].call = "none"
  /\ tab' = [tab EXCEPT ![t] = Screen(@, "complete")]
  /\ UNCHANGED <<vars, opener>>

handleRetry(t) == Ask(t, "retry")

-----------------------------------------------------------------------------
(* Leaving.                                                                *)

(* A page that is gone keeps nothing, but what it sent goes on.            *)
Gone(page) ==
  [Screen(page, "away") EXCEPT
     !.call = IF page.call = "session" THEN "none" ELSE page.call,
     !.step = IF page.call \in Walks THEN page.step ELSE NoStep,
     !.key = IF page.call = "answer" THEN page.key ELSE NoKey]

navigateAway(t) ==
  /\ tab' = [tab EXCEPT ![t] = Gone(@)]
  /\ UNCHANGED <<vars, opener>>

CloseTab(t) == tab[t].screen # "away" /\ navigateAway(t)

(* The exit is confirmed: the abandonment of the session is sent, and the  *)
(* page goes on, with all it offers, until it is answered.                 *)
handleConfirmExit(t) ==
  IF tab[t].step = NoStep THEN navigateAway(t)
  ELSE /\ tab[t].exit = NoStep
       /\ tab' = [tab EXCEPT ![t].exit = tab[t].step.session]
       /\ UNCHANGED <<vars, opener>>

AbandonHandled(t) ==
  /\ tab[t].exit # NoStep /\ AbandonSession(tab[t].exit)
  /\ UNCHANGED <<tab, opener>>

(* Answered, refused or lost: the page is left whatever it shows by then.  *)
ExitGoesAhead(t) ==
  /\ tab[t].exit # NoStep
  /\ tab' = [tab EXCEPT ![t] = [Gone(@) EXCEPT !.exit = NoStep]]
  /\ UNCHANGED <<vars, opener>>

(* The cross is disabled while the page submits, which opening a lesson is *)
(* not.  It asks first, where there is something to lose; what was asked   *)
(* while the lesson was loading may be confirmed when that has failed.     *)
handleClose(t) ==
  /\ tab[t].call = "none" \/ tab[t].screen = "loading"
  /\ \/ tab[t].screen \in {"complete", "error"} /\ navigateAway(t)
     \/ tab[t].screen # "complete" /\ handleConfirmExit(t)

-----------------------------------------------------------------------------
(* The screens of the player, with what each of them offers.               *)

BackOffered(t) == tab[t].step # NoStep /\ tab[t].step.back

StoryScreen(t) ==
  /\ tab[t].screen = "story"
  /\ handleStoryNext(t) \/ (BackOffered(t) /\ handleGoBack(t))

SingleChoiceScreen(t) == tab[t].screen = "single_choice" /\ handleSubmitAnswer(t)

DecisionScreen(t) ==
  /\ tab[t].screen = "decision"
  /\ handleDecision(t) \/ (BackOffered(t) /\ handleGoBack(t))

FreeTextScreen(t) == tab[t].screen = "free_text" /\ handleSubmitAnswer(t)

EndScreen(t) ==
  /\ tab[t].screen = "end"
  /\ handleEndComplete(t) \/ (BackOffered(t) /\ handleGoBack(t))

FeedbackScreen(t) == tab[t].screen = "feedback" /\ handleFeedbackNext(t)

CompleteScreen(t) == tab[t].screen = "complete" /\ handleRetry(t)

ErrorScreen(t) == tab[t].screen = "error" /\ InitSession(t, tab[t].lesson)

TopBar(t) ==
  /\ tab[t].screen \in StepScreens \cup {"loading", "feedback", "paywall", "complete", "error"}
  /\ handleClose(t)

-----------------------------------------------------------------------------
PlayerInit ==
  /\ Init
  /\ tab = [t \in Tabs |->
       [screen |-> "away", lesson |-> CHOOSE l \in Lessons : TRUE, step |-> NoStep,
        key |-> NoKey, result |-> NoResult, call |-> "none",
        access |-> NoAccess, exit |-> NoStep]]
  /\ opener = NoTab

Player(t) ==
  \/ StoryScreen(t) \/ SingleChoiceScreen(t) \/ DecisionScreen(t) \/ FreeTextScreen(t)
  \/ EndScreen(t) \/ FeedbackScreen(t) \/ CompleteScreen(t) \/ ErrorScreen(t)
  \/ TopBar(t)

(* A lesson is opened from the tree, or by its address.                    *)
PageStep(t) ==
  \/ CourseTree(t)
  \/ \E l \in Lessons : LessonNodeItem(t, l)
                          \/ (tab[t].screen = "away" /\ TabIsFree(t) /\ InitSession(t, l))
  \/ Player(t)
  \/ CloseTab(t)

CallStep(t) ==
  \/ SessionByCourseLesson(t) \/ SessionFails(t)
  \/ StartReturnsOpen(t) \/ StartChecks(t) \/ RetryChecks(t) \/ OpeningRefused(t)
  \/ Walked(t) \/ AnswerEvaluated(t) \/ WalkFails(t)
  \/ AbandonHandled(t) \/ ExitGoesAhead(t)

PlayerNext ==
  \/ \E t \in Tabs : PageStep(t) \/ CallStep(t)
  \/ \E s \in Sessions : SessionOpens(s)
  \/ OutsideStep /\ UNCHANGED <<tab, opener>>

PlayerSpec == PlayerInit /\ [][PlayerNext]_playerVars

-----------------------------------------------------------------------------
(* Properties.                                                             *)

(* A page may be behind the session it walks, when another tab has moved   *)
(* it, but never beside it: a page that is at the session's version shows  *)
(* the session's node, so that what is sent from it is about that node.  A *)
(* question on it can be answered with the key the page holds: none of the *)
(* answers of its session has used it up.                                  *)
PageTrailsSession ==
  /\ PlayerTypeOK
  /\ \A t \in Tabs : tab[t].step # NoStep =>
       LET at == tab[t].step
           row == session[at.session] IN
       /\ row.status # "absent"
       /\ at.version <= row.version
       /\ at.version = row.version /\ Running(at.session) => at.node = row.node
       /\ tab[t].screen \in Questions =>
            \A a \in attempts : a.session = at.session => a.key # tab[t].key

(* The verdict on a page is that of an answer the server has recorded      *)
(* under the page's key, and the page says that the lesson is done only    *)
(* after the server completed it, or on a step that is an end.             *)
FeedbackIsRecorded ==
  \A t \in Tabs :
    LET at == tab[t].step IN
    /\ tab[t].screen = "feedback" =>
         \E a \in attempts : /\ a.session = at.session /\ a.key = tab[t].key
                             /\ a.verdict = tab[t].result.verdict
    /\ tab[t].screen = "complete" =>
         at.kind = "end" \/ session[at.session].status = "completed"

(* Reloading, opening the lesson again and trying again after an error     *)
(* lead back to the session that is open, where it is (the D-1 invariant   *)
(* of e2e/tests/student/lesson-retry-abandon.spec.ts).                     *)
ReloadResumes ==
  [][\A t \in Tabs :
       LET opened == tab'[t].step IN
       tab[t].screen = "loading" /\ tab'[t].screen \in StepScreens
       => \A s \in OpenSessionOf(tab[t].lesson) :
            /\ opened.session = s /\ opened.node = session[s].node
            /\ opened.version = session[s].version]_playerVars
=============================================================================
