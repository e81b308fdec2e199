---------------------------- MODULE LessonRuntime ----------------------------
(***************************************************************************)
(* How a student takes the lessons of a course                             *)
(* (backend/internal/lessonruntime): course progress, lesson progress,     *)
(* lesson sessions, the path a session took and the answers it recorded.   *)
(*                                                                         *)
(* One student and one course: no handler touches two students, and two    *)
(* courses share only the game state.  A handler is one transaction that   *)
(* locks the session's row, so it is one action; the version and the node  *)
(* in a request are whatever a late, repeated or reordered request may     *)
(* carry.  StartLesson and Retry read before they hold the locks that      *)
(* would make the readings last, so they are several actions each.         *)
(***************************************************************************)
EXTENDS Integers, FiniteSets, Sequences

CONSTANTS
  Lessons,     \* lesson ids, over all the revisions
  Revisions,   \* revisions are numbered 1, 2, ... as they are published
  LessonsOf,   \* the lessons of a revision
  Before,      \* the lessons that precede a lesson in its module
  Nodes,       \* node ids, over all the graphs
  Graph,       \* the graph of a lesson of a revision
  Keys,        \* idempotency keys
  Sessions,    \* session ids
  MaxProgress, \* bound on course_progress rows
  MaxVersion,  \* bound on the state version of a session
  Starts       \* StartLesson requests that may be under way at once

Kinds == {"story", "single_choice", "free_text", "decision", "end"}
Questions == {"single_choice", "free_text"}
Verdicts == {"incorrect", "partial", "correct"}

Exits == [verdict : Verdicts \cup {"none"}, to : Nodes]

(* validateLessonGraph lets nothing else be published: targets exist, only *)
(* answers have verdicts, an end has no exits and a story at most one.     *)
ASSUME GraphAssumption ==
  /\ LessonsOf \in [Revisions -> SUBSET Lessons]
  /\ Before \in [Revisions -> [Lessons -> SUBSET Lessons]]
  /\ Graph \in [Revisions -> [Lessons ->
       [start : Nodes, kind : [Nodes -> Kinds], exits : [Nodes -> SUBSET Exits]]]]
  /\ \A r \in Revisions, l \in Lessons, n \in Nodes :
       LET g == Graph[r][l] IN
       /\ \A e \in g.exits[n] : e.verdict = "none" <=> g.kind[n] \notin Questions
       /\ g.kind[n] = "end" => g.exits[n] = {}
       /\ g.kind[n] = "story" => \A d, e \in g.exits[n] : d = e

ASSUME BoundAssumption ==
  /\ 1 \in Revisions /\ Revisions \subseteq Nat \ {0}
  /\ Nodes # {} /\ Lessons # {}
  /\ MaxProgress \in Nat /\ MaxVersion \in Nat \ {0}
  /\ IsFiniteSet(Lessons)

VARIABLES
  current,    \* the published revision
  open,       \* lessons the student has access to
  progress,   \* course_progress, in the order of started_at
  lp,         \* lesson_progress of a course_progress and a lesson
  session,    \* lesson_sessions
  path,       \* lesson_session_path_entries of a session
  attempts,   \* step_attempts, with the XP of their game events
  xp,         \* student_game_state.xp_total
  looking,    \* starts that saw no active course_progress, with their lesson
  opening     \* the session about to be inserted, its checks done

vars == <<current, open, progress, lp, session, path, attempts, xp,
          looking, opening>>

NoSession == [status |-> "absent", prog |-> 0, lesson |-> CHOOSE l \in Lessons : TRUE,
              rev |-> 1, replay |-> FALSE, node |-> CHOOSE n \in Nodes : TRUE,
              version |-> 0]

(* Nothing is about to be inserted.                                        *)
Idle == [lesson |-> CHOOSE l \in Lessons : TRUE, rev |-> 0, replay |-> FALSE,
         fresh |-> FALSE]

LessonTypeOK ==
  /\ current \in Revisions
  /\ open \subseteq Lessons
  /\ progress \in Seq([status : {"in_progress", "completed"}, rev : Revisions])
  /\ Len(progress) <= MaxProgress
  /\ lp \in [1..MaxProgress -> [Lessons ->
       [status : {"absent", "not_started", "in_progress", "completed"},
        best : Verdicts \cup {"none"}]]]
  /\ session \in [Sessions ->
       [status : {"absent", "in_progress", "completed", "terminated"},
        prog : 0..MaxProgress, lesson : Lessons, rev : Revisions,
        replay : BOOLEAN, node : Nodes, version : 0..MaxVersion]]
  /\ path \in [Sessions -> Seq([node : Nodes, active : BOOLEAN])]
  /\ attempts \subseteq [session : Sessions, no : Nat, key : Keys, version : Nat,
                         verdict : Verdicts, xp : Nat]
  /\ xp \in Nat
  /\ looking \subseteq Starts \X Lessons
  /\ opening \in [lesson : Lessons, rev : Revisions \cup {0}, replay : BOOLEAN,
                  fresh : BOOLEAN]

Init ==
  /\ current = 1
  /\ open = Lessons
  /\ progress = <<>>
  /\ lp = [p \in 1..MaxProgress |-> [l \in Lessons |->
             [status |-> "absent", best |-> "none"]]]
  /\ session = [s \in Sessions |-> NoSession]
  /\ path = [s \in Sessions |-> <<>>]
  /\ attempts = {}
  /\ xp = 0
  /\ looking = {}
  /\ opening = Idle

-----------------------------------------------------------------------------
(* Reading the tables.                                                     *)

Running(s) == session[s].status = "in_progress"

ActiveProgress == {p \in DOMAIN progress : progress[p].status = "in_progress"}

(* The row ORDER BY active first, then started_at DESC picks.              *)
Preferred(P) ==
  CHOOSE p \in P : \A q \in P :
    \/ p \in ActiveProgress
    \/ q \notin ActiveProgress /\ q <= p

OfSession(s) == Graph[session[s].rev][session[s].lesson]

Worth(verdict) == CASE verdict = "correct" -> 10
                    [] verdict = "partial" -> 5
                    [] OTHER -> 0

Rank(verdict) == CASE verdict = "correct" -> 3
                   [] verdict = "partial" -> 2
                   [] verdict = "incorrect" -> 1
                   [] OTHER -> 0

Better(a, b) == IF Rank(b) > Rank(a) THEN b ELSE a

(* Mutant: the lessons before are not looked at.                           *)
StartAllowedAnyOrder(r, l) == l \in LessonsOf[r]

(* ensureLessonStartAllowedTx                                              *)
StartAllowed(r, l) ==
  LET rows == {p \in DOMAIN progress : progress[p].rev = r} IN
  /\ l \in LessonsOf[r]
  /\ Before[r][l] # {} =>
       /\ rows # {}
       /\ \A k \in Before[r][l] : lp[Preferred(rows)][k].status = "completed"

Active(s) == {i \in DOMAIN path[s] : path[s][i].active}

Latest(I) == CHOOSE i \in I : \A j \in I : j <= i

(* appendPathEntryTx                                                       *)
Appended(s, n) == [path EXCEPT ![s] = Append(@, [node |-> n, active |-> TRUE])]

-----------------------------------------------------------------------------
(* Opening a session.                                                      *)

(* The game state row is locked by every handler of the student, and by    *)
(* StartLesson and Retry from their checks to their commit.                *)
GameStateFree == opening = Idle

(* resolveRevisionTx: without an active course_progress the request goes   *)
(* on to read the published revision, in another statement.                *)
LookForProgress(q, l) ==
  /\ ActiveProgress = {}
  /\ l \in open
  /\ \A k \in Lessons : <<q, k>> \notin looking
  /\ looking' = looking \cup {<<q, l>>}
  /\ UNCHANGED <<current, open, progress, lp, session, path, attempts, xp,
                 opening>>

(* The revision StartLesson works with, and renders an open session from.  *)
Resolved ==
  IF ActiveProgress = {} THEN current
  ELSE progress[CHOOSE p \in ActiveProgress : TRUE].rev

OpenSessionOf(l) == {s \in Sessions : Running(s) /\ session[s].lesson = l}

(* Mutant: an open session of the lesson does not count.                   *)
CheckStartAgain(l, r, fresh) ==
  /\ GameStateFree
  /\ StartAllowed(r, l)
  /\ l \in open
  /\ opening' = [lesson |-> l, rev |-> r, replay |-> FALSE, fresh |-> fresh]
  /\ UNCHANGED <<current, open, progress, lp, session, path, attempts, xp>>

CheckStart(l, r, fresh) ==
  /\ GameStateFree
  /\ OpenSessionOf(l) = {}
  /\ StartAllowed(r, l)
  /\ l \in open
  /\ opening' = [lesson |-> l, rev |-> r, replay |-> FALSE, fresh |-> fresh]
  /\ UNCHANGED <<current, open, progress, lp, session, path, attempts, xp>>

StartInProgress(l) ==
  /\ ActiveProgress # {}
  /\ CheckStart(l, Resolved, FALSE)
  /\ UNCHANGED looking

StartPublished(q, l) ==
  /\ <<q, l>> \in looking
  /\ CheckStart(l, current, TRUE)
  /\ looking' = looking \ {<<q, l>>}

(* It is refused, it fails, or the lesson has an open session, which is    *)
(* returned as it is.                                                      *)
StopLooking(q, l) ==
  /\ <<q, l>> \in looking
  /\ looking' = looking \ {<<q, l>>}
  /\ UNCHANGED <<current, open, progress, lp, session, path, attempts, xp,
                 opening>>

(* ensureLessonRetryAllowedTx                                              *)
CheckRetry(l) ==
  LET p == Preferred(DOMAIN progress) IN
  /\ GameStateFree
  /\ progress # <<>>
  /\ l \in open
  /\ StartAllowed(progress[p].rev, l)
  /\ lp[p][l].status = "completed"
  /\ opening' = [lesson |-> l, rev |-> progress[p].rev, replay |-> TRUE, fresh |-> FALSE]
  /\ UNCHANGED <<current, open, progress, lp, session, path, attempts, xp,
                 looking>>

OpeningFails ==
  /\ ~GameStateFree
  /\ opening' = Idle
  /\ UNCHANGED <<current, open, progress, lp, session, path, attempts, xp,
                 looking>>

InsertSession(s, p) ==
  LET l == opening.lesson
      start == Graph[opening.rev][l].start IN
  /\ session[s].status = "absent"
  /\ \A t \in OpenSessionOf(l) : session[t].prog # p
  /\ session' = [session EXCEPT ![s] =
       [status |-> "in_progress", prog |-> p, lesson |-> l, rev |-> opening.rev,
        replay |-> opening.replay, node |-> start, version |-> 1]]
  /\ path' = Appended(s, start)
  /\ opening' = Idle

(* ensureCourseProgressTx: the active course_progress, whatever its        *)
(* revision, or else a new one.                                            *)
CommitStart(s) ==
  /\ ~GameStateFree /\ ~opening.replay
  /\ \/ progress' = progress
     \/ /\ ActiveProgress = {}
        /\ Len(progress) < MaxProgress
        /\ progress' = Append(progress, [status |-> "in_progress", rev |-> opening.rev])
  /\ \E p \in DOMAIN progress' :
       /\ progress'[p].status = "in_progress"
       /\ lp' = IF lp[p][opening.lesson].status = "absent"
                THEN [lp EXCEPT ![p][opening.lesson].status = "not_started"] ELSE lp
       /\ InsertSession(s, p)
  /\ UNCHANGED <<current, open, attempts, xp, looking>>

CommitRetry(s) ==
  LET p == Preferred(DOMAIN progress) IN
  /\ ~GameStateFree /\ opening.replay
  /\ lp' = [lp EXCEPT ![p][opening.lesson].status = "in_progress"]
  /\ InsertSession(s, p)
  /\ UNCHANGED <<current, open, progress, attempts, xp, looking>>

-----------------------------------------------------------------------------
(* Moving through the graph.                                               *)

(* Mutant: a completed session may still be answered.                      *)
MayMoveOnceOpened(s) ==
  /\ GameStateFree
  /\ session[s].status # "absent"
  /\ session[s].lesson \in open

(* What Next, Answer, Decision and Back check first.                       *)
MayMove(s) ==
  /\ GameStateFree
  /\ Running(s)
  /\ session[s].lesson \in open

MatchesState(s, v, n) == v = session[s].version /\ n = session[s].node

MoveTo(s, n) ==
  /\ session[s].version < MaxVersion
  /\ session' = [session EXCEPT ![s].node = n, ![s].version = @ + 1]

(* Mutant: the lessons started are counted, not the lessons there are.     *)
LessonDoneOfStarted(s, rows) ==
  LET p == session[s].prog
      done == [rows EXCEPT ![p][session[s].lesson].status = "completed"]
  IN
  /\ lp' = done
  /\ progress' = IF \A l \in Lessons : done[p][l].status \in {"absent", "completed"}
                 THEN [progress EXCEPT ![p].status = "completed"] ELSE progress

(* completeLessonTx, but for the update of the session: the lesson is      *)
(* done, and with it the course when no lesson of its revision is left.    *)
LessonDone(s, rows) ==
  LET p == session[s].prog
      done == [rows EXCEPT ![p][session[s].lesson].status = "completed"]
  IN
  /\ lp' = done
  /\ progress' =
       IF Cardinality({l \in Lessons : done[p][l].status = "completed"})
            = Cardinality(LessonsOf[progress[p].rev])
       THEN [progress EXCEPT ![p].status = "completed"] ELSE progress

StoryNext(s, v, n) ==
  /\ MayMove(s)
  /\ MatchesState(s, v, n)
  /\ OfSession(s).kind[n] = "story"
  /\ \E e \in OfSession(s).exits[n] :
       IF OfSession(s).kind[e.to] = "end"
       THEN /\ session' = [session EXCEPT ![s].node = e.to, ![s].version = @ + 1,
                                          ![s].status = "completed"]
            /\ session[s].version < MaxVersion
            /\ LessonDone(s, lp)
            /\ UNCHANGED path
       ELSE /\ MoveTo(s, e.to)
            /\ path' = Appended(s, e.to)
            /\ UNCHANGED <<progress, lp>>
  /\ UNCHANGED <<current, open, attempts, xp, looking, opening>>

(* A repeated request: the session is already where it asks to go.         *)
RepeatedNext(s, v, n) ==
  /\ MayMove(s)
  /\ ~MatchesState(s, v, n)
  /\ session[s].version = v + 1
  /\ OfSession(s).kind[n] = "story"
  /\ \E e \in OfSession(s).exits[n] : e.to = session[s].node
  /\ OfSession(s).kind[session[s].node] = "end"
  /\ session' = [session EXCEPT ![s].status = "completed"]
  /\ LessonDone(s, lp)
  /\ UNCHANGED <<current, open, path, attempts, xp, looking, opening>>

(* The exit is the option chosen, or the outcome the evaluation of a free  *)
(* text came to; an evaluation that fails changes nothing.                 *)
Answer(s, v, n, key) ==
  /\ MayMove(s)
  /\ MatchesState(s, v, n)
  /\ \A a \in attempts : a.session = s => a.key # key
  /\ OfSession(s).kind[n] \in Questions
  /\ \E e \in OfSession(s).exits[n] :
       LET p == session[s].prog
           l == session[s].lesson
           rows == [lp EXCEPT ![p][l] = [status |-> "in_progress",
                                         best |-> Better(@.best, e.verdict)]]
       IN
       /\ attempts' = attempts \cup
            {[session |-> s, no |-> Cardinality({a \in attempts : a.session = s}) + 1,
              key |-> key, version |-> v, verdict |-> e.verdict,
              xp |-> Worth(e.verdict)]}
       /\ xp' = xp + Worth(e.verdict)
       /\ IF OfSession(s).kind[e.to] = "end"
          THEN /\ session' = [session EXCEPT ![s].status = "completed"]
               /\ LessonDone(s, rows)
               /\ UNCHANGED path
          ELSE /\ MoveTo(s, e.to)
               /\ path' = Appended(s, e.to)
               /\ lp' = rows
               /\ UNCHANGED progress
  /\ UNCHANGED <<current, open, looking, opening>>

(* Wherever the option leads, the session goes on.                         *)
Decision(s, v, n) ==
  /\ MayMove(s)
  /\ MatchesState(s, v, n)
  /\ OfSession(s).kind[n] = "decision"
  /\ \E e \in OfSession(s).exits[n] :
       /\ MoveTo(s, e.to)
       /\ path' = Appended(s, e.to)
  /\ UNCHANGED <<current, open, progress, lp, attempts, xp, looking, opening>>

(* Decisions before the latest entry of the path.                          *)
PriorDecisions(s) ==
  {i \in Active(s) \ {Latest(Active(s))} : OfSession(s).kind[path[s][i].node] = "decision"}

(* Mutant: what was undone stays on the path.                              *)
BackKeepsPath(s, v) ==
  /\ MayMove(s)
  /\ v = session[s].version
  /\ Active(s) # {} /\ PriorDecisions(s) # {}
  /\ MoveTo(s, path[s][Latest(PriorDecisions(s))].node)
  /\ UNCHANGED <<current, open, progress, lp, path, attempts, xp, looking,
                 opening>>

Back(s, v) ==
  /\ MayMove(s)
  /\ v = session[s].version
  /\ Active(s) # {}
  /\ path[s][Latest(Active(s))].node = session[s].node
  /\ PriorDecisions(s) # {}
  /\ LET d == Latest(PriorDecisions(s)) IN
     /\ MoveTo(s, path[s][d].node)
     /\ path' = [path EXCEPT ![s] = [i \in DOMAIN @ |->
                   IF i > d THEN [@[i] EXCEPT !.active = FALSE] ELSE @[i]]]
  /\ UNCHANGED <<current, open, progress, lp, attempts, xp, looking, opening>>

AbandonSession(s) ==
  /\ Running(s)
  /\ session' = [session EXCEPT ![s].status = "terminated"]
  /\ UNCHANGED <<current, open, progress, lp, path, attempts, xp, looking,
                 opening>>

-----------------------------------------------------------------------------
(* What the other components do to this one.                               *)

(* commerce.RevokeEntitlement of what covers the lessons T: of them, those *)
(* that nothing else opens are lost; their open sessions are terminated.   *)
RevokeEntitlement(T, lost) ==
  /\ lost \subseteq T \cap open
  /\ open' = open \ lost
  /\ session' = [s \in Sessions |->
       IF Running(s) /\ session[s].lesson \in T
       THEN [session[s] EXCEPT !.status = "terminated"] ELSE session[s]]
  /\ UNCHANGED <<current, progress, lp, path, attempts, xp, looking, opening>>

(* An entitlement, an offer, an order or a teacher's grant that opens or   *)
(* closes a lesson.                                                        *)
AccessChanges(l) ==
  /\ open' = IF l \in open THEN open \ {l} ELSE open \cup {l}
  /\ UNCHANGED <<current, progress, lp, session, path, attempts, xp, looking, opening>>

(* courses.publishCourseTx: waits for a StartLesson that has locked the    *)
(* published revision.                                                     *)
PublishRevision ==
  /\ current + 1 \in Revisions
  /\ ~opening.fresh
  /\ current' = current + 1
  /\ UNCHANGED <<open, progress, lp, session, path, attempts, xp, looking,
                 opening>>

-----------------------------------------------------------------------------
Versions == 1..MaxVersion

OpeningStep ==
  \/ \E q \in Starts, l \in Lessons :
       LookForProgress(q, l) \/ StartPublished(q, l) \/ StopLooking(q, l)
  \/ \E l \in Lessons : StartInProgress(l) \/ CheckRetry(l)
  \/ OpeningFails
  \/ \E s \in Sessions : CommitStart(s) \/ CommitRetry(s)

MovingStep ==
  \E s \in Sessions, v \in Versions :
    \/ \E n \in Nodes : StoryNext(s, v, n) \/ RepeatedNext(s, v, n) \/ Decision(s, v, n)
    \/ \E n \in Nodes, key \in Keys : Answer(s, v, n, key)
    \/ Back(s, v)

OutsideStep ==
  \/ \E T \in {{l} : l \in Lessons} \cup {Lessons} :
       \E lost \in SUBSET T : RevokeEntitlement(T, lost)
  \/ \E l \in Lessons : AccessChanges(l)
  \/ PublishRevision

Next ==
  \/ OpeningStep
  \/ MovingStep
  \/ \E s \in Sessions : AbandonSession(s)
  \/ OutsideStep

Spec == Init /\ [][Next]_vars

-----------------------------------------------------------------------------
(* Properties.                                                             *)

(* A student never has two open sessions of one lesson, over all the       *)
(* course_progress rows, although the index speaks of one of them only.    *)
OneOpenSession ==
  \A s, t \in Sessions :
    Running(s) /\ Running(t) /\ session[s].lesson = session[t].lesson => s = t

(* Repeated, late and reordered answers are paid for once: no two attempts *)
(* of a session share the idempotency key or the state version answered,   *)
(* and the student's XP is the XP of the attempts.                         *)
OneAwardPerVisit ==
  /\ \A a, b \in attempts :
       a.session = b.session /\ (a.key = b.key \/ a.version = b.version) => a = b
  /\ LET given(v) == Cardinality({a \in attempts : a.verdict = v}) IN
     xp = 10 * given("correct") + 5 * given("partial")

(* The active entries of an open session's path are a walk in the graph    *)
(* from its start to the current node, whatever was undone by Back.        *)
PathIsWalk ==
  \A s \in Sessions : Running(s) =>
    LET A == Active(s) IN
    /\ 1 \in A
    /\ path[s][1].node = OfSession(s).start
    /\ path[s][Latest(A)].node = session[s].node
    /\ \A i, j \in A :
         i < j /\ (\A k \in A : k <= i \/ j <= k) =>
           \E e \in OfSession(s).exits[path[s][i].node] : e.to = path[s][j].node

(* Whoever opened a lesson had completed those before it in its module.    *)
PrerequisitesEarned ==
  \A s \in Sessions : session[s].status # "absent" =>
    \A k \in Before[session[s].rev][session[s].lesson] :
      \E t \in Sessions : session[t].lesson = k /\ session[t].status = "completed"

(* A course is finished only by finishing every lesson of the revision it  *)
(* was begun with, unless a lesson of another revision strayed into it     *)
(* (PinnedRevision).                                                       *)
CompletionEarned ==
  [][\A p \in DOMAIN progress :
       /\ progress[p].status = "in_progress"
       /\ progress'[p].status = "completed"
       /\ \A s \in Sessions : session[s].prog = p => session[s].rev = progress[p].rev
       => \A l \in LessonsOf[progress[p].rev] : lp'[p][l].status = "completed"]_vars

(* "If there is an active course_progress, a lesson is always opened       *)
(* within its course_revision_id" (ARCHITECTURE.md:1250).                  *)
PinnedRevision ==
  \A s \in Sessions : Running(s) => session[s].rev = progress[session[s].prog].rev

(* "If a new revision is published after this, the student continues the   *)
(* unfinished passage on the revision it was begun on"                     *)
(* (ARCHITECTURE.md:155): what StartLesson shows of an open session comes  *)
(* from the graph the session walks, if it was opened on the revision of   *)
(* its course_progress.                                                    *)
ResumedInItsRevision ==
  \A s \in Sessions :
    Running(s) /\ session[s].rev = progress[session[s].prog].rev =>
      Resolved = session[s].rev
=============================================================================
