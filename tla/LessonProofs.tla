---------------------------- MODULE LessonProofs ----------------------------
(***************************************************************************)
(* Proofs about the lesson runtime, for any graphs, revisions and number   *)
(* of sessions, requests and answers.                                      *)
(*                                                                         *)
(* Every step is one of four kinds: it opens nothing and walks nothing     *)
(* (Quiet), it lets a session be opened (Checked), it inserts one          *)
(* (Inserted), or it moves one (Walk).  The invariants are preserved by    *)
(* the kinds; each action is shown to be of its kind.                      *)
(***************************************************************************)
EXTENDS LessonPlayer, FiniteSetTheorems, SequenceTheorems, WellFoundedInduction, TLAPS

ProgressRows == [status : {"in_progress", "completed"}, rev : Revisions]
LessonRows == [status : {"absent", "not_started", "in_progress", "completed"},
               best : Verdicts \cup {"none"}]
LessonTable == [1..MaxProgress -> [Lessons -> LessonRows]]
SessionRows ==
  [status : {"absent", "in_progress", "completed", "terminated"},
   prog : 0..MaxProgress, lesson : Lessons, rev : Revisions,
   replay : BOOLEAN, node : Nodes, version : 0..MaxVersion]
Entries == [node : Nodes, active : BOOLEAN]
AttemptRows == [session : Sessions, no : Nat, key : Keys, version : Nat,
                verdict : Verdicts, xp : Nat]

-----------------------------------------------------------------------------
(* The latest of some positions.                                           *)

Smaller == {pair \in Nat \X Nat : pair[1] < pair[2]}

LEMMA SmallerIsWellFounded == IsWellFoundedOn(Smaller, Nat)
  <1>1. OpToRel(<, Nat) = Smaller
    BY DEF OpToRel, Smaller
  <1> QED
    BY <1>1, NatLessThanWellFounded

LEMMA LatestExists ==
  ASSUME NEW n \in Nat, NEW I \in SUBSET (1..n), I # {}
  PROVE  \E i \in I : \A j \in I : j <= i
  <1> DEFINE T == {n - i : i \in I}
  <1>1. T \subseteq Nat /\ T # {}
    <2>1. \A i \in I : n - i \in Nat
      OBVIOUS
    <2> QED
      BY <2>1
  <1> HIDE DEF T
  <1>2. PICK t \in T : \A u \in T : <<u, t>> \notin Smaller
    BY <1>1, SmallerIsWellFounded, WFMin
  <1>3. PICK i \in I : t = n - i
    BY DEF T
  <1>4. ASSUME NEW j \in I
        PROVE  j <= i
    <2>1. n - j \in T /\ n - j \in Nat /\ n - i \in Nat
      BY DEF T
    <2>2. ~(n - j < n - i)
      BY <2>1, <1>2, <1>3 DEF Smaller
    <2> QED
      BY <2>1, <2>2
  <1> QED
    BY <1>4

LEMMA LatestIsLatest ==
  ASSUME NEW n \in Nat, NEW I \in SUBSET (1..n), I # {}
  PROVE  Latest(I) \in I /\ \A j \in I : j <= Latest(I)
  BY LatestExists DEF Latest

LEMMA LatestIs ==
  ASSUME NEW n \in Nat, NEW I \in SUBSET (1..n), NEW i \in I, \A j \in I : j <= i
  PROVE  Latest(I) = i
  <1>1. Latest(I) \in I /\ \A j \in I : j <= Latest(I)
    BY LatestIsLatest
  <1>2. PICK j \in I : j = Latest(I)
    BY <1>1
  <1>3. j <= i /\ i <= j /\ i \in Nat /\ j \in Nat
    BY <1>1, <1>2
  <1> QED
    BY <1>2, <1>3

-----------------------------------------------------------------------------
(* The invariant.                                                          *)

(* A course_progress that is under way is the last one, and what is not    *)
(* there yet has no lessons.                                               *)
RowsInOrder ==
  /\ \A p \in 1..Len(progress) : progress[p].status = "in_progress" => p = Len(progress)
  /\ \A p \in 1..MaxProgress : p > Len(progress) =>
       \A l \in Lessons : lp[p][l].status = "absent"

SessionsPlaced ==
  \A s \in Sessions :
    IF session[s].status = "absent" THEN session[s].prog = 0 /\ path[s] = <<>>
    ELSE /\ session[s].prog \in 1..Len(progress)
         /\ session[s].lesson \in LessonsOf[session[s].rev]

(* Nothing was done about a lesson, in a later course_progress, while one  *)
(* of its sessions is open: it would have had to be started there.         *)
LaterUntouched ==
  \A s \in Sessions : Running(s) =>
    \A p \in 1..MaxProgress : p > session[s].prog =>
      lp[p][session[s].lesson].status = "absent"

(* A lesson is completed by a session of it.                               *)
DoneBySession ==
  \A p \in 1..MaxProgress, l \in Lessons : lp[p][l].status = "completed" =>
    \E t \in Sessions : /\ session[t].status = "completed"
                        /\ session[t].prog = p /\ session[t].lesson = l

WasCompleted(l) == \E t \in Sessions : session[t].lesson = l /\ session[t].status = "completed"

(* What was checked of the session about to be inserted still holds.       *)
StillChecked(o) ==
  /\ o.rev \in Revisions /\ o.lesson \in LessonsOf[o.rev]
  /\ \A k \in Before[o.rev][o.lesson] : WasCompleted(k)
  /\ o.replay => progress # <<>> /\ lp[Len(progress)][o.lesson].status = "completed"
  /\ ~o.replay => OpenSessionOf(o.lesson) = {}

OpeningChecked == ~GameStateFree => StillChecked(opening)

OpenInv ==
  /\ LessonTypeOK
  /\ RowsInOrder /\ SessionsPlaced /\ LaterUntouched
  /\ OneOpenSession /\ DoneBySession /\ PrerequisitesEarned /\ OpeningChecked

(* An attempt is of a version the session has left behind, unless it ended *)
(* there.                                                                  *)
AttemptsBehind ==
  /\ IsFiniteSet(attempts)
  /\ \A a \in attempts :
       /\ session[a.session].status # "absent"
       /\ a.version <= session[a.session].version
       /\ Running(a.session) => a.version < session[a.session].version

WalkInv == AttemptsBehind /\ OneAwardPerVisit /\ PathIsWalk

LessonInv == OpenInv /\ WalkInv

-----------------------------------------------------------------------------
(* The kinds of steps.                                                     *)

Records == <<progress, lp, path, attempts, xp>>

(* Sessions are terminated, and an opening is given up.                    *)
Quiet ==
  /\ \A s \in Sessions :
       \/ session'[s] = session[s]
       \/ Running(s) /\ session'[s] = [session[s] EXCEPT !.status = "terminated"]
  /\ session' = [s \in Sessions |-> session'[s]]
  /\ opening' \in {opening, Idle}
  /\ UNCHANGED Records

Checked ==
  /\ StillChecked(opening')
  /\ UNCHANGED <<Records, session>>

(* Its lesson is entered in the last course_progress.                      *)
InsertedRows ==
  LET l == opening.lesson
      p == Len(progress') IN
  /\ p \in 1..MaxProgress
  /\ lp' \in LessonTable
  /\ \A q \in 1..MaxProgress, k \in Lessons : (q = p /\ k = l) \/ lp'[q][k] = lp[q][k]
  /\ lp'[p][l].status = "completed" => lp[p][l].status = "completed"

InsertedSession(s) ==
  LET l == opening.lesson
      start == Graph[opening.rev][l].start
      p == Len(progress') IN
  /\ session[s].status = "absent"
  /\ \A t \in OpenSessionOf(l) : session[t].prog # p
  /\ session' = [session EXCEPT ![s] =
       [status |-> "in_progress", prog |-> p, lesson |-> l, rev |-> opening.rev,
        replay |-> opening.replay, node |-> start, version |-> 1]]
  /\ path' = Appended(s, start)

Inserted(s) ==
  /\ ~GameStateFree /\ opening' = Idle
  /\ \/ progress' = progress
     \/ /\ ~opening.replay /\ ActiveProgress = {} /\ Len(progress) < MaxProgress
        /\ progress' = Append(progress, [status |-> "in_progress", rev |-> opening.rev])
  /\ InsertedSession(s)
  /\ InsertedRows
  /\ UNCHANGED <<attempts, xp>>

WalkSession(s) ==
  /\ Running(s)
  /\ session' \in [Sessions -> SessionRows]
  /\ \A t \in Sessions \ {s} : session'[t] = session[t]
  /\ session'[s].lesson = session[s].lesson /\ session'[s].rev = session[s].rev
  /\ session'[s].prog = session[s].prog
  /\ session'[s].status \in {"in_progress", "completed"}
  /\ session'[s].version >= session[s].version
  /\ session'[s].status = "completed" \/ session'[s].version > session[s].version

WalkRows(s) ==
  LET p == session[s].prog
      l == session[s].lesson IN
  /\ lp' \in LessonTable
  /\ \A q \in 1..MaxProgress, k \in Lessons : (q = p /\ k = l) \/ lp'[q][k] = lp[q][k]
  /\ lp'[p][l].status = "completed" =>
       lp[p][l].status = "completed" \/ session'[s].status = "completed"
  /\ progress' \in Seq(ProgressRows) /\ Len(progress') = Len(progress)
  /\ \A q \in 1..Len(progress) :
       /\ progress'[q].rev = progress[q].rev
       /\ progress'[q] = progress[q] \/ progress'[q].status = "completed"

WalkPath(s) ==
  /\ path' \in [Sessions -> Seq(Entries)]
  /\ \A t \in Sessions \ {s} : path'[t] = path[t]
  /\ \/ session'[s].status = "completed"
     \/ /\ path'[s] = Append(path[s], [node |-> session'[s].node, active |-> TRUE])
        /\ \E e \in OfSession(s).exits[session[s].node] : e.to = session'[s].node
     \/ \E d \in Active(s) :
          /\ session'[s].node = path[s][d].node
          /\ path'[s] = [i \in DOMAIN path[s] |->
                           IF i > d THEN [path[s][i] EXCEPT !.active = FALSE] ELSE path[s][i]]

WalkAwards(s) ==
  \/ UNCHANGED <<attempts, xp>>
  \/ \E a \in AttemptRows :
       /\ a.session = s /\ a.version = session[s].version
       /\ \A b \in attempts : b.session = s => b.key # a.key
       /\ attempts' = attempts \cup {a} /\ xp' = xp + Worth(a.verdict)

Walk(s) ==
  /\ GameStateFree /\ opening' = opening
  /\ WalkSession(s) /\ WalkRows(s) /\ WalkPath(s) /\ WalkAwards(s)

-----------------------------------------------------------------------------
(* Types.                                                                  *)

LEMMA Tables ==
  ASSUME LessonTypeOK
  PROVE  /\ progress \in Seq(ProgressRows) /\ Len(progress) \in 0..MaxProgress
         /\ DOMAIN progress = 1..Len(progress)
         /\ \A p \in 1..Len(progress) : progress[p] \in ProgressRows
         /\ lp \in LessonTable
         /\ session \in [Sessions -> SessionRows]
         /\ path \in [Sessions -> Seq(Entries)]
         /\ attempts \subseteq AttemptRows /\ xp \in Nat
  <1>1. /\ progress \in Seq(ProgressRows) /\ Len(progress) <= MaxProgress
        /\ lp \in LessonTable /\ session \in [Sessions -> SessionRows]
        /\ path \in [Sessions -> Seq(Entries)]
        /\ attempts \subseteq AttemptRows /\ xp \in Nat
    BY DEF LessonTypeOK, ProgressRows, LessonTable, LessonRows, SessionRows, Entries,
           AttemptRows
  <1> QED
    BY <1>1, LenProperties, BoundAssumption

AroundOK ==
  /\ current \in Revisions /\ open \subseteq Lessons /\ looking \subseteq Starts \X Lessons
  /\ opening \in [lesson : Lessons, rev : Revisions \cup {0}, replay : BOOLEAN,
                  fresh : BOOLEAN]

LEMMA WorthIsNat == \A verdict : Worth(verdict) \in Nat
  BY DEF Worth

-----------------------------------------------------------------------------
(* What a walk keeps.                                                      *)

LEMMA WalkKeepsOpen ==
  ASSUME OpenInv, NEW s \in Sessions, Walk(s), AroundOK'
  PROVE  OpenInv'
  <1> DEFINE p == session[s].prog
             l == session[s].lesson
  <1>0. /\ session[s] \in SessionRows /\ p \in 1..Len(progress) /\ p \in 1..MaxProgress
        /\ l \in Lessons /\ l \in LessonsOf[session[s].rev]
        /\ Len(progress) \in 0..MaxProgress
    <2>1. session[s].status # "absent"
      BY DEF Walk, WalkSession, Running
    <2> QED
      BY <2>1, Tables DEF OpenInv, SessionsPlaced, SessionRows
  <1>1. /\ \A t \in Sessions \ {s} : session'[t] = session[t]
        /\ session'[s].lesson = l /\ session'[s].rev = session[s].rev
        /\ session'[s].prog = p
        /\ session'[s].status \in {"in_progress", "completed"}
        /\ session[s].status = "in_progress"
    BY DEF Walk, WalkSession, Running
  <1>2. /\ \A q \in 1..MaxProgress, k \in Lessons :
             (q = p /\ k = l) \/ lp'[q][k] = lp[q][k]
        /\ lp'[p][l].status = "completed" =>
             lp[p][l].status = "completed" \/ session'[s].status = "completed"
        /\ Len(progress') = Len(progress)
        /\ \A q \in 1..Len(progress) :
             progress'[q] = progress[q] \/ progress'[q].status = "completed"
    BY DEF Walk, WalkRows
  <1>3. LessonTypeOK'
    <2>1. /\ progress' \in Seq(ProgressRows) /\ Len(progress') <= MaxProgress
          /\ lp' \in LessonTable /\ session' \in [Sessions -> SessionRows]
          /\ path' \in [Sessions -> Seq(Entries)]
      BY <1>0, Tables DEF OpenInv, Walk, WalkSession, WalkRows, WalkPath
    <2>2. attempts' \subseteq AttemptRows /\ xp' \in Nat
      BY Tables, WorthIsNat DEF OpenInv, Walk, WalkAwards
    <2> QED
      BY <2>1, <2>2
      DEF AroundOK, LessonTypeOK, ProgressRows, LessonTable, LessonRows, SessionRows,
          Entries, AttemptRows
  <1>4. RowsInOrder'
    BY <1>0, <1>1, <1>2 DEF OpenInv, RowsInOrder
  <1>5. SessionsPlaced'
    BY <1>0, <1>1, <1>2 DEF OpenInv, SessionsPlaced, Walk, WalkPath
  <1>6. OneOpenSession'
    BY <1>1 DEF OpenInv, OneOpenSession, Running
  <1>7. LaterUntouched'
    <2>1. ASSUME NEW t \in Sessions, Running(t)', NEW q \in 1..MaxProgress,
                 q > session'[t].prog
          PROVE  lp'[q][session'[t].lesson].status = "absent"
      <3>1. /\ Running(t) /\ session'[t].prog = session[t].prog
            /\ session'[t].lesson = session[t].lesson
            /\ session[t].lesson \in Lessons /\ session[t].prog \in Nat
        <4>1. session[t] \in SessionRows
          BY Tables DEF OpenInv
        <4> QED
          BY <1>1, <2>1, <4>1 DEF Running, SessionRows
      <3>2. lp[q][session[t].lesson].status = "absent"
        BY <2>1, <3>1 DEF OpenInv, LaterUntouched
      <3>3. ~(q = p /\ session[t].lesson = l)
        <4>1. CASE t = s
          BY <1>1, <2>1, <4>1, <1>0
        <4>2. CASE t # s
          BY <1>1, <3>1, <4>2 DEF OpenInv, OneOpenSession, Running
        <4> QED
          BY <4>1, <4>2
      <3> QED
        BY <1>2, <3>1, <3>2, <3>3
    <2> QED
      BY <2>1 DEF LaterUntouched
  <1>8. DoneBySession'
    <2>1. ASSUME NEW q \in 1..MaxProgress, NEW k \in Lessons,
                 lp'[q][k].status = "completed"
          PROVE  \E t \in Sessions : /\ session'[t].status = "completed"
                                     /\ session'[t].prog = q /\ session'[t].lesson = k
      <3>1. CASE lp[q][k].status = "completed"
        BY <1>1, <3>1 DEF OpenInv, DoneBySession
      <3>2. CASE lp[q][k].status # "completed"
        BY <1>1, <1>2, <2>1, <3>2
      <3> QED
        BY <3>1, <3>2
    <2> QED
      BY <2>1 DEF DoneBySession
  <1>9. PrerequisitesEarned'
    <2>1. ASSUME NEW t \in Sessions, session[t].status = "completed"
          PROVE  session'[t] = session[t]
      BY <1>1, <2>1
    <2>2. \A t \in Sessions : /\ session'[t].lesson = session[t].lesson
                              /\ session'[t].rev = session[t].rev
                              /\ session'[t].status # "absent" =>
                                   session[t].status # "absent"
      BY <1>1
    <2> QED
      BY <2>1, <2>2 DEF OpenInv, PrerequisitesEarned
  <1>10. OpeningChecked'
    BY DEF Walk, OpeningChecked, GameStateFree, Idle
  <1> QED
    BY <1>3, <1>4, <1>5, <1>6, <1>7, <1>8, <1>9, <1>10 DEF OpenInv

LEMMA WalkKeepsAwards ==
  ASSUME OpenInv, AttemptsBehind, OneAwardPerVisit, NEW s \in Sessions, Walk(s)
  PROVE  AttemptsBehind' /\ OneAwardPerVisit'
  <1>0. session \in [Sessions -> SessionRows] /\ session' \in [Sessions -> SessionRows]
        /\ attempts \subseteq AttemptRows /\ xp \in Nat
    BY Tables DEF OpenInv, Walk, WalkSession
  <1>1. /\ \A t \in Sessions \ {s} : session'[t] = session[t]
        /\ session'[s].status \in {"in_progress", "completed"}
        /\ Running(s) /\ session'[s].version >= session[s].version
        /\ session'[s].status = "completed" \/ session'[s].version > session[s].version
    BY DEF Walk, WalkSession
  <1>2. \A t \in Sessions : session[t].version \in Nat /\ session'[t].version \in Nat
    BY <1>0 DEF SessionRows
  <1>3. ASSUME NEW a \in attempts
        PROVE  /\ session'[a.session].status # "absent"
               /\ a.version <= session'[a.session].version
               /\ Running(a.session)' => a.version < session'[a.session].version
    <2>1. a.session \in Sessions /\ a.version \in Nat
      BY <1>0 DEF AttemptRows
    <2>2. /\ session[a.session].status # "absent"
          /\ a.version <= session[a.session].version
          /\ Running(a.session) => a.version < session[a.session].version
      BY DEF AttemptsBehind
    <2>3. CASE a.session = s
      BY <1>1, <1>2, <2>1, <2>2, <2>3 DEF Running
    <2>4. CASE a.session # s
      BY <1>1, <2>1, <2>2, <2>4 DEF Running
    <2> QED
      BY <2>3, <2>4
  <1>4. CASE UNCHANGED <<attempts, xp>>
    <2>1. AttemptsBehind'
      BY <1>3, <1>4 DEF AttemptsBehind
    <2>2. OneAwardPerVisit'
      BY <1>4 DEF OneAwardPerVisit
    <2> QED
      BY <2>1, <2>2
  <1>5. ASSUME NEW a \in AttemptRows,
               a.session = s, a.version = session[s].version,
               \A b \in attempts : b.session = s => b.key # a.key,
               attempts' = attempts \cup {a}, xp' = xp + Worth(a.verdict)
        PROVE  AttemptsBehind' /\ OneAwardPerVisit'
    <2>1. IsFiniteSet(attempts')
      BY <1>5, FS_AddElement DEF AttemptsBehind
    <2>2. /\ session'[a.session].status # "absent"
          /\ a.version <= session'[a.session].version
          /\ Running(a.session)' => a.version < session'[a.session].version
      BY <1>1, <1>2, <1>5 DEF Running
    <2>3. AttemptsBehind'
      BY <1>3, <1>5, <2>1, <2>2 DEF AttemptsBehind
    <2>4. ASSUME NEW b \in attempts, b.session = s
          PROVE  b.key # a.key /\ b.version # a.version
      <3>1. b.version < session[s].version
        BY <1>1, <2>4 DEF AttemptsBehind
      <3>2. b.version \in Nat
        BY <1>0 DEF AttemptRows
      <3> QED
        BY <1>2, <1>5, <2>4, <3>1, <3>2
    <2>5. a \notin attempts
      BY <1>5, <2>4
    <2>6. \A b, c \in attempts' :
            b.session = c.session /\ (b.key = c.key \/ b.version = c.version) => b = c
      BY <1>5, <2>4 DEF OneAwardPerVisit
    <2> DEFINE given(v) == {b \in attempts : b.verdict = v}
               count(v) == Cardinality(given(v))
    <2>7. ASSUME NEW v
          PROVE  /\ count(v) \in Nat
                 /\ Cardinality({b \in attempts' : b.verdict = v})
                      = IF a.verdict = v THEN count(v) + 1 ELSE count(v)
      <3>1. IsFiniteSet(given(v))
        BY FS_Subset DEF AttemptsBehind
      <3>2. count(v) \in Nat
        BY <3>1, FS_CardinalityType
      <3>3. CASE a.verdict = v
        <4>1. {b \in attempts' : b.verdict = v} = given(v) \cup {a} /\ a \notin given(v)
          BY <1>5, <2>5, <3>3
        <4>2. Cardinality(given(v) \cup {a}) = count(v) + 1
          BY <3>1, <4>1, FS_AddElement
        <4> QED
          BY <3>2, <3>3, <4>1, <4>2
      <3>4. CASE a.verdict # v
        <4>1. {b \in attempts' : b.verdict = v} = given(v)
          BY <1>5, <3>4
        <4> QED
          BY <3>2, <3>4, <4>1
      <3> QED
        BY <3>3, <3>4
    <2>8. xp = 10 * count("correct") + 5 * count("partial")
      BY DEF OneAwardPerVisit
    <2> HIDE DEF count
    <2>9. xp' = 10 * Cardinality({b \in attempts' : b.verdict = "correct"})
                 + 5 * Cardinality({b \in attempts' : b.verdict = "partial"})
      <3>1. CASE a.verdict = "correct"
        BY <1>5, <2>7, <2>8, <3>1 DEF Worth
      <3>2. CASE a.verdict = "partial"
        BY <1>5, <2>7, <2>8, <3>2 DEF Worth
      <3>3. CASE a.verdict \notin {"correct", "partial"}
        BY <1>0, <1>5, <2>7, <2>8, <3>3 DEF Worth
      <3> QED
        BY <3>1, <3>2, <3>3
    <2> QED
      BY <2>3, <2>6, <2>9 DEF OneAwardPerVisit
  <1> QED
    BY <1>4, <1>5 DEF Walk, WalkAwards

(* The walk of one session.                                                *)
IsWalk(g, entries, node) ==
  LET A == {i \in DOMAIN entries : entries[i].active} IN
  /\ 1 \in A
  /\ entries[1].node = g.start
  /\ entries[Latest(A)].node = node
  /\ \A i, j \in A : i < j /\ (\A k \in A : k <= i \/ j <= k) =>
       \E e \in g.exits[entries[i].node] : e.to = entries[j].node

LEMMA FirstEntry ==
  ASSUME NEW g, NEW n \in Nodes, n = g.start
  PROVE  IsWalk(g, Append(<<>>, [node |-> n, active |-> TRUE]), n)
  <1> DEFINE entries == Append(<<>>, [node |-> n, active |-> TRUE])
             A == {i \in DOMAIN entries : entries[i].active}
  <1>1. entries = <<[node |-> n, active |-> TRUE]>>
    OBVIOUS
  <1>2. DOMAIN entries = {1} /\ entries[1] = [node |-> n, active |-> TRUE]
    BY <1>1
  <1> HIDE DEF entries
  <1>3. A = {1}
    BY <1>2
  <1>4. Latest(A) = 1
    <2>1. A \in SUBSET (1..1) /\ 1 \in A /\ \A j \in A : j <= 1
      BY <1>3
    <2> HIDE DEF A
    <2> QED
      BY <2>1, LatestIs
  <1>5. ~\E i, j \in A : i < j
    BY <1>3
  <1> QED
    BY <1>2, <1>3, <1>4, <1>5 DEF IsWalk, entries

LEMMA EntryAppended ==
  ASSUME NEW g, NEW entries \in Seq(Entries), NEW from \in Nodes, NEW n \in Nodes,
         IsWalk(g, entries, from), \E e \in g.exits[from] : e.to = n
  PROVE  IsWalk(g, Append(entries, [node |-> n, active |-> TRUE]), n)
  <1> DEFINE more == Append(entries, [node |-> n, active |-> TRUE])
             A == {i \in DOMAIN entries : entries[i].active}
             B == {i \in DOMAIN more : more[i].active}
             last == Len(entries) + 1
  <1>1. /\ Len(entries) \in Nat /\ DOMAIN entries = 1..Len(entries)
        /\ DOMAIN more = 1..last
        /\ \A i \in 1..Len(entries) : more[i] = entries[i]
        /\ more[last] = [node |-> n, active |-> TRUE]
    <2>1. [node |-> n, active |-> TRUE] \in Entries
      BY DEF Entries
    <2> QED
      BY <2>1, AppendProperties, LenProperties
  <1> HIDE DEF more
  <1>2. B = A \cup {last} /\ A \subseteq 1..Len(entries)
    BY <1>1
  <1>3. Latest(A) \in A /\ \A j \in A : j <= Latest(A)
    <2>1. A \in SUBSET (1..Len(entries)) /\ A # {}
      BY <1>2 DEF IsWalk
    <2> HIDE DEF A
    <2> QED
      BY <1>1, <2>1, LatestIsLatest
  <1>4. Latest(B) = last
    <2>1. last \in Nat /\ B \in SUBSET (1..last) /\ last \in B /\ \A j \in B : j <= last
      BY <1>1, <1>2
    <2> HIDE DEF B, last
    <2> QED
      BY <2>1, LatestIs
  <1>5. 1 \in A /\ entries[1].node = g.start /\ entries[Latest(A)].node = from
    BY DEF IsWalk
  <1>6. ASSUME NEW i \in B, NEW j \in B, i < j, \A k \in B : k <= i \/ j <= k
        PROVE  \E e \in g.exits[more[i].node] : e.to = more[j].node
    <2>1. i \in A
      BY <1>1, <1>2, <1>6
    <2>2. CASE j \in A
      BY <1>1, <1>2, <1>6, <2>1, <2>2 DEF IsWalk
    <2>3. CASE j = last
      <3>1. i = Latest(A)
        <4>1. Latest(A) \in B /\ Latest(A) \in 1..Len(entries) /\ i \in 1..Len(entries)
              /\ i <= Latest(A)
          BY <1>2, <1>3, <2>1
        <4>2. PICK k \in B : k = Latest(A)
          BY <4>1
        <4>3. k <= i \/ last <= k
          BY <1>6, <2>3
        <4> QED
          BY <1>1, <4>1, <4>2, <4>3
      <3>2. more[i].node = from /\ more[j].node = n
        BY <1>1, <1>2, <1>5, <2>1, <2>3, <3>1
      <3> QED
        BY <3>2
    <2> QED
      BY <1>2, <2>2, <2>3
  <1>7. 1 \in B /\ more[1].node = g.start /\ more[Latest(B)].node = n
    BY <1>1, <1>2, <1>4, <1>5
  <1> QED
    BY <1>6, <1>7 DEF IsWalk, more

LEMMA EntriesUndone ==
  ASSUME NEW g, NEW entries \in Seq(Entries), NEW from,
         IsWalk(g, entries, from), NEW d \in DOMAIN entries, entries[d].active
  PROVE  IsWalk(g, [i \in DOMAIN entries |->
                      IF i > d THEN [entries[i] EXCEPT !.active = FALSE] ELSE entries[i]],
                entries[d].node)
  <1> DEFINE less == [i \in DOMAIN entries |->
                        IF i > d THEN [entries[i] EXCEPT !.active = FALSE] ELSE entries[i]]
             A == {i \in DOMAIN entries : entries[i].active}
             B == {i \in DOMAIN less : less[i].active}
  <1>0. \A i, j \in A : i < j /\ (\A k \in A : k <= i \/ j <= k) =>
          \E e \in g.exits[entries[i].node] : e.to = entries[j].node
    BY DEF IsWalk
  <1>1. /\ Len(entries) \in Nat /\ DOMAIN entries = 1..Len(entries)
        /\ \A i \in 1..Len(entries) : entries[i] \in Entries
    BY LenProperties
  <1>2. /\ DOMAIN less = DOMAIN entries
        /\ \A i \in DOMAIN entries : i > d => ~less[i].active
        /\ \A i \in DOMAIN entries : i <= d => less[i] = entries[i]
    BY <1>1 DEF Entries
  <1> HIDE DEF less
  <1>3. B = {i \in A : i <= d} /\ d \in B
    BY <1>1, <1>2
  <1>4. Latest(B) = d
    <2>1. B \in SUBSET (1..Len(entries)) /\ d \in B /\ \A j \in B : j <= d
      BY <1>1, <1>3
    <2> HIDE DEF B
    <2> QED
      BY <1>1, <2>1, LatestIs
  <1>5. 1 \in B /\ less[1].node = g.start
    BY <1>1, <1>2, <1>3 DEF IsWalk
  <1>6. less[Latest(B)].node = entries[d].node
    BY <1>1, <1>2, <1>4
  <1>7. ASSUME NEW i \in B, NEW j \in B, i < j, \A k \in B : k <= i \/ j <= k
        PROVE  \E e \in g.exits[less[i].node] : e.to = less[j].node
    <2>1. /\ i \in A /\ j \in A /\ less[i] = entries[i] /\ less[j] = entries[j]
          /\ i \in Nat /\ j \in Nat /\ j <= d
      BY <1>1, <1>2, <1>3
    <2>2. \A k \in A : k <= i \/ j <= k
      <3>1. ASSUME NEW k \in A
            PROVE  k <= i \/ j <= k
        <4>1. CASE k \in B
          BY <1>7, <4>1
        <4>2. CASE k \notin B
          BY <1>1, <1>3, <2>1, <4>2
        <4> QED
          BY <4>1, <4>2
      <3> QED
        BY <3>1
    <2>3. \E e \in g.exits[entries[i].node] : e.to = entries[j].node
      BY <1>0, <1>7, <2>1, <2>2
    <2> QED
      BY <2>1, <2>3
  <1> QED
    BY <1>5, <1>6, <1>7 DEF IsWalk, less

LEMMA PathIsWalks ==
  PathIsWalk <=> \A s \in Sessions : Running(s) => IsWalk(OfSession(s), path[s], session[s].node)
  BY DEF PathIsWalk, IsWalk, Active

LEMMA WalkKeepsPath ==
  ASSUME OpenInv, PathIsWalk, NEW s \in Sessions, Walk(s)
  PROVE  PathIsWalk'
  <1>1. /\ \A t \in Sessions \ {s} : session'[t] = session[t] /\ path'[t] = path[t]
        /\ session'[s].lesson = session[s].lesson /\ session'[s].rev = session[s].rev
        /\ Running(s)
    BY DEF Walk, WalkSession, WalkPath
  <1>2. /\ path[s] \in Seq(Entries) /\ session[s] \in SessionRows
        /\ session'[s] \in SessionRows
    BY Tables DEF OpenInv, Walk, WalkSession
  <1>3. session[s].node \in Nodes /\ session'[s].node \in Nodes
    BY <1>2 DEF SessionRows
  <1> DEFINE g == OfSession(s)
  <1>4. IsWalk(g, path[s], session[s].node)
    BY <1>1, PathIsWalks
  <1>5. \A t \in Sessions : OfSession(t)' = OfSession(t)
    BY <1>1 DEF OfSession
  <1>6. Running(s)' => IsWalk(g, path'[s], session'[s].node)
    <2>1. ASSUME Running(s)'
          PROVE  session'[s].status # "completed"
      BY <2>1 DEF Running
    <2>2. ASSUME path'[s] = Append(path[s], [node |-> session'[s].node, active |-> TRUE]),
                 \E e \in OfSession(s).exits[session[s].node] : e.to = session'[s].node
          PROVE  IsWalk(g, path'[s], session'[s].node)
      <3> HIDE DEF g
      <3>1. \E e \in g.exits[session[s].node] : e.to = session'[s].node
        BY <2>2 DEF g
      <3> QED
        BY <1>2, <1>3, <1>4, <2>2, <3>1, EntryAppended
    <2>3. ASSUME NEW d \in Active(s), session'[s].node = path[s][d].node,
                 path'[s] = [i \in DOMAIN path[s] |->
                               IF i > d THEN [path[s][i] EXCEPT !.active = FALSE]
                               ELSE path[s][i]]
          PROVE  IsWalk(g, path'[s], session'[s].node)
      <3>1. d \in DOMAIN path[s] /\ path[s][d].active
        BY DEF Active
      <3> HIDE DEF g
      <3> QED
        BY <1>2, <1>4, <2>3, <3>1, EntriesUndone
    <2> QED
      BY <2>1, <2>2, <2>3 DEF Walk, WalkPath
  <1>7. ASSUME NEW t \in Sessions, Running(t)'
        PROVE  IsWalk(OfSession(t)', path'[t], session'[t].node)
    <2>1. CASE t = s
      BY <1>5, <1>6, <1>7, <2>1
    <2>2. CASE t # s
      BY <1>1, <1>5, <1>7, <2>2, PathIsWalks DEF Running
    <2> QED
      BY <2>1, <2>2
  <1> QED
    BY <1>7 DEF PathIsWalk, IsWalk, Active

-----------------------------------------------------------------------------
(* What an insertion keeps.                                                *)

LEMMA InsertedKeepsOpen ==
  ASSUME OpenInv, NEW s \in Sessions, Inserted(s), AroundOK'
  PROVE  OpenInv'
  <1> DEFINE l == opening.lesson
             p == Len(progress')
             n == Graph[opening.rev][l].start
             row == [status |-> "in_progress", prog |-> p, lesson |-> l,
                     rev |-> opening.rev, replay |-> opening.replay, node |-> n,
                     version |-> 1]
  <1>0. /\ opening.rev \in Revisions /\ l \in Lessons /\ opening.replay \in BOOLEAN
        /\ n \in Nodes /\ l \in LessonsOf[opening.rev]
        /\ \A k \in Before[opening.rev][l] : WasCompleted(k)
        /\ opening.replay => /\ progress # <<>>
                             /\ lp[Len(progress)][l].status = "completed"
        /\ ~opening.replay => OpenSessionOf(l) = {}
    <2>1. StillChecked(opening)
      BY DEF OpenInv, OpeningChecked, Inserted
    <2>2. l \in Lessons /\ opening.replay \in BOOLEAN
      BY DEF OpenInv, LessonTypeOK
    <2> QED
      BY <2>1, <2>2, GraphAssumption DEF StillChecked
  <1>1. /\ progress \in Seq(ProgressRows) /\ Len(progress) \in 0..MaxProgress
        /\ session \in [Sessions -> SessionRows] /\ path \in [Sessions -> Seq(Entries)]
        /\ lp \in LessonTable
    BY Tables DEF OpenInv
  <1>2. row \in SessionRows
    BY <1>0, BoundAssumption DEF Inserted, InsertedRows, SessionRows
  <1>3. /\ session' \in [Sessions -> SessionRows] /\ session'[s] = row
        /\ \A t \in Sessions \ {s} : session'[t] = session[t]
        /\ session[s].status = "absent"
    <2>1. session' = [session EXCEPT ![s] = row] /\ session[s].status = "absent"
      BY DEF Inserted, InsertedSession
    <2> HIDE DEF row
    <2> QED
      BY <1>1, <1>2, <2>1
  <1>4. /\ path' \in [Sessions -> Seq(Entries)]
        /\ \A t \in Sessions \ {s} : path'[t] = path[t]
    <2>1. [node |-> n, active |-> TRUE] \in Entries
      BY <1>0 DEF Entries
    <2>2. Append(path[s], [node |-> n, active |-> TRUE]) \in Seq(Entries)
      BY <1>1, <2>1, AppendProperties
    <2>3. path' = [path EXCEPT ![s] = Append(path[s], [node |-> n, active |-> TRUE])]
      BY DEF Inserted, InsertedSession, Appended
    <2> QED
      BY <1>1, <2>2, <2>3
  <1>5. /\ progress' \in Seq(ProgressRows) /\ p \in 1..MaxProgress
        /\ p >= Len(progress)
        /\ \A q \in 1..p : progress'[q].status = "in_progress" => q = p
        /\ opening.replay => p = Len(progress)
    <2>0. p \in 1..MaxProgress
      BY DEF Inserted, InsertedRows
    <2>1. CASE progress' = progress
      BY <1>1, <2>0, <2>1 DEF OpenInv, RowsInOrder
    <2>2. CASE progress' # progress
      <3> DEFINE new == [status |-> "in_progress", rev |-> opening.rev]
      <3>1. ~opening.replay /\ ActiveProgress = {} /\ progress' = Append(progress, new)
        BY <2>2 DEF Inserted
      <3>2. new \in ProgressRows
        BY <1>0 DEF ProgressRows
      <3>3. /\ progress' \in Seq(ProgressRows) /\ p = Len(progress) + 1
            /\ \A q \in 1..Len(progress) : progress'[q] = progress[q]
        BY <1>1, <3>1, <3>2, AppendProperties
      <3>4. \A q \in 1..Len(progress) : progress[q].status # "in_progress"
        BY <3>1, Tables DEF OpenInv, ActiveProgress
      <3> QED
        BY <1>1, <2>0, <3>1, <3>3, <3>4
    <2> QED
      BY <2>1, <2>2
  <1>6. /\ lp' \in LessonTable
        /\ \A q \in 1..MaxProgress, k \in Lessons : (q = p /\ k = l) \/ lp'[q][k] = lp[q][k]
        /\ lp'[p][l].status = "completed" => lp[p][l].status = "completed"
    BY DEF Inserted, InsertedRows
  <1> HIDE DEF p, n
  <1>7. LessonTypeOK'
    <2>1. /\ attempts' \subseteq AttemptRows /\ xp' \in Nat /\ Len(progress') <= MaxProgress
      BY <1>5, Tables DEF Inserted, OpenInv, p
    <2> QED
      BY <1>3, <1>4, <1>5, <1>6, <2>1
      DEF AroundOK, LessonTypeOK, ProgressRows, LessonTable, LessonRows, SessionRows,
          Entries, AttemptRows
  <1>8. RowsInOrder'
    <2>1. ASSUME NEW q \in 1..MaxProgress, q > p, NEW k \in Lessons
          PROVE  lp'[q][k].status = "absent"
      <3>1. q # p /\ q > Len(progress)
        BY <1>1, <1>5, <2>1
      <3>2. lp'[q][k] = lp[q][k]
        BY <1>6, <3>1
      <3> QED
        BY <3>1, <3>2 DEF OpenInv, RowsInOrder
    <2> QED
      BY <1>5, <2>1 DEF RowsInOrder, p
  <1>9. SessionsPlaced'
    <2>1. ASSUME NEW t \in Sessions \ {s}
          PROVE  IF session'[t].status = "absent"
                 THEN session'[t].prog = 0 /\ path'[t] = <<>>
                 ELSE /\ session'[t].prog \in 1..p
                      /\ session'[t].lesson \in LessonsOf[session'[t].rev]
      BY <1>1, <1>3, <1>4, <1>5 DEF OpenInv, SessionsPlaced
    <2>2. /\ session'[s].status # "absent" /\ session'[s].prog \in 1..p
          /\ session'[s].lesson \in LessonsOf[session'[s].rev]
      BY <1>0, <1>3, <1>5
    <2> QED
      BY <2>1, <2>2 DEF SessionsPlaced, p
  (* No other session of the lesson is open.                               *)
  <1>10. ASSUME NEW t \in Sessions, Running(t), session[t].lesson = l
         PROVE  FALSE
    <2>1. opening.replay /\ t \in OpenSessionOf(l)
      BY <1>0, <1>10 DEF OpenSessionOf
    <2>2. session[t].prog \in 1..Len(progress) /\ session[t].prog # p
      <3>1. session[t].status # "absent"
        BY <1>10 DEF Running
      <3> QED
        BY <2>1, <3>1 DEF OpenInv, SessionsPlaced, Inserted, InsertedSession, p
    <2>3. p > session[t].prog /\ p = Len(progress)
      BY <1>1, <1>5, <2>1, <2>2
    <2>4. lp[p][l].status = "absent"
      BY <1>5, <1>10, <2>3 DEF OpenInv, LaterUntouched
    <2> QED
      BY <1>0, <2>1, <2>3, <2>4
  <1>11. OneOpenSession'
    BY <1>3, <1>10 DEF OpenInv, OneOpenSession, Running
  <1>12. LaterUntouched'
    <2>1. ASSUME NEW t \in Sessions, Running(t)', NEW q \in 1..MaxProgress,
                 q > session'[t].prog
          PROVE  lp'[q][session'[t].lesson].status = "absent"
      <3>1. CASE t = s
        <4>1. session'[t].lesson = l /\ session'[t].prog = p
          BY <1>3, <3>1
        <4>2. lp'[q][l] = lp[q][l] /\ q > Len(progress)
          BY <1>0, <1>1, <1>5, <1>6, <2>1, <4>1
        <4> QED
          BY <1>0, <4>1, <4>2 DEF OpenInv, RowsInOrder
      <3>2. CASE t # s
        <4>1. session'[t] = session[t] /\ session[t].lesson \in Lessons /\ Running(t)
          BY <1>1, <1>3, <2>1, <3>2 DEF SessionRows, Running
        <4>2. session[t].lesson # l
          BY <1>10, <4>1
        <4>3. lp[q][session[t].lesson].status = "absent"
          BY <2>1, <4>1 DEF OpenInv, LaterUntouched
        <4> QED
          BY <1>6, <4>1, <4>2, <4>3
      <3> QED
        BY <3>1, <3>2
    <2> QED
      BY <2>1 DEF LaterUntouched
  <1>13. \A t \in Sessions : session[t].status # "absent" => session'[t] = session[t]
    BY <1>3
  <1>14. DoneBySession'
    <2>1. ASSUME NEW q \in 1..MaxProgress, NEW k \in Lessons,
                 lp'[q][k].status = "completed"
          PROVE  \E t \in Sessions : /\ session'[t].status = "completed"
                                     /\ session'[t].prog = q /\ session'[t].lesson = k
      <3>1. lp[q][k].status = "completed"
        BY <1>6, <2>1
      <3> QED
        BY <1>13, <3>1 DEF OpenInv, DoneBySession
    <2> QED
      BY <2>1 DEF DoneBySession
  <1>15. PrerequisitesEarned'
    <2>1. \A k : WasCompleted(k) => WasCompleted(k)'
      BY <1>13 DEF WasCompleted
    <2>2. \A k \in Before[session'[s].rev][session'[s].lesson] : WasCompleted(k)'
      BY <1>0, <1>3, <2>1
    <2>3. ASSUME NEW t \in Sessions \ {s}, session'[t].status # "absent"
          PROVE  \A k \in Before[session'[t].rev][session'[t].lesson] : WasCompleted(k)'
      BY <1>3, <2>1, <2>3 DEF OpenInv, PrerequisitesEarned, WasCompleted
    <2> QED
      BY <2>2, <2>3 DEF PrerequisitesEarned, WasCompleted
  <1>16. OpeningChecked'
    BY DEF Inserted, OpeningChecked, GameStateFree, Idle
  <1> QED
    BY <1>7, <1>8, <1>9, <1>11, <1>12, <1>14, <1>15, <1>16 DEF OpenInv

LEMMA InsertedKeepsWalks ==
  ASSUME OpenInv, WalkInv, NEW s \in Sessions, Inserted(s)
  PROVE  WalkInv'
  <1> DEFINE start == Graph[opening.rev][opening.lesson].start
             row == [status |-> "in_progress", prog |-> Len(progress'),
                     lesson |-> opening.lesson, rev |-> opening.rev,
                     replay |-> opening.replay, node |-> start, version |-> 1]
  <1>0. /\ session \in [Sessions -> SessionRows] /\ path \in [Sessions -> Seq(Entries)]
        /\ attempts \subseteq AttemptRows
    BY Tables DEF OpenInv
  <1>1. /\ session' = [session EXCEPT ![s] = row] /\ session[s].status = "absent"
        /\ path' = [path EXCEPT ![s] = Append(path[s], [node |-> start, active |-> TRUE])]
        /\ UNCHANGED <<attempts, xp>>
    BY DEF Inserted, InsertedSession, Appended
  <1>2. start \in Nodes /\ path[s] = <<>>
    <2>1. StillChecked(opening)
      BY DEF OpenInv, OpeningChecked, Inserted
    <2>2. opening.lesson \in Lessons
      BY DEF OpenInv, LessonTypeOK
    <2> QED
      BY <1>1, <2>1, <2>2, GraphAssumption DEF StillChecked, OpenInv, SessionsPlaced
  <1> HIDE DEF start, row
  <1>3. /\ session'[s] = row /\ path'[s] = Append(<<>>, [node |-> start, active |-> TRUE])
        /\ \A t \in Sessions \ {s} : session'[t] = session[t] /\ path'[t] = path[t]
    BY <1>0, <1>1, <1>2
  <1>4. AttemptsBehind'
    <2>1. ASSUME NEW a \in attempts
          PROVE  a.session \in Sessions \ {s}
      BY <1>0, <1>1 DEF WalkInv, AttemptsBehind, AttemptRows
    <2> QED
      BY <1>1, <1>3, <2>1 DEF WalkInv, AttemptsBehind, Running
  <1>5. OneAwardPerVisit'
    BY <1>1 DEF WalkInv, OneAwardPerVisit
  <1>6. PathIsWalk'
    <2>1. IsWalk(OfSession(s)', path'[s], session'[s].node)
      <3>1. OfSession(s)' = Graph[opening.rev][opening.lesson] /\ session'[s].node = start
        BY <1>3 DEF OfSession, row
      <3> DEFINE g == Graph[opening.rev][opening.lesson]
      <3>2. start = g.start
        BY DEF start
      <3> HIDE DEF g
      <3>3. IsWalk(g, Append(<<>>, [node |-> start, active |-> TRUE]), start)
        BY <1>2, <3>2, FirstEntry
      <3> QED
        BY <1>3, <3>1, <3>3 DEF g
    <2>2. ASSUME NEW t \in Sessions \ {s}, Running(t)'
          PROVE  IsWalk(OfSession(t)', path'[t], session'[t].node)
      <3>1. /\ Running(t) /\ OfSession(t)' = OfSession(t)
            /\ path'[t] = path[t] /\ session'[t] = session[t]
        BY <1>3, <2>2 DEF Running, OfSession
      <3>2. IsWalk(OfSession(t), path[t], session[t].node)
        BY <3>1, PathIsWalks DEF WalkInv
      <3> QED
        BY <3>1, <3>2
    <2>3. \A t \in Sessions : Running(t)' => IsWalk(OfSession(t)', path'[t], session'[t].node)
      BY <2>1, <2>2
    <2> QED
      BY <2>3 DEF PathIsWalk, IsWalk, Active
  <1> QED
    BY <1>4, <1>5, <1>6 DEF WalkInv

-----------------------------------------------------------------------------
(* What the other steps keep.                                              *)

(* A session may be terminated, and nothing else is done to one.           *)
SessionsCease ==
  \A s \in Sessions :
    /\ session'[s].prog = session[s].prog /\ session'[s].lesson = session[s].lesson
    /\ session'[s].rev = session[s].rev /\ session'[s].node = session[s].node
    /\ session'[s].version = session[s].version
    /\ \/ session'[s].status = session[s].status
       \/ session[s].status = "in_progress" /\ session'[s].status = "terminated"

LEMMA QuietCeases ==
  ASSUME OpenInv, Quiet \/ Checked
  PROVE  /\ SessionsCease /\ session' \in [Sessions -> SessionRows]
         /\ UNCHANGED <<progress, lp, path, attempts, xp>>
  <1>0. session \in [Sessions -> SessionRows]
    BY Tables DEF OpenInv
  <1>1. CASE Checked
    BY <1>0, <1>1 DEF Checked, SessionsCease, Records
  <1>2. CASE Quiet
    <2>1. ASSUME NEW s \in Sessions
          PROVE  /\ session'[s] \in SessionRows
                 /\ session'[s] \in {session[s], [session[s] EXCEPT !.status = "terminated"]}
                 /\ session'[s] # session[s] => session[s].status = "in_progress"
      <3>1. session[s] \in SessionRows
        BY <1>0
      <3>2. [session[s] EXCEPT !.status = "terminated"] \in SessionRows
        BY <3>1 DEF SessionRows
      <3> QED
        BY <1>2, <3>1, <3>2 DEF Quiet, Running
    <2>2. session' \in [Sessions -> SessionRows]
      BY <1>2, <2>1 DEF Quiet
    <2>3. SessionsCease
      <3>1. ASSUME NEW s \in Sessions
            PROVE  /\ session'[s].prog = session[s].prog
                   /\ session'[s].lesson = session[s].lesson
                   /\ session'[s].rev = session[s].rev /\ session'[s].node = session[s].node
                   /\ session'[s].version = session[s].version
                   /\ \/ session'[s].status = session[s].status
                      \/ /\ session[s].status = "in_progress"
                         /\ session'[s].status = "terminated"
        <4>1. session[s] \in SessionRows
          BY <1>0
        <4> QED
          BY <2>1, <4>1 DEF SessionRows
      <3> QED
        BY <3>1 DEF SessionsCease
    <2> QED
      BY <1>2, <2>2, <2>3 DEF Quiet, Records
  <1> QED
    BY <1>1, <1>2

LEMMA CeasingKeeps ==
  ASSUME LessonInv, SessionsCease, session' \in [Sessions -> SessionRows],
         UNCHANGED <<progress, lp, path, attempts, xp>>, AroundOK', OpeningChecked'
  PROVE  LessonInv'
  <1>1. \A t \in Sessions : /\ Running(t)' => Running(t)
                            /\ session[t].status = "completed" =>
                                 session'[t].status = "completed"
                            /\ session'[t].status = "completed" =>
                                 session[t].status = "completed"
                            /\ session'[t].status = "absent" <=>
                                 session[t].status = "absent"
    BY DEF SessionsCease, Running
  <1>2. LessonTypeOK'
    BY DEF LessonInv, OpenInv, AroundOK, LessonTypeOK, SessionRows
  <1>3. RowsInOrder' /\ SessionsPlaced'
    BY <1>1 DEF LessonInv, OpenInv, RowsInOrder, SessionsPlaced, SessionsCease
  <1>4. LaterUntouched' /\ OneOpenSession'
    BY <1>1 DEF LessonInv, OpenInv, LaterUntouched, OneOpenSession, SessionsCease
  <1>5. DoneBySession'
    BY <1>1 DEF LessonInv, OpenInv, DoneBySession, SessionsCease
  <1>6. PrerequisitesEarned'
    BY <1>1 DEF LessonInv, OpenInv, PrerequisitesEarned, SessionsCease
  <1>7. AttemptsBehind'
    <2>1. \A a \in attempts : a.session \in Sessions
      BY Tables DEF LessonInv, OpenInv, AttemptRows
    <2> QED
      BY <1>1, <2>1 DEF LessonInv, WalkInv, AttemptsBehind, SessionsCease
  <1>8. OneAwardPerVisit'
    BY DEF LessonInv, WalkInv, OneAwardPerVisit
  <1>9. PathIsWalk'
    <2>1. ASSUME NEW t \in Sessions, Running(t)'
          PROVE  IsWalk(OfSession(t)', path'[t], session'[t].node)
      <3>1. OfSession(t)' = OfSession(t) /\ session'[t].node = session[t].node
        BY DEF SessionsCease, OfSession
      <3> QED
        BY <1>1, <2>1, <3>1, PathIsWalks DEF LessonInv, WalkInv
    <2> QED
      BY <2>1 DEF PathIsWalk, IsWalk, Active
  <1> QED
    BY <1>2, <1>3, <1>4, <1>5, <1>6, <1>7, <1>8, <1>9 DEF LessonInv, OpenInv, WalkInv

LEMMA KindsKeep ==
  ASSUME LessonInv, AroundOK',
         Quiet \/ Checked \/ \E s \in Sessions : Inserted(s) \/ Walk(s)
  PROVE  LessonInv'
  <1>1. ASSUME NEW s \in Sessions, Walk(s)
        PROVE  LessonInv'
    BY <1>1, WalkKeepsOpen, WalkKeepsAwards, WalkKeepsPath DEF LessonInv, WalkInv
  <1>2. ASSUME NEW s \in Sessions, Inserted(s)
        PROVE  LessonInv'
    BY <1>2, InsertedKeepsOpen, InsertedKeepsWalks DEF LessonInv
  <1>3. CASE Checked
    <2>1. OpeningChecked'
      <3>1. StillChecked(opening') /\ UNCHANGED <<progress, lp, session>>
        BY <1>3 DEF Checked, Records
      <3> QED
        BY <3>1 DEF OpeningChecked, StillChecked, OpenSessionOf, Running, WasCompleted
    <2> QED
      BY <1>3, <2>1, QuietCeases, CeasingKeeps DEF LessonInv
  <1>4. CASE Quiet
    <2>0. SessionsCease /\ UNCHANGED <<progress, lp, path, attempts, xp>>
      BY <1>4, QuietCeases DEF LessonInv
    <2>1. OpeningChecked'
      <3>1. CASE opening' = Idle
        BY <3>1 DEF OpeningChecked, GameStateFree, Idle
      <3>2. CASE opening' = opening /\ opening # Idle
        <4>1. StillChecked(opening)
          BY <3>2 DEF LessonInv, OpenInv, OpeningChecked, GameStateFree
        <4>2. \A k : WasCompleted(k) => WasCompleted(k)'
          BY <2>0 DEF SessionsCease, WasCompleted
        <4>3. OpenSessionOf(opening.lesson)' \subseteq OpenSessionOf(opening.lesson)
          BY <2>0, <3>2 DEF SessionsCease, OpenSessionOf, Running
        <4> QED
          BY <2>0, <3>2, <4>1, <4>2, <4>3 DEF OpeningChecked, StillChecked
      <3> QED
        BY <1>4, <3>1, <3>2 DEF Quiet
    <2> QED
      BY <1>4, <2>1, QuietCeases, CeasingKeeps DEF LessonInv
  <1> QED
    BY <1>1, <1>2, <1>3, <1>4

-----------------------------------------------------------------------------
(* The actions that open a session.                                        *)

LEMMA PreferredIsThere ==
  ASSUME OpenInv, NEW P, P \subseteq 1..Len(progress), P # {}
  PROVE  Preferred(P) \in P /\ \A q \in P : \/ Preferred(P) \in ActiveProgress
                                            \/ q \notin ActiveProgress /\ q <= Preferred(P)
  <1>1. Len(progress) \in Nat
    BY Tables DEF OpenInv
  <1>2. \E p \in P : \A q \in P : \/ p \in ActiveProgress
                                  \/ q \notin ActiveProgress /\ q <= p
    <2>1. PICK m \in P : \A q \in P : q <= m
      BY <1>1, LatestExists
    <2> QED
      BY <2>1
  <1> QED
    BY <1>2 DEF Preferred

LEMMA PreferredIsLast ==
  ASSUME OpenInv, progress # <<>>
  PROVE  Preferred(DOMAIN progress) = Len(progress) /\ Len(progress) \in 1..MaxProgress
  <1> DEFINE p == Preferred(DOMAIN progress)
  <1>1. /\ Len(progress) \in 0..MaxProgress /\ DOMAIN progress = 1..Len(progress)
        /\ Len(progress) # 0
    BY Tables, EmptySeq DEF OpenInv
  <1>2. p \in DOMAIN progress /\ \A q \in DOMAIN progress :
          p \in ActiveProgress \/ (q \notin ActiveProgress /\ q <= p)
    <2>1. PICK P : P = DOMAIN progress
      OBVIOUS
    <2>2. p = Preferred(P)
      BY <2>1
    <2> HIDE DEF p
    <2>3. 1 \in 1..Len(progress)
      BY <1>1, BoundAssumption
    <2>4. P \subseteq 1..Len(progress) /\ P # {}
      BY <1>1, <2>1, <2>3
    <2> QED
      BY <2>1, <2>2, <2>4, PreferredIsThere
  <1> HIDE DEF p
  <1>3. p \in ActiveProgress => p = Len(progress)
    BY <1>1 DEF OpenInv, RowsInOrder, ActiveProgress
  <1>4. p \notin ActiveProgress => Len(progress) <= p /\ p \in 1..Len(progress)
    BY <1>1, <1>2
  <1>5. p = Len(progress)
    BY <1>1, <1>3, <1>4
  <1> QED
    BY <1>1, <1>5 DEF p

LEMMA AllowedWasEarned ==
  ASSUME OpenInv, NEW r \in Revisions, NEW l \in Lessons, StartAllowed(r, l)
  PROVE  l \in LessonsOf[r] /\ \A k \in Before[r][l] : WasCompleted(k)
  <1> DEFINE rows == {p \in DOMAIN progress : progress[p].rev = r}
  <1>1. l \in LessonsOf[r]
    BY DEF StartAllowed
  <1>2. ASSUME NEW k \in Before[r][l]
        PROVE  WasCompleted(k)
    <2>1. rows # {} /\ lp[Preferred(rows)][k].status = "completed"
      BY <1>2 DEF StartAllowed
    <2>2. k \in Lessons
      BY <1>2, GraphAssumption
    <2>3. Preferred(rows) \in 1..MaxProgress
      <3>1. rows \subseteq 1..Len(progress) /\ Len(progress) \in 0..MaxProgress
        BY Tables DEF OpenInv
      <3> HIDE DEF rows
      <3>2. Preferred(rows) \in rows
        BY <2>1, <3>1, PreferredIsThere
      <3>3. Preferred(rows) \in 1..Len(progress)
        BY <3>1, <3>2
      <3>4. \A q \in 1..Len(progress) : q \in 1..MaxProgress
        BY <3>1, BoundAssumption
      <3> QED
        BY <3>3, <3>4
    <2> HIDE DEF rows
    <2> QED
      BY <2>1, <2>2, <2>3 DEF OpenInv, DoneBySession, WasCompleted
  <1> QED
    BY <1>1, <1>2

LEMMA CheckStartIsChecked ==
  ASSUME OpenInv, NEW l \in Lessons, NEW r \in Revisions, NEW fresh \in BOOLEAN,
         CheckStart(l, r, fresh)
  PROVE  Checked
  <1>1. /\ opening' = [lesson |-> l, rev |-> r, replay |-> FALSE, fresh |-> fresh]
        /\ StartAllowed(r, l) /\ OpenSessionOf(l) = {}
        /\ UNCHANGED <<current, open, progress, lp, session, path, attempts, xp>>
    BY DEF CheckStart
  <1>2. StillChecked(opening')
    BY <1>1, AllowedWasEarned DEF StillChecked
  <1> QED
    BY <1>1, <1>2 DEF Checked, Records

LEMMA ResolvedIsRevision ==
  ASSUME OpenInv
  PROVE  Resolved \in Revisions
  <1>1. CASE ActiveProgress = {}
    BY <1>1 DEF Resolved, OpenInv, LessonTypeOK
  <1>2. CASE ActiveProgress # {}
    <2>1. (CHOOSE p \in ActiveProgress : TRUE) \in 1..Len(progress)
      BY <1>2, Tables DEF OpenInv, ActiveProgress
    <2> QED
      BY <1>2, <2>1, Tables DEF OpenInv, Resolved, ProgressRows
  <1> QED
    BY <1>1, <1>2

LEMMA OpeningIsOfItsKind ==
  ASSUME OpenInv, OpeningStep
  PROVE  Quiet \/ Checked \/ \E s \in Sessions : Inserted(s)
  <1>0. session = [s \in Sessions |-> session[s]]
    BY Tables DEF OpenInv
  <1>1. ASSUME NEW q \in Starts, NEW l \in Lessons,
               LookForProgress(q, l) \/ StopLooking(q, l)
        PROVE  Quiet
    BY <1>0, <1>1 DEF LookForProgress, StopLooking, Quiet, Records
  <1>2. CASE OpeningFails
    BY <1>0, <1>2 DEF OpeningFails, Quiet, Records
  <1>3. ASSUME NEW q \in Starts, NEW l \in Lessons, StartPublished(q, l)
        PROVE  Checked
    <2>1. CheckStart(l, current, TRUE) /\ current \in Revisions
      BY <1>3 DEF StartPublished, OpenInv, LessonTypeOK
    <2> QED
      BY <2>1, CheckStartIsChecked
  <1>4. ASSUME NEW l \in Lessons, StartInProgress(l)
        PROVE  Checked
    <2>1. CheckStart(l, Resolved, FALSE)
      BY <1>4 DEF StartInProgress
    <2> QED
      BY <2>1, ResolvedIsRevision, CheckStartIsChecked
  <1>5. ASSUME NEW l \in Lessons, CheckRetry(l)
        PROVE  Checked
    <2> DEFINE p == Len(progress)
    <2>1. progress # <<>> /\ Preferred(DOMAIN progress) = p
      BY <1>5, PreferredIsLast DEF CheckRetry
    <2>2. /\ opening' = [lesson |-> l, rev |-> progress[p].rev, replay |-> TRUE,
                         fresh |-> FALSE]
          /\ StartAllowed(progress[p].rev, l) /\ lp[p][l].status = "completed"
          /\ UNCHANGED <<current, open, progress, lp, session, path, attempts, xp>>
      BY <1>5, <2>1 DEF CheckRetry
    <2>3. progress[p].rev \in Revisions
      BY <2>1, PreferredIsLast, Tables DEF OpenInv, ProgressRows
    <2>4. StillChecked(opening')
      BY <2>1, <2>2, <2>3, AllowedWasEarned DEF StillChecked
    <2> QED
      BY <2>2, <2>4 DEF Checked, Records
  <1>6. ASSUME NEW s \in Sessions, CommitStart(s)
        PROVE  Inserted(s)
    <2> DEFINE new == [status |-> "in_progress", rev |-> opening.rev]
               l == opening.lesson
    <2>0. /\ progress \in Seq(ProgressRows) /\ Len(progress) \in 0..MaxProgress
          /\ lp \in LessonTable /\ l \in Lessons
      BY Tables DEF OpenInv, LessonTypeOK
    <2>1. /\ ~GameStateFree /\ ~opening.replay /\ UNCHANGED <<attempts, xp>>
          /\ \/ progress' = progress
             \/ ActiveProgress = {} /\ Len(progress) < MaxProgress
                /\ progress' = Append(progress, new)
      BY <1>6 DEF CommitStart
    <2>2. PICK p \in DOMAIN progress' :
            /\ progress'[p].status = "in_progress"
            /\ lp' = IF lp[p][l].status = "absent"
                     THEN [lp EXCEPT ![p][l].status = "not_started"] ELSE lp
            /\ InsertSession(s, p)
      BY <1>6 DEF CommitStart
    <2>3. p = Len(progress') /\ p \in 1..MaxProgress
      <3>1. CASE progress' = progress
        BY <2>0, <2>2, <3>1, Tables DEF OpenInv, RowsInOrder
      <3>2. CASE ActiveProgress = {} /\ Len(progress) < MaxProgress
                 /\ progress' = Append(progress, new)
        <4>1. new \in ProgressRows
          <5>1. opening.rev \in Revisions
            BY <2>1 DEF OpenInv, OpeningChecked, StillChecked
          <5> QED
            BY <5>1 DEF ProgressRows
        <4>2. /\ progress' \in Seq(ProgressRows) /\ Len(progress') = Len(progress) + 1
              /\ \A q \in 1..Len(progress) : progress'[q] = progress[q]
          BY <2>0, <3>2, <4>1, AppendProperties
        <4>3. p \in 1..Len(progress')
          <5>1. PICK seq \in Seq(ProgressRows) : seq = progress'
            BY <4>2
          <5>2. DOMAIN seq = 1..Len(seq)
            BY <5>1, LenProperties
          <5> QED
            BY <2>2, <5>1, <5>2
        <4>4. \A q \in 1..Len(progress) : progress[q].status # "in_progress"
          BY <3>2, Tables DEF OpenInv, ActiveProgress
        <4>5. p \notin 1..Len(progress)
          BY <2>2, <4>2, <4>4
        <4> QED
          BY <2>0, <3>2, <4>2, <4>3, <4>5, BoundAssumption
      <3> QED
        BY <2>1, <3>1, <3>2
    <2> HIDE DEF l, new
    <2>4. InsertedRows
      <3>1. [lp[p][l] EXCEPT !.status = "not_started"] \in LessonRows
        BY <2>0, <2>3 DEF LessonTable, LessonRows
      <3>2. CASE lp' = lp
        BY <2>0, <2>3, <3>2 DEF InsertedRows, l
      <3>3. CASE lp' = [lp EXCEPT ![p][l] = [lp[p][l] EXCEPT !.status = "not_started"]]
        <4>1. lp' \in LessonTable
          BY <2>0, <2>3, <3>1, <3>3 DEF LessonTable
        <4>2. \A q \in 1..MaxProgress, k \in Lessons :
                (q = p /\ k = l) \/ lp'[q][k] = lp[q][k]
          BY <2>0, <2>3, <3>3 DEF LessonTable
        <4>3. lp'[p][l].status = "not_started"
          BY <2>0, <2>3, <3>3 DEF LessonTable, LessonRows
        <4> QED
          BY <2>3, <4>1, <4>2, <4>3 DEF InsertedRows, l
      <3> QED
        BY <2>2, <3>2, <3>3
    <2>5. InsertedSession(s) /\ opening' = Idle
      BY <2>2, <2>3 DEF InsertSession, InsertedSession
    <2> QED
      BY <2>1, <2>4, <2>5 DEF Inserted, new
  <1>7. ASSUME NEW s \in Sessions, CommitRetry(s)
        PROVE  Inserted(s)
    <2> DEFINE p == Len(progress)
               l == opening.lesson
    <2>0. lp \in LessonTable /\ l \in Lessons
      BY Tables DEF OpenInv, LessonTypeOK
    <2>1. /\ ~GameStateFree /\ opening.replay /\ UNCHANGED <<progress, attempts, xp>>
      BY <1>7 DEF CommitRetry
    <2>2. progress # <<>>
      BY <2>1 DEF OpenInv, OpeningChecked, StillChecked
    <2>3. Preferred(DOMAIN progress) = p /\ p \in 1..MaxProgress /\ Len(progress') = p
      BY <2>1, <2>2, PreferredIsLast
    <2>4. lp' = [lp EXCEPT ![p][l].status = "in_progress"] /\ InsertSession(s, p)
      BY <1>7, <2>3 DEF CommitRetry
    <2> HIDE DEF p
    <2>5. InsertedRows
      <3>1. [lp[p][l] EXCEPT !.status = "in_progress"] \in LessonRows
        BY <2>0, <2>3 DEF LessonTable, LessonRows
      <3>2. lp' = [lp EXCEPT ![p][l] = [lp[p][l] EXCEPT !.status = "in_progress"]]
        BY <2>4
      <3>3. lp' \in LessonTable
        BY <2>0, <2>3, <3>1, <3>2 DEF LessonTable
      <3>4. \A q \in 1..MaxProgress, k \in Lessons : (q = p /\ k = l) \/ lp'[q][k] = lp[q][k]
        BY <2>0, <2>3, <3>2 DEF LessonTable
      <3>5. lp'[p][l].status = "in_progress"
        BY <2>0, <2>3, <3>2 DEF LessonTable, LessonRows
      <3> QED
        BY <2>3, <3>3, <3>4, <3>5 DEF InsertedRows
    <2>6. InsertedSession(s) /\ opening' = Idle
      BY <2>3, <2>4 DEF InsertSession, InsertedSession
    <2> QED
      BY <2>1, <2>5, <2>6 DEF Inserted
  <1> QED
    BY <1>1, <1>2, <1>3, <1>4, <1>5, <1>6, <1>7 DEF OpeningStep

-----------------------------------------------------------------------------
(* The actions that move a session.                                        *)

LEMMA RowWalks ==
  ASSUME OpenInv, NEW s \in Sessions, Running(s), NEW row \in SessionRows,
         session' = [session EXCEPT ![s] = row],
         row.lesson = session[s].lesson, row.rev = session[s].rev,
         row.prog = session[s].prog, row.status \in {"in_progress", "completed"},
         session[s].version <= row.version,
         row.status = "completed" \/ session[s].version < row.version
  PROVE  WalkSession(s) /\ session'[s] = row
  <1>1. session \in [Sessions -> SessionRows]
    BY Tables DEF OpenInv
  <1>2. session'[s] = row
    BY <1>1
  <1>3. session' \in [Sessions -> SessionRows]
    BY <1>1
  <1>4. \A t \in Sessions \ {s} : session'[t] = session[t]
    BY <1>1
  <1>5. /\ row.version >= session[s].version
        /\ row.status = "completed" \/ row.version > session[s].version
    OBVIOUS
  <1> QED
    BY <1>2, <1>3, <1>4, <1>5 DEF WalkSession

LEMMA MoveWalks ==
  ASSUME OpenInv, NEW s \in Sessions, Running(s), NEW n \in Nodes, MoveTo(s, n)
  PROVE  /\ WalkSession(s)
         /\ session'[s].node = n /\ session'[s].version > session[s].version
  <1> DEFINE row == [session[s] EXCEPT !.node = n, !.version = session[s].version + 1]
  <1>1. session[s] \in SessionRows
    BY Tables DEF OpenInv
  <1>2. session[s].version < MaxVersion /\ session' = [session EXCEPT ![s] = row]
    BY DEF MoveTo
  <1>3. session[s].version \in 0..MaxVersion
    BY <1>1 DEF SessionRows
  <1>4. session[s].version + 1 \in 0..MaxVersion
    BY <1>2, <1>3, BoundAssumption
  <1>5. row \in SessionRows
    BY <1>1, <1>4 DEF SessionRows
  <1>6. /\ row.lesson = session[s].lesson /\ row.rev = session[s].rev
        /\ row.prog = session[s].prog /\ row.status = session[s].status
        /\ row.node = n /\ row.version = session[s].version + 1
    BY <1>1 DEF SessionRows
  <1> HIDE DEF row
  <1>7. WalkSession(s) /\ session'[s] = row
    <2>1. session[s].version < row.version /\ row.status \in {"in_progress", "completed"}
      BY <1>3, <1>6 DEF Running
    <2>2. session[s].version <= row.version
      BY <1>3, <1>6
    <2> QED
      BY <1>2, <1>5, <1>6, <2>1, <2>2, RowWalks
  <1> QED
    BY <1>3, <1>6, <1>7

LEMMA EndWalks ==
  ASSUME OpenInv, NEW s \in Sessions, Running(s),
         session' = [session EXCEPT ![s].status = "completed"]
  PROVE  WalkSession(s) /\ session'[s].status = "completed"
  <1> DEFINE row == [session[s] EXCEPT !.status = "completed"]
  <1>1. session[s] \in SessionRows
    BY Tables DEF OpenInv
  <1>2. session' = [session EXCEPT ![s] = row]
    OBVIOUS
  <1>3. row \in SessionRows /\ session[s].version \in Nat
    BY <1>1 DEF SessionRows
  <1>4. /\ row.lesson = session[s].lesson /\ row.rev = session[s].rev
        /\ row.prog = session[s].prog /\ row.status = "completed"
        /\ row.version = session[s].version
    BY <1>1 DEF SessionRows
  <1> HIDE DEF row
  <1>5. session[s].version <= row.version /\ row.status \in {"in_progress", "completed"}
    BY <1>3, <1>4
  <1>6. WalkSession(s) /\ session'[s] = row
    BY <1>2, <1>3, <1>4, <1>5, RowWalks
  <1> QED
    BY <1>4, <1>6

LEMMA ExitLeads ==
  ASSUME OpenInv, NEW s \in Sessions, NEW n \in Nodes,
         NEW e \in OfSession(s).exits[n]
  PROVE  /\ e.to \in Nodes
         /\ OfSession(s).kind[n] \in Questions => e.verdict \in Verdicts
  <1>1. session[s].rev \in Revisions /\ session[s].lesson \in Lessons
    BY Tables DEF OpenInv, SessionRows
  <1>2. PICK g : g = OfSession(s)
    OBVIOUS
  <1>3. /\ g.exits \in [Nodes -> SUBSET Exits]
        /\ \A d \in g.exits[n] : d.verdict = "none" <=> g.kind[n] \notin Questions
    BY <1>1, <1>2, GraphAssumption, SMTT(30) DEF OfSession
  <1>4. e \in Exits
    BY <1>2, <1>3
  <1> QED
    BY <1>2, <1>3, <1>4 DEF Exits

LEMMA RowsStay ==
  ASSUME OpenInv, NEW s \in Sessions, UNCHANGED <<lp, progress>>
  PROVE  WalkRows(s)
  BY Tables DEF OpenInv, WalkRows

LEMMA DoneRows ==
  ASSUME OpenInv, NEW s \in Sessions, Running(s), NEW rows \in LessonTable,
         \A q \in 1..MaxProgress, k \in Lessons :
           (q = session[s].prog /\ k = session[s].lesson) \/ rows[q][k] = lp[q][k],
         session'[s].status = "completed", LessonDone(s, rows)
  PROVE  WalkRows(s)
  <1> DEFINE p == session[s].prog
             l == session[s].lesson
  <1>1. /\ p \in 1..Len(progress) /\ p \in 1..MaxProgress /\ l \in Lessons
        /\ progress \in Seq(ProgressRows) /\ progress[p] \in ProgressRows
    <2>1. session[s].status # "absent"
      BY DEF Running
    <2>2. /\ p \in 1..Len(progress) /\ l \in Lessons
          /\ progress \in Seq(ProgressRows) /\ progress[p] \in ProgressRows
          /\ Len(progress) \in 0..MaxProgress
      BY <2>1, Tables DEF OpenInv, SessionsPlaced, SessionRows
    <2> QED
      BY <2>2, BoundAssumption
  <1>2. /\ lp' = [rows EXCEPT ![p][l] = [rows[p][l] EXCEPT !.status = "completed"]]
        /\ \/ progress' = progress
           \/ progress' = [progress EXCEPT ![p] =
                             [progress[p] EXCEPT !.status = "completed"]]
    BY DEF LessonDone
  <1>3. [rows[p][l] EXCEPT !.status = "completed"] \in LessonRows
    BY <1>1 DEF LessonTable, LessonRows
  <1>4. [progress[p] EXCEPT !.status = "completed"] \in ProgressRows
    BY <1>1 DEF ProgressRows
  <1> HIDE DEF p, l
  <1>5. /\ lp' \in LessonTable
        /\ \A q \in 1..MaxProgress, k \in Lessons :
             (q = p /\ k = l) \/ lp'[q][k] = rows[q][k]
    <2>1. PICK row \in LessonRows : row = [rows[p][l] EXCEPT !.status = "completed"]
      BY <1>3
    <2>2. lp' = [rows EXCEPT ![p][l] = row]
      BY <1>2, <2>1
    <2>3. lp' \in LessonTable
      BY <1>1, <2>2 DEF LessonTable
    <2>4. \A q \in 1..MaxProgress, k \in Lessons : (q = p /\ k = l) \/ lp'[q][k] = rows[q][k]
      BY <1>1, <2>2 DEF LessonTable
    <2> QED
      BY <2>3, <2>4
  <1>6. /\ progress' \in Seq(ProgressRows) /\ Len(progress') = Len(progress)
        /\ \A q \in 1..Len(progress) :
             /\ progress'[q].rev = progress[q].rev
             /\ progress'[q] = progress[q] \/ progress'[q].status = "completed"
    <2>1. CASE progress' = progress
      BY <1>1, <2>1
    <2>2. ASSUME NEW row \in ProgressRows,
                 row.status = "completed", row.rev = progress[p].rev,
                 progress' = [progress EXCEPT ![p] = row]
          PROVE  /\ progress' \in Seq(ProgressRows) /\ Len(progress') = Len(progress)
                 /\ \A q \in 1..Len(progress) :
                      /\ progress'[q].rev = progress[q].rev
                      /\ progress'[q] = progress[q] \/ progress'[q].status = "completed"
      <3>1. /\ progress' \in Seq(ProgressRows) /\ Len(progress') = Len(progress)
            /\ \A q \in 1..Len(progress) :
                 progress'[q] = IF q = p THEN row ELSE progress[q]
        BY <1>1, <2>2, ExceptSeq
      <3> QED
        BY <2>2, <3>1
    <2>3. /\ [progress[p] EXCEPT !.status = "completed"].status = "completed"
          /\ [progress[p] EXCEPT !.status = "completed"].rev = progress[p].rev
      BY <1>1 DEF ProgressRows
    <2> QED
      BY <1>2, <1>4, <2>1, <2>2, <2>3
  <1>7. \A q \in 1..MaxProgress, k \in Lessons : (q = p /\ k = l) \/ lp'[q][k] = lp[q][k]
    BY <1>5 DEF p, l
  <1> QED
    BY <1>5, <1>6, <1>7 DEF WalkRows, p, l

LEMMA PathStays ==
  ASSUME OpenInv, NEW s \in Sessions, session'[s].status = "completed", UNCHANGED path
  PROVE  WalkPath(s)
  BY Tables DEF OpenInv, WalkPath

LEMMA PathGrows ==
  ASSUME OpenInv, NEW s \in Sessions, NEW e \in OfSession(s).exits[session[s].node],
         e.to \in Nodes, session'[s].node = e.to, path' = Appended(s, e.to)
  PROVE  WalkPath(s)
  <1> DEFINE new == [node |-> e.to, active |-> TRUE]
  <1>1. path \in [Sessions -> Seq(Entries)] /\ new \in Entries
    BY Tables DEF OpenInv, Entries
  <1>2. path' = [path EXCEPT ![s] = Append(path[s], new)]
    BY DEF Appended
  <1> HIDE DEF new
  <1>3. Append(path[s], new) \in Seq(Entries)
    BY <1>1, AppendProperties
  <1>4. path' \in [Sessions -> Seq(Entries)] /\ path'[s] = Append(path[s], new)
        /\ \A t \in Sessions \ {s} : path'[t] = path[t]
    BY <1>1, <1>2, <1>3
  <1> QED
    BY <1>4 DEF WalkPath, new

LEMMA BackIsWalk ==
  ASSUME OpenInv, NEW s \in Sessions, NEW v \in Versions, Back(s, v)
  PROVE  Walk(s)
  <1> DEFINE D == PriorDecisions(s)
  <1>1. /\ GameStateFree /\ Running(s) /\ D # {}
        /\ UNCHANGED <<progress, lp, attempts, xp, opening>>
    BY DEF Back, MayMove
  <1>2. PICK d : d = Latest(D)
    OBVIOUS
  <1>3. /\ MoveTo(s, path[s][d].node)
        /\ path' = [path EXCEPT ![s] = [i \in DOMAIN path[s] |->
             IF i > d THEN [path[s][i] EXCEPT !.active = FALSE] ELSE path[s][i]]]
    BY <1>2 DEF Back
  <1>4. /\ path \in [Sessions -> Seq(Entries)] /\ path[s] \in Seq(Entries)
        /\ DOMAIN path[s] = 1..Len(path[s]) /\ Len(path[s]) \in Nat
        /\ \A i \in 1..Len(path[s]) : path[s][i] \in Entries
    <2>1. path \in [Sessions -> Seq(Entries)] /\ path[s] \in Seq(Entries)
      BY Tables DEF OpenInv
    <2> QED
      BY <2>1, LenProperties, ElementOfSeq
  <1>5. D \subseteq Active(s) /\ Active(s) \subseteq 1..Len(path[s])
    BY <1>4 DEF PriorDecisions, Active
  <1> HIDE DEF D
  <1>6. d \in Active(s) /\ d \in 1..Len(path[s])
    BY <1>1, <1>2, <1>4, <1>5, LatestIsLatest
  <1>7. path[s][d].node \in Nodes
    BY <1>4, <1>6 DEF Entries
  <1>8. WalkSession(s) /\ session'[s].node = path[s][d].node
    BY <1>1, <1>3, <1>7, MoveWalks
  <1>9. WalkPath(s)
    <2> DEFINE new == [i \in DOMAIN path[s] |->
                 IF i > d THEN [path[s][i] EXCEPT !.active = FALSE] ELSE path[s][i]]
    <2>1. new \in Seq(Entries)
      <3>1. \A i \in 1..Len(path[s]) : new[i] \in Entries
        BY <1>4 DEF Entries
      <3>2. new = [i \in 1..Len(path[s]) |-> new[i]]
        BY <1>4
      <3> HIDE DEF new
      <3> QED
        BY <1>4, <3>1, <3>2
    <2>2. path' = [path EXCEPT ![s] = new]
      BY <1>3
    <2> HIDE DEF new
    <2>3. /\ path' \in [Sessions -> Seq(Entries)] /\ path'[s] = new
          /\ \A t \in Sessions \ {s} : path'[t] = path[t]
      BY <1>4, <2>1, <2>2
    <2> QED
      BY <1>6, <1>8, <2>3 DEF WalkPath, new
  <1>10. WalkRows(s)
    BY <1>1, RowsStay
  <1> QED
    BY <1>1, <1>8, <1>9, <1>10 DEF Walk, WalkAwards

LEMMA StoryNextIsWalk ==
  ASSUME OpenInv, NEW s \in Sessions, NEW v \in Versions, NEW n \in Nodes,
         StoryNext(s, v, n)
  PROVE  Walk(s)
  <1>1. /\ GameStateFree /\ Running(s) /\ n = session[s].node
        /\ UNCHANGED <<attempts, xp, opening>>
    BY DEF StoryNext, MayMove, MatchesState
  <1>2. PICK e \in OfSession(s).exits[n] :
          IF OfSession(s).kind[e.to] = "end"
          THEN /\ session' = [session EXCEPT ![s].node = e.to, ![s].version = @ + 1,
                                             ![s].status = "completed"]
               /\ session[s].version < MaxVersion
               /\ LessonDone(s, lp)
               /\ UNCHANGED path
          ELSE /\ MoveTo(s, e.to)
               /\ path' = Appended(s, e.to)
               /\ UNCHANGED <<progress, lp>>
    BY DEF StoryNext
  <1>3. e.to \in Nodes
    BY <1>2, ExitLeads
  <1>4. CASE OfSession(s).kind[e.to] = "end"
    <2> DEFINE row == [session[s] EXCEPT !.node = e.to,
                         !.version = session[s].version + 1, !.status = "completed"]
    <2>1. session[s] \in SessionRows /\ lp \in LessonTable
      BY Tables DEF OpenInv
    <2>2. session[s].version < MaxVersion /\ session' = [session EXCEPT ![s] = row]
      BY <1>2, <1>4
    <2>3. session[s].version \in 0..MaxVersion
      BY <2>1 DEF SessionRows
    <2>4. session[s].version + 1 \in 0..MaxVersion
      BY <2>2, <2>3, BoundAssumption
    <2>5. row \in SessionRows
      BY <1>3, <2>1, <2>4 DEF SessionRows
    <2>6. /\ row.lesson = session[s].lesson /\ row.rev = session[s].rev
          /\ row.prog = session[s].prog /\ row.status = "completed"
          /\ row.version = session[s].version + 1
      BY <2>1 DEF SessionRows
    <2> HIDE DEF row
    <2>7. WalkSession(s) /\ session'[s] = row
      <3>1. session[s].version <= row.version /\ row.status \in {"in_progress", "completed"}
        BY <2>3, <2>6
      <3> QED
        BY <1>1, <2>2, <2>5, <2>6, <3>1, RowWalks
    <2>8. session'[s].status = "completed"
      BY <2>6, <2>7
    <2>9. WalkRows(s)
      BY <1>1, <1>2, <1>4, <2>1, <2>8, DoneRows
    <2>10. WalkPath(s)
      BY <1>2, <1>4, <2>8, PathStays
    <2> QED
      BY <1>1, <2>7, <2>9, <2>10 DEF Walk, WalkAwards
  <1>5. CASE OfSession(s).kind[e.to] # "end"
    <2>1. MoveTo(s, e.to) /\ path' = Appended(s, e.to) /\ UNCHANGED <<lp, progress>>
      BY <1>2, <1>5
    <2>2. WalkSession(s) /\ session'[s].node = e.to
      BY <1>1, <1>3, <2>1, MoveWalks
    <2>3. WalkRows(s) /\ WalkPath(s)
      BY <1>1, <1>2, <1>3, <2>1, <2>2, RowsStay, PathGrows
    <2> QED
      BY <1>1, <2>2, <2>3 DEF Walk, WalkAwards
  <1> QED
    BY <1>4, <1>5

LEMMA RepeatedNextIsWalk ==
  ASSUME OpenInv, NEW s \in Sessions, NEW v \in Versions, NEW n \in Nodes,
         RepeatedNext(s, v, n)
  PROVE  Walk(s)
  <1>1. /\ GameStateFree /\ Running(s)
        /\ session' = [session EXCEPT ![s].status = "completed"]
        /\ LessonDone(s, lp)
        /\ UNCHANGED <<path, attempts, xp, opening>>
    BY DEF RepeatedNext, MayMove
  <1>2. WalkSession(s) /\ session'[s].status = "completed"
    BY <1>1, EndWalks
  <1>3. lp \in LessonTable
    BY Tables DEF OpenInv
  <1>4. WalkRows(s) /\ WalkPath(s)
    BY <1>1, <1>2, <1>3, DoneRows, PathStays
  <1> QED
    BY <1>1, <1>2, <1>4 DEF Walk, WalkAwards

LEMMA DecisionIsWalk ==
  ASSUME OpenInv, NEW s \in Sessions, NEW v \in Versions, NEW n \in Nodes,
         Decision(s, v, n)
  PROVE  Walk(s)
  <1>1. /\ GameStateFree /\ Running(s) /\ n = session[s].node
        /\ UNCHANGED <<progress, lp, attempts, xp, opening>>
    BY DEF Decision, MayMove, MatchesState
  <1>2. PICK e \in OfSession(s).exits[n] : MoveTo(s, e.to) /\ path' = Appended(s, e.to)
    BY DEF Decision
  <1>3. e.to \in Nodes
    BY <1>2, ExitLeads
  <1>4. WalkSession(s) /\ session'[s].node = e.to
    BY <1>1, <1>2, <1>3, MoveWalks
  <1>5. WalkRows(s) /\ WalkPath(s)
    BY <1>1, <1>2, <1>3, <1>4, RowsStay, PathGrows
  <1> QED
    BY <1>1, <1>4, <1>5 DEF Walk, WalkAwards

LEMMA BetterIsVerdict ==
  \A a \in Verdicts \cup {"none"}, b \in Verdicts : Better(a, b) \in Verdicts \cup {"none"}
  BY DEF Better

LEMMA AnswerIsWalk ==
  ASSUME OpenInv, IsFiniteSet(attempts),
         NEW s \in Sessions, NEW v \in Versions, NEW n \in Nodes, NEW key \in Keys,
         Answer(s, v, n, key)
  PROVE  Walk(s)
  <1> DEFINE p == session[s].prog
             l == session[s].lesson
             own == {a \in attempts : a.session = s}
  <1>1. /\ GameStateFree /\ Running(s) /\ n = session[s].node /\ v = session[s].version
        /\ OfSession(s).kind[n] \in Questions
        /\ \A a \in attempts : a.session = s => a.key # key
        /\ UNCHANGED opening
    BY DEF Answer, MayMove, MatchesState
  <1>2. PICK e \in OfSession(s).exits[n] :
          LET rows == [lp EXCEPT ![p][l] =
                         [status |-> "in_progress",
                          best |-> Better(lp[p][l].best, e.verdict)]] IN
          /\ attempts' = attempts \cup
               {[session |-> s, no |-> Cardinality(own) + 1, key |-> key, version |-> v,
                 verdict |-> e.verdict, xp |-> Worth(e.verdict)]}
          /\ xp' = xp + Worth(e.verdict)
          /\ IF OfSession(s).kind[e.to] = "end"
             THEN /\ session' = [session EXCEPT ![s].status = "completed"]
                  /\ LessonDone(s, rows)
                  /\ UNCHANGED path
             ELSE /\ MoveTo(s, e.to)
                  /\ path' = Appended(s, e.to)
                  /\ lp' = rows
                  /\ UNCHANGED progress
    BY DEF Answer
  <1>3. e.to \in Nodes /\ e.verdict \in Verdicts
    BY <1>1, <1>2, ExitLeads
  <1>4. /\ session[s] \in SessionRows /\ lp \in LessonTable
        /\ l \in Lessons /\ p \in 1..MaxProgress /\ p \in 1..Len(progress)
    <2>1. /\ session[s] \in SessionRows /\ lp \in LessonTable
          /\ l \in Lessons /\ p \in 1..Len(progress) /\ Len(progress) \in 0..MaxProgress
      BY <1>1, Tables DEF OpenInv, SessionsPlaced, SessionRows, Running
    <2> QED
      BY <2>1, BoundAssumption
  <1>5. PICK row : row = [status |-> "in_progress",
                          best |-> Better(lp[p][l].best, e.verdict)]
    OBVIOUS
  <1>6. PICK rows : rows = [lp EXCEPT ![p][l] = row]
    OBVIOUS
  <1>7. row \in LessonRows /\ row.status = "in_progress"
    <2>1. lp[p][l].best \in Verdicts \cup {"none"}
      BY <1>4 DEF LessonTable, LessonRows
    <2> QED
      BY <1>3, <1>5, <2>1, BetterIsVerdict DEF LessonRows
  <1>8. /\ attempts' = attempts \cup
             {[session |-> s, no |-> Cardinality(own) + 1, key |-> key, version |-> v,
               verdict |-> e.verdict, xp |-> Worth(e.verdict)]}
        /\ xp' = xp + Worth(e.verdict)
        /\ IF OfSession(s).kind[e.to] = "end"
           THEN /\ session' = [session EXCEPT ![s].status = "completed"]
                /\ LessonDone(s, rows)
                /\ UNCHANGED path
           ELSE /\ MoveTo(s, e.to)
                /\ path' = Appended(s, e.to)
                /\ lp' = rows
                /\ UNCHANGED progress
    BY <1>2, <1>5, <1>6
  <1>9. PICK a : a = [session |-> s, no |-> Cardinality(own) + 1, key |-> key,
                      version |-> v, verdict |-> e.verdict, xp |-> Worth(e.verdict)]
    OBVIOUS
  <1>10. a \in AttemptRows
    <2>1. IsFiniteSet(own) /\ Cardinality(own) \in Nat
      BY FS_Subset, FS_CardinalityType
    <2>2. Worth(e.verdict) \in Nat /\ v \in Nat
      BY WorthIsNat DEF Versions
    <2> HIDE DEF own
    <2> QED
      BY <1>3, <1>9, <2>1, <2>2 DEF AttemptRows
  <1>11. /\ a.session = s /\ a.version = session[s].version
         /\ \A b \in attempts : b.session = s => b.key # a.key
         /\ attempts' = attempts \cup {a} /\ xp' = xp + Worth(a.verdict)
    BY <1>1, <1>8, <1>9
  <1> HIDE DEF p, l
  <1>12. rows \in LessonTable
    BY <1>4, <1>6, <1>7 DEF LessonTable
  <1>13. \A q \in 1..MaxProgress, k \in Lessons : (q = p /\ k = l) \/ rows[q][k] = lp[q][k]
    BY <1>4, <1>6 DEF LessonTable
  <1>14. rows[p][l] = row
    BY <1>4, <1>6 DEF LessonTable
  <1>15. CASE OfSession(s).kind[e.to] = "end"
    <2>1. WalkSession(s) /\ session'[s].status = "completed"
      BY <1>1, <1>8, <1>15, EndWalks
    <2>2. \A q \in 1..MaxProgress, k \in Lessons :
            (q = session[s].prog /\ k = session[s].lesson) \/ rows[q][k] = lp[q][k]
      BY <1>13 DEF p, l
    <2>3. WalkRows(s) /\ WalkPath(s)
      BY <1>1, <1>8, <1>12, <1>15, <2>1, <2>2, DoneRows, PathStays
    <2> QED
      BY <1>1, <1>10, <1>11, <2>1, <2>3 DEF Walk, WalkAwards
  <1>16. CASE OfSession(s).kind[e.to] # "end"
    <2>1. MoveTo(s, e.to) /\ path' = Appended(s, e.to) /\ lp' = rows /\ UNCHANGED progress
      BY <1>8, <1>16
    <2>2. /\ WalkSession(s) /\ session'[s].node = e.to
          /\ session'[s].version > session[s].version
      BY <1>1, <1>3, <2>1, MoveWalks
    <2>3. WalkPath(s)
      BY <1>1, <1>2, <1>3, <2>1, <2>2, PathGrows
    <2>4. WalkRows(s)
      <3>1. /\ lp' \in LessonTable
            /\ \A q \in 1..MaxProgress, k \in Lessons :
                 (q = p /\ k = l) \/ lp'[q][k] = lp[q][k]
            /\ lp'[p][l].status = "in_progress"
        BY <1>7, <1>12, <1>13, <1>14, <2>1
      <3>2. progress' \in Seq(ProgressRows) /\ progress' = progress
        BY <2>1, Tables DEF OpenInv
      <3> QED
        BY <3>1, <3>2 DEF WalkRows, p, l
    <2> QED
      BY <1>1, <1>10, <1>11, <2>2, <2>3, <2>4 DEF Walk, WalkAwards
  <1> QED
    BY <1>15, <1>16

-----------------------------------------------------------------------------
(* Every step is of a kind.                                                *)

LEMMA OutsideIsQuiet ==
  ASSUME OpenInv, OutsideStep \/ \E s \in Sessions : AbandonSession(s)
  PROVE  Quiet
  <1>0. session \in [Sessions -> SessionRows] /\ session = [s \in Sessions |-> session[s]]
    BY Tables DEF OpenInv
  <1>1. ASSUME NEW s \in Sessions, AbandonSession(s)
        PROVE  Quiet
    <2>1. /\ Running(s) /\ UNCHANGED <<progress, lp, path, attempts, xp, opening>>
          /\ session' = [session EXCEPT ![s] = [session[s] EXCEPT !.status = "terminated"]]
      BY <1>1 DEF AbandonSession
    <2>2. PICK row : row = [session[s] EXCEPT !.status = "terminated"]
      OBVIOUS
    <2>3. /\ session'[s] = row /\ \A t \in Sessions \ {s} : session'[t] = session[t]
          /\ session' = [t \in Sessions |-> session'[t]]
      BY <1>0, <2>1, <2>2
    <2> QED
      BY <2>1, <2>2, <2>3 DEF Quiet, Records
  <1>2. ASSUME NEW T, NEW lost, RevokeEntitlement(T, lost)
        PROVE  Quiet
    <2>1. /\ session' = [s \in Sessions |->
               IF Running(s) /\ session[s].lesson \in T
               THEN [session[s] EXCEPT !.status = "terminated"] ELSE session[s]]
          /\ UNCHANGED <<progress, lp, path, attempts, xp, opening>>
      BY <1>2 DEF RevokeEntitlement
    <2>2. /\ \A s \in Sessions :
               \/ session'[s] = session[s]
               \/ Running(s) /\ session'[s] = [session[s] EXCEPT !.status = "terminated"]
          /\ session' = [s \in Sessions |-> session'[s]]
      BY <2>1
    <2> QED
      BY <2>1, <2>2 DEF Quiet, Records
  <1>3. ASSUME NEW l \in Lessons, AccessChanges(l)
        PROVE  Quiet
    BY <1>0, <1>3 DEF AccessChanges, Quiet, Records
  <1>4. CASE PublishRevision
    BY <1>0, <1>4 DEF PublishRevision, Quiet, Records
  <1> QED
    BY <1>1, <1>2, <1>3, <1>4 DEF OutsideStep

LEMMA MovingIsWalk ==
  ASSUME OpenInv, IsFiniteSet(attempts), MovingStep
  PROVE  \E s \in Sessions : Walk(s)
  BY StoryNextIsWalk, RepeatedNextIsWalk, DecisionIsWalk, AnswerIsWalk, BackIsWalk
  DEF MovingStep

LEMMA NextIsOfItsKind ==
  ASSUME OpenInv, IsFiniteSet(attempts), [Next]_vars
  PROVE  Quiet \/ Checked \/ \E s \in Sessions : Inserted(s) \/ Walk(s)
  <1>1. CASE UNCHANGED vars
    <2>1. session = [s \in Sessions |-> session[s]]
      BY Tables DEF OpenInv
    <2> QED
      BY <1>1, <2>1 DEF vars, Quiet, Records
  <1> QED
    BY <1>1, OpeningIsOfItsKind, MovingIsWalk, OutsideIsQuiet DEF Next

(* What surrounds the student's tables stays well typed.                   *)
LEMMA AroundKept ==
  ASSUME OpenInv, [Next]_vars
  PROVE  AroundOK'
  <1> DEFINE Openings == [lesson : Lessons, rev : Revisions \cup {0}, replay : BOOLEAN,
                          fresh : BOOLEAN]
  <1>0. AroundOK
    BY DEF OpenInv, LessonTypeOK, AroundOK
  <1>1. Idle \in Openings
    BY BoundAssumption DEF Idle
  <1>2. ASSUME NEW l \in Lessons, NEW r \in Revisions, NEW fresh \in BOOLEAN,
               CheckStart(l, r, fresh), looking' \subseteq looking
        PROVE  AroundOK'
    BY <1>0, <1>2 DEF CheckStart, AroundOK
  <1>3. CASE OpeningStep
    <2>1. ASSUME NEW q \in Starts, NEW l \in Lessons,
                 LookForProgress(q, l) \/ StopLooking(q, l)
          PROVE  AroundOK'
      BY <1>0, <2>1 DEF LookForProgress, StopLooking, AroundOK
    <2>2. ASSUME NEW q \in Starts, NEW l \in Lessons, StartPublished(q, l)
          PROVE  AroundOK'
      <3>1. /\ CheckStart(l, current, TRUE) /\ looking' \subseteq looking
            /\ current \in Revisions
        BY <1>0, <2>2 DEF StartPublished, AroundOK
      <3> QED
        BY <1>2, <3>1
    <2>3. ASSUME NEW l \in Lessons, StartInProgress(l)
          PROVE  AroundOK'
      <3>1. CheckStart(l, Resolved, FALSE) /\ looking' \subseteq looking
        BY <2>3 DEF StartInProgress
      <3> QED
        BY <1>2, <3>1, ResolvedIsRevision
    <2>4. ASSUME NEW l \in Lessons, CheckRetry(l)
          PROVE  AroundOK'
      <3>0. progress # <<>>
        BY <2>4 DEF CheckRetry
      <3>1. /\ opening' = [lesson |-> l, rev |-> progress[Len(progress)].rev,
                           replay |-> TRUE, fresh |-> FALSE]
            /\ Len(progress) \in 1..Len(progress)
            /\ UNCHANGED <<current, open, looking>>
        <4>1. PICK p : p = Preferred(DOMAIN progress)
          OBVIOUS
        <4>2. p = Len(progress) /\ p \in 1..MaxProgress
          BY <3>0, <4>1, PreferredIsLast
        <4>3. /\ opening' = [lesson |-> l, rev |-> progress[p].rev,
                             replay |-> TRUE, fresh |-> FALSE]
              /\ UNCHANGED <<current, open, looking>>
          BY <2>4, <4>1 DEF CheckRetry
        <4> QED
          BY <4>2, <4>3
      <3>2. progress[Len(progress)].rev \in Revisions
        BY <3>1, Tables DEF OpenInv, ProgressRows
      <3> QED
        BY <1>0, <3>1, <3>2 DEF AroundOK
    <2>5. ASSUME OpeningFails \/ \E s \in Sessions : CommitStart(s) \/ CommitRetry(s)
          PROVE  AroundOK'
      <3>1. opening' = Idle /\ UNCHANGED <<current, open, looking>>
        BY <2>5 DEF OpeningFails, CommitStart, CommitRetry, InsertSession
      <3> QED
        BY <1>0, <1>1, <3>1 DEF AroundOK
    <2> QED
      BY <1>3, <2>1, <2>2, <2>3, <2>4, <2>5 DEF OpeningStep
  <1>4. CASE MovingStep \/ (\E s \in Sessions : AbandonSession(s)) \/ UNCHANGED vars
    <2> DEFINE Same == UNCHANGED <<current, open, looking, opening>>
    <2>1. Same
      <3>1. ASSUME NEW s \in Sessions, NEW v \in Versions, NEW n \in Nodes,
                   StoryNext(s, v, n) \/ RepeatedNext(s, v, n) \/ Decision(s, v, n)
            PROVE  Same
        BY <3>1 DEF StoryNext, RepeatedNext, Decision
      <3>2. ASSUME NEW s \in Sessions, NEW v \in Versions, NEW n \in Nodes,
                   NEW key \in Keys, Answer(s, v, n, key)
            PROVE  Same
        BY <3>2 DEF Answer
      <3>3. ASSUME NEW s \in Sessions, NEW v \in Versions,
                   Back(s, v)
            PROVE  Same
        BY <3>3 DEF Back
      <3>4. ASSUME NEW s \in Sessions, AbandonSession(s)
            PROVE  Same
        BY <3>4 DEF AbandonSession
      <3>5. ASSUME UNCHANGED vars
            PROVE  Same
        BY <3>5 DEF vars
      <3> HIDE DEF Same
      <3> QED
        BY <1>4, <3>1, <3>2, <3>3, <3>4, <3>5 DEF MovingStep
    <2> QED
      BY <1>0, <2>1 DEF AroundOK
  <1>5. CASE OutsideStep
    <2>1. UNCHANGED <<looking, opening>> /\ current' \in Revisions /\ open' \subseteq Lessons
      BY <1>0, <1>5 DEF OutsideStep, RevokeEntitlement, AccessChanges, PublishRevision,
                        AroundOK
    <2> QED
      BY <1>0, <2>1 DEF AroundOK
  <1> QED
    BY <1>3, <1>4, <1>5 DEF Next

LEMMA LessonInit ==
  ASSUME Init
  PROVE  LessonInv
  <1>0. /\ current = 1 /\ open = Lessons /\ progress = <<>>
        /\ lp = [p \in 1..MaxProgress |-> [l \in Lessons |->
                   [status |-> "absent", best |-> "none"]]]
        /\ session = [s \in Sessions |-> NoSession]
        /\ path = [s \in Sessions |-> <<>>]
        /\ attempts = {} /\ xp = 0 /\ looking = {} /\ opening = Idle
    BY DEF Init
  <1>1. NoSession \in SessionRows
    BY BoundAssumption DEF NoSession, SessionRows
  <1>2. NoSession.status = "absent" /\ NoSession.prog = 0
    BY DEF NoSession
  <1>3. \A s \in Sessions : session[s] = NoSession /\ path[s] = <<>>
    BY <1>0
  <1>4. /\ progress \in Seq(ProgressRows) /\ Len(progress) = 0
        /\ path \in [Sessions -> Seq(Entries)]
    BY <1>0, EmptySeq
  <1>5. lp \in LessonTable
    BY <1>0 DEF LessonTable, LessonRows
  <1>6. opening \in [lesson : Lessons, rev : Revisions \cup {0}, replay : BOOLEAN,
                     fresh : BOOLEAN]
    BY <1>0, BoundAssumption DEF Idle
  <1>7. LessonTypeOK
    <2>1. session \in [Sessions -> SessionRows]
      BY <1>0, <1>1
    <2>2. /\ current \in Revisions /\ open \subseteq Lessons
          /\ attempts \subseteq AttemptRows /\ xp \in Nat
          /\ looking \subseteq Starts \X Lessons /\ Len(progress) <= MaxProgress
      BY <1>0, <1>4, BoundAssumption
    <2> QED
      BY <1>4, <1>5, <1>6, <2>1, <2>2
      DEF LessonTypeOK, ProgressRows, LessonTable, LessonRows, SessionRows, Entries,
          AttemptRows
  <1>8. RowsInOrder /\ DoneBySession
    BY <1>0, <1>4 DEF RowsInOrder, DoneBySession
  <1>9. SessionsPlaced /\ LaterUntouched /\ OneOpenSession /\ PrerequisitesEarned
    BY <1>2, <1>3
    DEF SessionsPlaced, LaterUntouched, OneOpenSession, PrerequisitesEarned, Running
  <1>10. OpeningChecked
    BY <1>0 DEF OpeningChecked, GameStateFree
  <1>11. AttemptsBehind
    BY <1>0, FS_EmptySet DEF AttemptsBehind
  <1>12. OneAwardPerVisit
    <2> DEFINE given(v) == {a \in attempts : a.verdict = v}
    <2>1. \A v : given(v) = {}
      BY <1>0
    <2>2. \A v : Cardinality(given(v)) = 0
      BY <2>1, FS_EmptySet
    <2> HIDE DEF given
    <2>3. xp = 10 * Cardinality(given("correct")) + 5 * Cardinality(given("partial"))
      BY <1>0, <2>2
    <2> QED
      BY <1>0, <2>3 DEF OneAwardPerVisit, given
  <1>13. PathIsWalk
    BY <1>2, <1>3 DEF PathIsWalk, Running
  <1> QED
    BY <1>7, <1>8, <1>9, <1>10, <1>11, <1>12, <1>13 DEF LessonInv, OpenInv, WalkInv

LEMMA LessonStep ==
  ASSUME LessonInv, [Next]_vars
  PROVE  LessonInv'
  <1>1. OpenInv /\ IsFiniteSet(attempts)
    BY DEF LessonInv, WalkInv, AttemptsBehind
  <1>2. AroundOK'
    BY <1>1, AroundKept
  <1>3. Quiet \/ Checked \/ \E s \in Sessions : Inserted(s) \/ Walk(s)
    BY <1>1, NextIsOfItsKind
  <1> QED
    BY <1>2, <1>3, KindsKeep

(* Whatever requests come late, twice or in another order, and whatever is *)
(* published, revoked or abandoned meanwhile, the student's tables agree.  *)
THEOREM LessonInvariant == Spec => []LessonInv
  <1>1. Init => LessonInv
    BY LessonInit
  <1>2. LessonInv /\ [Next]_vars => LessonInv'
    BY LessonStep
  <1> QED
    BY <1>1, <1>2, PTL DEF Spec

(* The index that forbids a second open session of a lesson speaks of one  *)
(* course_progress; StartLesson's and Retry's checks forbid it over all.   *)
THEOREM OneSessionIsOpen == Spec => []OneOpenSession
  <1>1. LessonInv => OneOpenSession
    BY DEF LessonInv, OpenInv
  <1> QED
    BY <1>1, LessonInvariant, PTL

(* No order of starts, retries and publications opens a lesson before      *)
(* those that precede it were completed.                                   *)
THEOREM NothingIsSkipped == Spec => []PrerequisitesEarned
  <1>1. LessonInv => PrerequisitesEarned
    BY DEF LessonInv, OpenInv
  <1> QED
    BY <1>1, LessonInvariant, PTL

(* Repeated, late and reordered answers are paid for once.                 *)
THEOREM AnswersArePaidOnce == Spec => []OneAwardPerVisit
  <1>1. LessonInv => OneAwardPerVisit
    BY DEF LessonInv, WalkInv
  <1> QED
    BY <1>1, LessonInvariant, PTL

(* However often Back was pressed, the path of an open session is a walk   *)
(* in its graph from the start to where the session is.                    *)
THEOREM PathsAreWalks == Spec => []PathIsWalk
  <1>1. LessonInv => PathIsWalk
    BY DEF LessonInv, WalkInv
  <1> QED
    BY <1>1, LessonInvariant, PTL

-----------------------------------------------------------------------------
(* A course is finished by finishing its lessons.                          *)

(* The course_progress p was begun, and stayed, with the revision r.       *)
AllOf(p, r) ==
  /\ p \in DOMAIN progress /\ progress[p].rev = r
  /\ \A s \in Sessions : session[s].prog = p => session[s].rev = r

LEMMA DoneOfRevision ==
  ASSUME OpenInv, NEW p, NEW r, AllOf(p, r), NEW s \in Sessions, Running(s),
         NEW rows \in LessonTable,
         \A q \in 1..MaxProgress, k \in Lessons :
           (q = session[s].prog /\ k = session[s].lesson) \/ rows[q][k] = lp[q][k],
         LessonDone(s, rows), progress'[p] # progress[p]
  PROVE  \A l \in LessonsOf[r] : lp'[p][l].status = "completed"
  <1>1. /\ lp \in LessonTable /\ session[s] \in SessionRows
        /\ p \in 1..Len(progress) /\ Len(progress) \in 0..MaxProgress
        /\ progress \in Seq(ProgressRows) /\ r \in Revisions
    BY Tables DEF AllOf, OpenInv, ProgressRows
  <1>2. p \in 1..MaxProgress
    BY <1>1, BoundAssumption
  <1>3. session[s].prog = p
    <2>1. PICK q : q = session[s].prog
      OBVIOUS
    <2>2. \/ progress' = progress
          \/ progress' = [progress EXCEPT ![q].status = "completed"]
      BY <2>1 DEF LessonDone
    <2>3. q # p => progress'[p] = progress[p]
      BY <1>1, <2>2
    <2> QED
      BY <2>1, <2>3
  <1> DEFINE done == [rows EXCEPT ![p][session[s].lesson].status = "completed"]
             C == {l \in Lessons : done[p][l].status = "completed"}
  <1>4. lp' = done /\ Cardinality(C) = Cardinality(LessonsOf[r])
    BY <1>3 DEF LessonDone, AllOf
  <1>5. LessonsOf[r] \subseteq Lessons /\ IsFiniteSet(LessonsOf[r])
    <2>1. LessonsOf[r] \subseteq Lessons
      BY <1>1, GraphAssumption
    <2> QED
      BY <2>1, FS_Subset, BoundAssumption
  <1>6. \A l \in Lessons \ {session[s].lesson} : done[p][l] = rows[p][l]
    BY <1>1, <1>2 DEF LessonTable
  <1> HIDE DEF done
  <1>7. ASSUME NEW l \in C
        PROVE  l \in LessonsOf[r]
    <2>1. CASE l = session[s].lesson
      BY <1>3, <2>1 DEF OpenInv, SessionsPlaced, Running, AllOf
    <2>2. CASE l # session[s].lesson
      <3>1. lp[p][l].status = "completed"
        BY <1>2, <1>6, <2>2
      <3>2. PICK t \in Sessions : /\ session[t].status = "completed"
                                  /\ session[t].prog = p /\ session[t].lesson = l
        BY <1>2, <3>1 DEF OpenInv, DoneBySession
      <3>3. session[t].lesson \in LessonsOf[session[t].rev]
        BY <3>2 DEF OpenInv, SessionsPlaced
      <3> QED
        BY <3>2, <3>3 DEF AllOf
    <2> QED
      BY <2>1, <2>2
  <1> HIDE DEF C
  <1>8. C = LessonsOf[r]
    BY <1>4, <1>5, <1>7, FS_Subset
  <1> QED
    BY <1>4, <1>5, <1>8 DEF C

LEMMA CompletedByDone ==
  ASSUME OpenInv, Next, NEW p \in DOMAIN progress, progress[p].status = "in_progress",
         progress'[p].status = "completed"
  PROVE  \E s \in Sessions, rows \in LessonTable :
           /\ Running(s) /\ LessonDone(s, rows)
           /\ \A q \in 1..MaxProgress, k \in Lessons :
                (q = session[s].prog /\ k = session[s].lesson) \/ rows[q][k] = lp[q][k]
  <1> DEFINE Found ==
        \E s \in Sessions, rows \in LessonTable :
          /\ Running(s) /\ LessonDone(s, rows)
          /\ \A q \in 1..MaxProgress, k \in Lessons :
               (q = session[s].prog /\ k = session[s].lesson) \/ rows[q][k] = lp[q][k]
  <1>0. progress'[p] # progress[p] /\ lp \in LessonTable
    BY Tables DEF OpenInv
  <1>1. ASSUME NEW s \in Sessions, Running(s), LessonDone(s, lp)
        PROVE  Found
    BY <1>0, <1>1
  <1>2. ASSUME OpeningStep
        PROVE  FALSE
    <2>1. \/ Quiet \/ Checked \/ \E s \in Sessions : Inserted(s)
      BY <1>2, OpeningIsOfItsKind
    <2>2. progress' # progress
      BY <1>0
    <2>3. /\ ActiveProgress = {}
      BY <2>1, <2>2 DEF Quiet, Checked, Records, Inserted
    <2> QED
      BY <2>3 DEF ActiveProgress
  <1>3. ASSUME NEW s \in Sessions, NEW v \in Versions, NEW n \in Nodes,
               StoryNext(s, v, n) \/ RepeatedNext(s, v, n)
        PROVE  Found
    <2>1. Running(s) /\ LessonDone(s, lp)
      BY <1>0, <1>3 DEF StoryNext, RepeatedNext, MayMove
    <2> QED
      BY <1>1, <2>1
  <1>4. ASSUME NEW s \in Sessions, NEW v \in Versions, NEW n \in Nodes, NEW key \in Keys,
               Answer(s, v, n, key)
        PROVE  Found
    <2> DEFINE c == session[s].prog
               l == session[s].lesson
    <2>1. Running(s) /\ n \in Nodes /\ OfSession(s).kind[n] \in Questions
      BY <1>4 DEF Answer, MayMove
    <2>2. PICK e \in OfSession(s).exits[n] :
            LessonDone(s, [lp EXCEPT ![c][l] =
              [status |-> "in_progress", best |-> Better(lp[c][l].best, e.verdict)]])
      BY <1>0, <1>4 DEF Answer
    <2>3. e.verdict \in Verdicts
      BY <2>1, <2>2, ExitLeads
    <2>4. c \in 1..MaxProgress /\ l \in Lessons
      <3>1. c \in 1..Len(progress) /\ Len(progress) \in 0..MaxProgress /\ l \in Lessons
        BY <2>1, Tables DEF OpenInv, SessionsPlaced, SessionRows, Running
      <3> QED
        BY <3>1, BoundAssumption
    <2>5. PICK row : row = [status |-> "in_progress",
                            best |-> Better(lp[c][l].best, e.verdict)]
      OBVIOUS
    <2>6. row \in LessonRows
      <3>1. lp[c][l].best \in Verdicts \cup {"none"}
        BY <1>0, <2>4 DEF LessonTable, LessonRows
      <3> QED
        BY <2>3, <2>5, <3>1, BetterIsVerdict DEF LessonRows
    <2>7. PICK rows : rows = [lp EXCEPT ![c][l] = row]
      OBVIOUS
    <2>8. LessonDone(s, rows)
      BY <2>2, <2>5, <2>7
    <2> HIDE DEF c, l
    <2>9. rows \in LessonTable
      BY <1>0, <2>4, <2>6, <2>7 DEF LessonTable
    <2>10. \A q \in 1..MaxProgress, k \in Lessons : (q = c /\ k = l) \/ rows[q][k] = lp[q][k]
      BY <1>0, <2>4, <2>7 DEF LessonTable
    <2> QED
      BY <2>1, <2>8, <2>9, <2>10 DEF c, l
  <1>5. ASSUME NEW s \in Sessions, NEW v \in Versions, NEW n \in Nodes,
               Decision(s, v, n) \/ Back(s, v) \/ AbandonSession(s)
        PROVE  FALSE
    BY <1>0, <1>5 DEF Decision, Back, AbandonSession
  <1>6. ASSUME OutsideStep \/ \E s \in Sessions : AbandonSession(s)
        PROVE  FALSE
    BY <1>0, <1>6, OutsideIsQuiet DEF Quiet, Records
  <1>7. Nodes # {}
    BY BoundAssumption
  <1> HIDE DEF Found
  <1>8. Found
    BY <1>2, <1>3, <1>4, <1>5, <1>6, <1>7 DEF Next, MovingStep
  <1> QED
    BY <1>8 DEF Found

(* A course is finished only by finishing every lesson of the revision it  *)
(* was begun with, although completeLessonTx compares two counts.          *)
THEOREM CoursesAreEarned == Spec => CompletionEarned
  <1> DEFINE Earned ==
        \A p \in DOMAIN progress :
          /\ progress[p].status = "in_progress"
          /\ progress'[p].status = "completed"
          /\ \A s \in Sessions : session[s].prog = p => session[s].rev = progress[p].rev
          => \A l \in LessonsOf[progress[p].rev] : lp'[p][l].status = "completed"
  <1>1. LessonInv /\ [Next]_vars => [Earned]_vars
    <2> SUFFICES ASSUME LessonInv, Next, NEW p \in DOMAIN progress,
                        progress[p].status = "in_progress",
                        progress'[p].status = "completed",
                        \A s \in Sessions :
                          session[s].prog = p => session[s].rev = progress[p].rev
                 PROVE  \A l \in LessonsOf[progress[p].rev] : lp'[p][l].status = "completed"
      OBVIOUS
    <2>1. OpenInv
      BY DEF LessonInv
    <2>2. PICK s \in Sessions, rows \in LessonTable :
            /\ Running(s) /\ LessonDone(s, rows)
            /\ \A q \in 1..MaxProgress, k \in Lessons :
                 (q = session[s].prog /\ k = session[s].lesson) \/ rows[q][k] = lp[q][k]
      BY <2>1, CompletedByDone
    <2>3. AllOf(p, progress[p].rev) /\ progress'[p] # progress[p]
      BY DEF AllOf
    <2> QED
      BY <2>1, <2>2, <2>3, DoneOfRevision
  <1> HIDE DEF Earned
  <1>2. [][Earned]_vars <=> CompletionEarned
    BY PTL DEF CompletionEarned, Earned
  <1> QED
    BY <1>1, <1>2, LessonInvariant, PTL DEF Spec

-----------------------------------------------------------------------------
(***************************************************************************)
(* The student's pages.                                                    *)
(*                                                                         *)
(* What a page knows of its session only gets older: versions grow, what   *)
(* is completed stays so, answers are never forgotten (Persists).  A step  *)
(* of the player changes one page, to one that knows something of the      *)
(* state after the step (PageChanges), and the tables by a step of the     *)
(* runtime or not at all.                                                  *)
(***************************************************************************)
Accesses == [Lessons -> {"completed", "open", "locked"}]
PageRows ==
  [screen : Screens, lesson : Lessons, step : Steps \cup {NoStep}, key : Keys \cup {NoKey},
   result : Results, call : Calls, access : Accesses, exit : Sessions \cup {NoStep}]

VersionsCount == \A s \in Sessions : session[s].status # "absent" => 1 <= session[s].version

(* What a page shows of a session is what it is, or was.                   *)
Trailing(step) ==
  LET row == session[step.session] IN
  /\ row.status # "absent"
  /\ 1 <= step.version /\ step.version <= row.version
  /\ step.version = row.version /\ Running(step.session) => step.node = row.node

(* The verdict on the page is recorded, and with it how the lesson ended.  *)
Recorded(page) ==
  /\ page.step \in Steps
  /\ \E a \in attempts : /\ a.session = page.step.session /\ a.key = page.key
                         /\ a.verdict = page.result.verdict
  /\ page.result.done => session[page.step.session].status = "completed"

PageOK(page) ==
  /\ page \in PageRows
  /\ page.step # NoStep => Trailing(page.step)
  /\ page.screen \in StepScreens => page.step \in Steps /\ page.step.kind = page.screen
  /\ page.screen \in Questions \cup {"checking"} \/ page.call = "answer" => page.key # NoKey
  /\ page.key # NoKey /\ page.screen # "feedback" => \A a \in attempts : a.key # page.key
  /\ page.screen = "feedback" => Recorded(page)
  /\ page.screen = "complete" =>
       \/ page.step.kind = "end"
       \/ page.step \in Steps /\ session[page.step.session].status = "completed"

CallFits(page) ==
  /\ page.screen \in Questions \cup {"feedback"} => page.call = "none"
  /\ page.screen = "loading" => page.call \in {"session", "start"}

(* No two tabs hold the same key.                                          *)
KeysApart ==
  \A t, u \in Tabs : tab[t].key # NoKey /\ tab[t].key = tab[u].key => t = u

(* The session about to be inserted is the one its tab waits for.          *)
OpenerWaits ==
  /\ opener \in Tabs \cup {NoTab}
  /\ (opener = NoTab) <=> (opening = Idle)
  /\ opener # NoTab =>
       /\ tab[opener].call \in {"start", "retry"}
       /\ opening.lesson = tab[opener].lesson
       /\ tab[opener].call = "start" => ~opening.replay

PlayerInv ==
  /\ LessonInv /\ VersionsCount
  /\ tab \in [Tabs -> PageRows]
  /\ \A t \in Tabs, page \in PageRows : tab[t] = page => PageOK(page) /\ CallFits(page)
  /\ KeysApart /\ OpenerWaits

-----------------------------------------------------------------------------
(* What a step of the runtime leaves of what pages know.                   *)

Persists ==
  /\ \A step \in Steps : Trailing(step) => Trailing(step)'
  /\ \A s \in Sessions : session[s].status = "completed" => session'[s].status = "completed"
  /\ attempts \subseteq attempts'

LEMMA SessionsPersist ==
  ASSUME LessonInv, VersionsCount, LessonInv',
         Quiet \/ Checked \/ \E s \in Sessions : Inserted(s) \/ Walk(s)
  PROVE  /\ VersionsCount'
         /\ \A step \in Steps : Trailing(step) => Trailing(step)'
         /\ \A s \in Sessions :
              session[s].status = "completed" => session'[s].status = "completed"
  <1>0. session \in [Sessions -> SessionRows] /\ session' \in [Sessions -> SessionRows]
    <2>1. session \in [Sessions -> SessionRows]
      BY Tables DEF LessonInv, OpenInv
    <2>2. session' \in [Sessions -> SessionRows]
      BY DEF LessonInv, OpenInv, LessonTypeOK, SessionRows
    <2> QED
      BY <2>1, <2>2
  <1>1. \A s \in Sessions : session[s].version \in Nat /\ session'[s].version \in Nat
    BY <1>0 DEF SessionRows
  <1> DEFINE Older(s) ==
        /\ session[s].status # "absent" =>
             session'[s].status # "absent" /\ session[s].version <= session'[s].version
        /\ session[s].status = "completed" => session'[s].status = "completed"
        /\ Running(s)' /\ session[s].status # "absent" /\ session[s].version = session'[s].version =>
             Running(s) /\ session'[s].node = session[s].node
        /\ session[s].status = "absent" /\ session'[s].status # "absent" =>
             session'[s].version = 1
  <1>2. \A s \in Sessions : Older(s)
    <2>1. CASE Quiet \/ Checked
      <3>1. SessionsCease
        BY <2>1, QuietCeases DEF LessonInv
      <3> QED
        BY <1>1, <3>1 DEF SessionsCease, Running
    <2>2. ASSUME NEW s \in Sessions, Inserted(s), NEW t \in Sessions
          PROVE  Older(t)
      <3>1. /\ session[s].status = "absent" /\ session'[s].version = 1
            /\ session'[s].status = "in_progress"
            /\ \A u \in Sessions \ {s} : session'[u] = session[u]
            /\ session[s].prog = 0
        BY <1>0, <2>2 DEF Inserted, InsertedSession, LessonInv, OpenInv, SessionsPlaced
      <3>2. CASE t = s
        BY <3>1, <3>2 DEF Running
      <3>3. CASE t # s
        BY <1>1, <3>1, <3>3 DEF Running
      <3> QED
        BY <3>2, <3>3
    <2>3. ASSUME NEW s \in Sessions, Walk(s), NEW t \in Sessions
          PROVE  Older(t)
      <3>1. /\ \A u \in Sessions \ {s} : session'[u] = session[u]
            /\ session'[s].status \in {"in_progress", "completed"}
            /\ session[s].status = "in_progress"
            /\ session'[s].version >= session[s].version
            /\ session'[s].status = "completed" \/ session'[s].version > session[s].version
        BY <2>3 DEF Walk, WalkSession, Running
      <3>2. CASE t = s
        BY <1>1, <3>1, <3>2 DEF Running
      <3>3. CASE t # s
        BY <1>1, <3>1, <3>3 DEF Running
      <3> QED
        BY <3>2, <3>3
    <2> HIDE DEF Older
    <2> QED
      BY <2>1, <2>2, <2>3
  <1>3. VersionsCount'
    BY <1>1, <1>2 DEF VersionsCount
  <1>4. ASSUME NEW step \in Steps, Trailing(step)
        PROVE  Trailing(step)'
    <2>1. step.session \in Sessions /\ step.version \in Nat
      BY DEF Steps
    <2> QED
      BY <1>1, <1>2, <1>4, <2>1 DEF Trailing, Running
  <1> QED
    BY <1>2, <1>3, <1>4

LEMMA AttemptsPersist ==
  ASSUME Quiet \/ Checked \/ \E s \in Sessions : Inserted(s) \/ Walk(s)
  PROVE  attempts \subseteq attempts'
  BY DEF Quiet, Checked, Inserted, Walk, WalkAwards, Records

LEMMA RuntimePersists ==
  ASSUME LessonInv, VersionsCount, [Next]_vars
  PROVE  LessonInv' /\ VersionsCount' /\ Persists
  <1>1. Quiet \/ Checked \/ \E s \in Sessions : Inserted(s) \/ Walk(s)
    BY NextIsOfItsKind DEF LessonInv, WalkInv, AttemptsBehind
  <1>2. LessonInv'
    BY LessonStep
  <1> QED
    BY <1>1, <1>2, SessionsPersist, AttemptsPersist DEF Persists

-----------------------------------------------------------------------------
(* The pages.                                                              *)

LEMMA ScreenIs ==
  ASSUME NEW page \in PageRows, NEW screen \in Screens
  PROVE  LET new == Screen(page, screen) IN
         /\ new.screen = screen /\ new.lesson = page.lesson
         /\ new.step = IF screen = "away" THEN NoStep ELSE page.step
         /\ new.key = NoKey /\ new.result = NoResult /\ new.call = "none"
         /\ new.access = IF screen = "tree" THEN page.access ELSE NoAccess
  BY DEF Screen, PageRows

LEMMA NothingIsTyped ==
  NoResult \in Results /\ NoAccess \in Accesses
  BY DEF NoResult, Results, NoAccess, Accesses

LEMMA ScreenType ==
  ASSUME NEW page \in PageRows, NEW screen \in Screens
  PROVE  Screen(page, screen) \in PageRows
  <1>1. /\ page.lesson \in Lessons /\ page.step \in Steps \cup {NoStep}
        /\ page.access \in Accesses
    BY DEF PageRows
  <1>2. /\ (IF screen = "away" THEN NoStep ELSE page.step) \in Steps \cup {NoStep}
        /\ (IF screen = "tree" THEN page.access ELSE NoAccess) \in Accesses
        /\ "none" \in Calls
    BY <1>1, NothingIsTyped DEF Calls
  <1> QED
    BY <1>1, <1>2, NothingIsTyped DEF PageRows, Screen

(* A page that shows no step, or the step it showed, and no verdict.       *)
LEMMA PlainPage ==
  ASSUME Persists, NEW old, PageOK(old), NEW new \in PageRows,
         new.step \in {old.step, NoStep},
         \/ new.key = NoKey
         \/ /\ new.key = old.key /\ old.screen # "feedback"
            /\ \A a \in attempts' \ attempts : a.key # old.key,
         new.screen \notin StepScreens \cup {"feedback", "complete"},
         new.screen = "checking" \/ new.call = "answer" => new.key # NoKey
  PROVE  PageOK(new)'
  <1>1. new.step # NoStep => Trailing(new.step)'
    <2>1. new.step # NoStep => new.step \in Steps /\ Trailing(new.step)
      BY DEF PageOK, PageRows
    <2> QED
      BY <2>1 DEF Persists
  <1>2. new.key # NoKey => \A a \in attempts' : a.key # new.key
    BY DEF PageOK
  <1>3. Questions \subseteq StepScreens
    BY DEF Questions, StepScreens, Kinds
  <1> QED
    BY <1>1, <1>2, <1>3 DEF PageOK

(* A page that goes on as it is.                                           *)
LEMMA SamePage ==
  ASSUME Persists, NEW old, PageOK(old), NEW new \in PageRows,
         new.step = old.step, new.key = old.key, new.result = old.result,
         new.screen = old.screen, old.call = new.call \/ new.call # "answer",
         old.key # NoKey => \A a \in attempts' \ attempts : a.key # old.key
  PROVE  PageOK(new)'
  <1>1. new.step # NoStep => Trailing(new.step)'
    <2>1. new.step # NoStep => new.step \in Steps /\ Trailing(new.step)
      BY DEF PageOK, PageRows
    <2> QED
      BY <2>1 DEF Persists
  <1>2. new.key # NoKey /\ new.screen # "feedback" => \A a \in attempts' : a.key # new.key
    BY DEF PageOK
  <1>3. new.screen = "feedback" => Recorded(new)'
    <2>1. new.screen = "feedback" => Recorded(old)
      BY DEF PageOK
    <2>2. \A step \in Steps : step.session \in Sessions
      BY DEF Steps
    <2> QED
      BY <2>1, <2>2 DEF Recorded, Persists
  <1>4. new.screen = "complete" =>
          \/ new.step.kind = "end"
          \/ new.step \in Steps /\ session'[new.step.session].status = "completed"
    BY DEF PageOK, Persists, Steps
  <1> QED
    BY <1>1, <1>2, <1>3, <1>4 DEF PageOK

-----------------------------------------------------------------------------
(* The step a page is given.                                               *)

LEMMA ViewType ==
  ASSUME NEW s \in Sessions, NEW row \in SessionRows, NEW entries, NEW r \in Revisions
  PROVE  LET view == StepView(s, row, entries, r) IN
         /\ view \in Steps
         /\ view.session = s /\ view.version = row.version /\ view.node = row.node
  <1> DEFINE kind == Graph[r][row.lesson].kind
             A == {i \in DOMAIN entries : entries[i].active}
             back == A # {} /\ \E i \in A \ {Latest(A)} : kind[entries[i].node] = "decision"
  <1>1. row.lesson \in Lessons /\ row.node \in Nodes /\ row.version \in Nat
    BY DEF SessionRows
  <1>2. kind[row.node] \in Kinds
    BY <1>1, GraphAssumption
  <1>3. back \in BOOLEAN
    OBVIOUS
  <1>4. StepView(s, row, entries, r) =
          [session |-> s, version |-> row.version, node |-> row.node,
           kind |-> kind[row.node], back |-> back]
    BY DEF StepView
  <1> HIDE DEF kind, back
  <1> QED
    BY <1>1, <1>2, <1>3, <1>4 DEF Steps

LEMMA OpenView ==
  ASSUME PlayerInv, NEW s \in Sessions, Running(s), NEW r \in Revisions
  PROVE  LET view == StepView(s, session[s], path[s], r) IN
         /\ view \in Steps /\ Trailing(view)
         /\ view.session = s /\ view.version = session[s].version
         /\ view.node = session[s].node
  <1>1. session[s] \in SessionRows
    BY Tables DEF PlayerInv, LessonInv, OpenInv
  <1> DEFINE view == StepView(s, session[s], path[s], r)
  <1>2. /\ view \in Steps
        /\ view.session = s /\ view.version = session[s].version
        /\ view.node = session[s].node
    BY <1>1, ViewType
  <1> HIDE DEF view
  <1>3. 1 <= session[s].version /\ session[s].version \in Nat
    BY <1>1 DEF PlayerInv, VersionsCount, Running, SessionRows
  <1>4. Trailing(view)
    BY <1>2, <1>3 DEF Trailing, Running
  <1> QED
    BY <1>2, <1>4 DEF view

LEMMA NewView ==
  ASSUME LessonInv', VersionsCount', NEW s \in Sessions, session'[s].status # "absent"
  PROVE  /\ NewViewOf(s) \in Steps /\ NewViewOf(s).session = s
         /\ NewViewOf(s).version = session'[s].version
         /\ NewViewOf(s).node = session'[s].node
         /\ session'[s].version \in Nat /\ 1 <= session'[s].version
  <1>1. session'[s] \in SessionRows
    BY DEF LessonInv, OpenInv, LessonTypeOK, SessionRows
  <1>2. session'[s].rev \in Revisions /\ session'[s].version \in Nat
    BY <1>1 DEF SessionRows
  <1> QED
    BY <1>1, <1>2, ViewType DEF NewViewOf, VersionsCount

(* A key is generated that no answer and no page has.                      *)
LEMMA KeyIsFresh ==
  ASSUME FreshKeys # {}, NEW kind
  PROVE  /\ kind \in Questions => generateIdempotencyKey(kind) \in FreshKeys
         /\ kind \notin Questions => generateIdempotencyKey(kind) = NoKey
  BY DEF generateIdempotencyKey

LEMMA FreshIsKey ==
  ASSUME NEW k \in FreshKeys
  PROVE  /\ k \in Keys /\ k # NoKey /\ \A a \in attempts : a.key # k
         /\ \A t \in Tabs : tab[t].key # k
  BY TabAssumption DEF FreshKeys

Entered(old, view, new) ==
  /\ new \in PageRows /\ new.lesson = old.lesson /\ new.step = view
  /\ new.screen = view.kind /\ new.call = "none"
  /\ new.key \in FreshKeys \cup {NoKey}
  /\ view.kind \in Questions => new.key # NoKey

LEMMA TransitionEnters ==
  ASSUME FreshKeys # {}, NEW old \in PageRows, NEW view \in Steps
  PROVE  Entered(old, view, transitionToStep(old, view))
  <1>1. view.kind \in Screens /\ view.kind \in StepScreens
    BY DEF Steps, Screens, StepScreens
  <1>2. PICK key : key = generateIdempotencyKey(view.kind)
    OBVIOUS
  <1>3. PICK page : page = Screen(old, view.kind)
    OBVIOUS
  <1>4. page \in PageRows /\ page.screen = view.kind /\ page.lesson = old.lesson
        /\ page.call = "none"
    BY <1>1, <1>3, ScreenIs, ScreenType
  <1>5. /\ key \in FreshKeys \cup {NoKey} /\ key \in Keys \cup {NoKey}
        /\ view.kind \in Questions => key # NoKey
    BY <1>2, KeyIsFresh, FreshIsKey
  <1>6. transitionToStep(old, view) = [page EXCEPT !.step = view, !.key = key]
    BY <1>2, <1>3 DEF transitionToStep
  <1>7. PICK new : new = [page EXCEPT !.step = view, !.key = key]
    OBVIOUS
  <1>8. /\ new.lesson = old.lesson /\ new.step = view /\ new.screen = view.kind
        /\ new.call = "none" /\ new.key = key
    BY <1>4, <1>7 DEF PageRows
  <1>9. new \in PageRows
    BY <1>4, <1>5, <1>7 DEF PageRows
  <1> QED
    BY <1>5, <1>6, <1>7, <1>8, <1>9 DEF Entered

LEMMA EnteredPage ==
  ASSUME NEW old, NEW view \in Steps, NEW new, Entered(old, view, new),
         view = NoStep \/ Trailing(view)', UNCHANGED attempts
  PROVE  PageOK(new)' /\ CallFits(new)
  <1>1. /\ new.screen \in Kinds
        /\ new.screen \in Questions => new.key # NoKey
    BY DEF Entered, Steps
  <1>2. new.screen \notin {"checking", "feedback", "complete", "loading"}
    BY <1>1 DEF Kinds
  <1>3. new.key # NoKey => \A a \in attempts' : a.key # new.key
    BY FreshIsKey DEF Entered
  <1>4. CallFits(new)
    BY <1>2 DEF Entered, CallFits
  <1>5. new \in PageRows /\ new.step = view /\ new.screen = view.kind /\ new.call = "none"
    BY DEF Entered
  <1> QED
    BY <1>1, <1>2, <1>3, <1>4, <1>5 DEF PageOK

-----------------------------------------------------------------------------
(* A step of one page.                                                     *)

Resumed(t, new) ==
  tab[t].screen = "loading" /\ new.screen \in StepScreens =>
    \A s \in OpenSessionOf(tab[t].lesson) :
      /\ new.step.session = s /\ new.step.node = session[s].node
      /\ new.step.version = session[s].version

PageChanges(t, new) ==
  /\ tab' = [tab EXCEPT ![t] = new]
  /\ PageOK(new)' /\ CallFits(new)
  /\ new.key \in {NoKey, tab[t].key} \cup FreshKeys
  /\ \A a \in attempts' \ attempts : a.key = tab[t].key /\ a.key # NoKey
  /\ Resumed(t, new)

PageMoves ==
  /\ OpenerWaits'
  /\ UNCHANGED <<tab, attempts>> \/ \E t \in Tabs : \E new : PageChanges(t, new)

LEMMA MovesKeep ==
  ASSUME PlayerInv, [Next]_vars, PageMoves
  PROVE  PlayerInv'
  <1>1. LessonInv' /\ VersionsCount' /\ Persists
    BY RuntimePersists DEF PlayerInv
  <1>2. tab \in [Tabs -> PageRows] /\ KeysApart
    BY DEF PlayerInv
  <1>3. ASSUME NEW u \in Tabs, NEW page \in PageRows, tab[u] = page, tab'[u] = page,
               page.key # NoKey => \A a \in attempts' \ attempts : a.key # page.key
        PROVE  PageOK(page)' /\ CallFits(page)
    <2>1. PageOK(page) /\ CallFits(page)
      BY <1>3 DEF PlayerInv
    <2> QED
      BY <1>1, <1>3, <2>1, SamePage
  <1>4. CASE UNCHANGED <<tab, attempts>>
    <2>1. \A u \in Tabs, page \in PageRows :
            tab'[u] = page => PageOK(page)' /\ CallFits(page)
      BY <1>3, <1>4
    <2>2. tab' \in [Tabs -> PageRows] /\ KeysApart'
      BY <1>2, <1>4 DEF KeysApart
    <2> QED
      BY <1>1, <2>1, <2>2 DEF PlayerInv, PageMoves
  <1>5. ASSUME NEW t \in Tabs, NEW new, PageChanges(t, new)
        PROVE  PlayerInv'
    <2>1. /\ tab' = [tab EXCEPT ![t] = new] /\ PageOK(new)' /\ CallFits(new)
          /\ new.key \in {NoKey, tab[t].key} \cup FreshKeys
          /\ \A a \in attempts' \ attempts : a.key = tab[t].key /\ a.key # NoKey
          /\ new \in PageRows
      BY <1>5 DEF PageChanges, PageOK
    <2>2. /\ tab' \in [Tabs -> PageRows] /\ tab'[t] = new
          /\ \A u \in Tabs \ {t} : tab'[u] = tab[u]
      BY <1>2, <2>1
    <2>3. ASSUME NEW u \in Tabs, NEW page \in PageRows, tab'[u] = page
          PROVE  PageOK(page)' /\ CallFits(page)
      <3>1. CASE u = t
        <4>1. new = page
          BY <2>2, <2>3, <3>1
        <4> QED
          BY <2>1, <4>1 DEF PageOK, Trailing, Recorded
      <3>2. CASE u # t
        <4>1. tab[u].key # NoKey => tab[u].key # tab[t].key
          BY <1>2, <3>2 DEF KeysApart
        <4>2. tab[u] = page /\ tab'[u] = page
          BY <2>2, <2>3, <3>2
        <4> QED
          BY <1>3, <2>1, <4>1, <4>2
      <3> QED
        BY <3>1, <3>2
    <2>4. KeysApart'
      <3>1. \A k \in FreshKeys : \A u \in Tabs : tab[u].key # k
        BY FreshIsKey
      <3>2. ASSUME NEW u \in Tabs, u # t
            PROVE  tab[u].key # NoKey => tab[u].key # new.key
        BY <1>2, <2>1, <3>1, <3>2 DEF KeysApart
      <3>3. ASSUME NEW u \in Tabs, NEW w \in Tabs, tab'[u].key # NoKey,
                   tab'[u].key = tab'[w].key
            PROVE  u = w
        BY <1>2, <2>2, <3>2, <3>3 DEF KeysApart
      <3> QED
        BY <3>3 DEF KeysApart
    <2> QED
      BY <1>1, <2>2, <2>3, <2>4 DEF PlayerInv, PageMoves
  <1> QED
    BY <1>4, <1>5 DEF PageMoves

LEMMA OpenerStays ==
  ASSUME PlayerInv, UNCHANGED <<opener, opening>>, NEW t \in Tabs, NEW new,
         tab' = [tab EXCEPT ![t] = new],
         \/ tab[t].call \notin {"start", "retry"}
         \/ opener # t
         \/ new.call = tab[t].call /\ new.lesson = tab[t].lesson
  PROVE  OpenerWaits'
  <1>1. tab \in [Tabs -> PageRows] /\ OpenerWaits
    BY DEF PlayerInv
  <1>2. tab'[t] = new /\ \A u \in Tabs \ {t} : tab'[u] = tab[u]
    BY <1>1
  <1>3. CASE opener = t
    <2>1. opener # NoTab
      BY <1>3, TabAssumption
    <2>2. new.call = tab[t].call /\ new.lesson = tab[t].lesson
      BY <1>1, <1>3, <2>1 DEF OpenerWaits
    <2> QED
      BY <1>1, <1>2, <1>3, <2>2 DEF OpenerWaits
  <1>4. CASE opener # t
    BY <1>1, <1>2, <1>4 DEF OpenerWaits
  <1> QED
    BY <1>3, <1>4

(* The page goes to a screen that shows neither a step nor a verdict.      *)
LEMMA PlainChange ==
  ASSUME PlayerInv, [Next]_vars, UNCHANGED attempts, NEW t \in Tabs,
         NEW new \in PageRows, tab' = [tab EXCEPT ![t] = new],
         new.step \in {tab[t].step, NoStep},
         new.key = NoKey \/ (new.key = tab[t].key /\ tab[t].screen # "feedback"),
         new.screen \notin StepScreens \cup {"feedback", "complete"},
         new.screen = "checking" \/ new.call = "answer" => new.key # NoKey,
         CallFits(new)
  PROVE  PageChanges(t, new)
  <1>1. PICK old : old = tab[t]
    OBVIOUS
  <1>2. PageOK(old) /\ Persists
    BY <1>1, RuntimePersists DEF PlayerInv
  <1>3. PageOK(new)'
    BY <1>1, <1>2, PlainPage
  <1>4. new.key \in {NoKey, tab[t].key} \cup FreshKeys
    OBVIOUS
  <1> QED
    BY <1>3, <1>4 DEF PageChanges, Resumed

(* The page only sends a request, or gives one up.                         *)
LEMMA CallChange ==
  ASSUME PlayerInv, [Next]_vars, UNCHANGED attempts, NEW t \in Tabs,
         NEW call \in Calls \ {"answer"}, tab' = [tab EXCEPT ![t].call = call],
         tab[t].screen \notin Questions \cup {"feedback"},
         tab[t].screen = "loading" => call \in {"session", "start"}
  PROVE  \E new : PageChanges(t, new) /\ new.call = call /\ new.lesson = tab[t].lesson
  <1>1. PICK old : old = tab[t]
    OBVIOUS
  <1>2. PageOK(old) /\ Persists /\ old \in PageRows
    BY <1>1, RuntimePersists DEF PlayerInv
  <1>3. PICK new : new = [old EXCEPT !.call = call]
    OBVIOUS
  <1>4. /\ new \in PageRows /\ new.call = call /\ new.lesson = old.lesson
        /\ new.step = old.step /\ new.key = old.key /\ new.result = old.result
        /\ new.screen = old.screen
    BY <1>2, <1>3 DEF PageRows
  <1>5. PageOK(new)'
    BY <1>2, <1>4, SamePage
  <1>6. CallFits(new)
    BY <1>1, <1>4 DEF CallFits
  <1>7. tab' = [tab EXCEPT ![t] = new]
    BY <1>1, <1>3
  <1>8. Resumed(t, new)
    <2>1. "loading" \notin StepScreens
      BY DEF StepScreens, Kinds
    <2> QED
      BY <1>1, <1>4, <2>1 DEF Resumed
  <1> QED
    BY <1>1, <1>4, <1>5, <1>6, <1>7, <1>8 DEF PageChanges

(* The page is given a step.                                               *)
LEMMA StepChange ==
  ASSUME PlayerInv, [Next]_vars, UNCHANGED attempts, NEW t \in Tabs, FreshKeys # {},
         NEW view \in Steps, view = NoStep \/ Trailing(view)',
         tab' = [tab EXCEPT ![t] = transitionToStep(tab[t], view)],
         tab[t].screen = "loading" =>
           \A s \in OpenSessionOf(tab[t].lesson) :
             /\ view.session = s /\ view.node = session[s].node
             /\ view.version = session[s].version
  PROVE  \E new : PageChanges(t, new)
  <1>1. PICK old : old = tab[t]
    OBVIOUS
  <1>2. old \in PageRows
    BY <1>1 DEF PlayerInv
  <1>3. PICK new : new = transitionToStep(old, view)
    OBVIOUS
  <1>4. Entered(old, view, new)
    BY <1>2, <1>3, TransitionEnters
  <1>5. PageOK(new)' /\ CallFits(new)
    BY <1>4, EnteredPage
  <1>6. tab' = [tab EXCEPT ![t] = new]
    BY <1>1, <1>3
  <1>7. Resumed(t, new)
    BY <1>4 DEF Resumed, Entered
  <1>8. new.key \in {NoKey, tab[t].key} \cup FreshKeys
    BY <1>4 DEF Entered
  <1> QED
    BY <1>5, <1>6, <1>7, <1>8 DEF PageChanges

(* The request fails.                                                      *)
LEMMA FailedChange ==
  ASSUME PlayerInv, [Next]_vars, NEW t \in Tabs, Failed(t),
         \A a \in attempts' \ attempts : a.key = tab[t].key /\ a.key # NoKey
  PROVE  \E new : PageChanges(t, new)
  <1>1. PICK old : old = tab[t]
    OBVIOUS
  <1>2. old \in PageRows /\ PageOK(old) /\ Persists
    BY <1>1, RuntimePersists DEF PlayerInv
  <1>3. PICK screen : screen = IF old.screen \in {"away", "tree"} THEN old.screen ELSE "error"
    OBVIOUS
  <1>4. screen \in {"away", "tree", "error"} /\ screen \in Screens
        /\ screen \notin StepScreens \cup Questions
    BY <1>3 DEF Screens, StepScreens, Kinds, Questions
  <1>5. PICK new : new = Screen(old, screen)
    OBVIOUS
  <1>6. /\ new \in PageRows /\ new.screen = screen /\ new.call = "none" /\ new.key = NoKey
        /\ new.step \in {old.step, NoStep}
    BY <1>2, <1>4, <1>5, ScreenIs, ScreenType
  <1>7. PageOK(new)'
    BY <1>2, <1>4, <1>6, PlainPage
  <1>8. tab' = [tab EXCEPT ![t] = new]
    BY <1>1, <1>3, <1>5 DEF Failed
  <1>9. CallFits(new)
    BY <1>4, <1>6 DEF CallFits
  <1>10. Resumed(t, new)
    BY <1>4, <1>6 DEF Resumed
  <1> QED
    BY <1>6, <1>7, <1>8, <1>9, <1>10 DEF PageChanges

-----------------------------------------------------------------------------
(* Every step of the player.                                               *)

(* What the steps below show: the tables take a step of the runtime, and   *)
(* one page changes.                                                       *)
Moves == [Next]_vars /\ PageMoves

LEMMA ChangeMoves ==
  ASSUME PlayerInv, [Next]_vars, UNCHANGED <<opener, opening>>, NEW t \in Tabs, NEW new,
         PageChanges(t, new),
         \/ tab[t].call \notin {"start", "retry"}
         \/ opener # t
         \/ new.call = tab[t].call /\ new.lesson = tab[t].lesson
  PROVE  Moves
  <1>1. tab' = [tab EXCEPT ![t] = new]
    BY DEF PageChanges
  <1>2. OpenerWaits'
    BY <1>1, OpenerStays
  <1> QED
    BY <1>2 DEF Moves, PageMoves

LEMMA PageFits ==
  ASSUME PlayerInv, NEW t \in Tabs
  PROVE  /\ tab[t] \in PageRows /\ tab \in [Tabs -> PageRows]
         /\ tab[t].screen \in Questions \cup {"feedback"} => tab[t].call = "none"
         /\ tab[t].screen = "loading" => tab[t].call \in {"session", "start"}
         /\ tab[t].screen \in StepScreens =>
              tab[t].step \in Steps /\ tab[t].step.kind = tab[t].screen
         /\ tab[t].screen \in Questions \cup {"checking"} \/ tab[t].call = "answer" =>
              tab[t].key # NoKey
         /\ tab[t].screen = "feedback" => Recorded(tab[t])
         /\ tab[t].step # NoStep => tab[t].step \in Steps /\ Trailing(tab[t].step)
  <1>1. PICK page \in PageRows : page = tab[t]
    BY DEF PlayerInv
  <1>2. PageOK(page) /\ CallFits(page) /\ tab \in [Tabs -> PageRows]
    BY <1>1 DEF PlayerInv
  <1> QED
    BY <1>1, <1>2 DEF PageOK, CallFits, PageRows

LEMMA AskMoves ==
  ASSUME PlayerInv, NEW t \in Tabs, NEW call \in {"next", "decision", "back", "retry"},
         Ask(t, call), tab[t].screen \in {"story", "decision", "end", "complete"}
  PROVE  Moves
  <1>1. /\ tab[t].call = "none" /\ tab' = [tab EXCEPT ![t].call = call]
        /\ UNCHANGED <<vars, opener>>
    BY DEF Ask
  <1>2. [Next]_vars /\ UNCHANGED <<opener, opening, attempts>>
    BY <1>1 DEF vars
  <1>3. call \in Calls \ {"answer"} /\ tab[t].screen \notin Questions \cup {"feedback"}
        /\ tab[t].screen # "loading"
    BY DEF Calls, Walks, Questions
  <1>4. PICK new : PageChanges(t, new)
    BY <1>1, <1>2, <1>3, CallChange
  <1> QED
    BY <1>1, <1>2, <1>4, ChangeMoves

(* The page goes to a plain screen, by itself or with a step of the tables *)
(* that leaves answers and openings alone.                                 *)
LEMMA PlainMoves ==
  ASSUME PlayerInv, [Next]_vars, UNCHANGED <<opener, opening, attempts>>, NEW t \in Tabs,
         tab[t].call \notin {"start", "retry"},
         NEW screen \in {"tree", "loading"},
         NEW new \in PageRows, new.screen = screen, new.step \in {tab[t].step, NoStep},
         new.key = NoKey, new.call = IF screen = "loading" THEN "session" ELSE "none",
         tab' = [tab EXCEPT ![t] = new]
  PROVE  Moves
  <1>1. /\ new.screen \notin StepScreens \cup {"feedback", "complete", "checking"}
        /\ new.call # "answer" /\ CallFits(new)
    BY DEF StepScreens, Kinds, CallFits, Questions
  <1>2. PageChanges(t, new)
    BY <1>1, PlainChange
  <1> QED
    BY <1>2, ChangeMoves

LEMMA LoadingMoves ==
  ASSUME PlayerInv, NEW t \in Tabs, NEW l \in Lessons, tab[t].call = "none",
         tab' = [tab EXCEPT ![t] = Loading(t, l)], UNCHANGED <<vars, opener>>
  PROVE  Moves
  <1>1. PICK page : page = Screen(tab[t], "loading")
    OBVIOUS
  <1>2. page \in PageRows /\ page.screen = "loading" /\ page.key = NoKey
        /\ page.step = tab[t].step
    BY <1>1, PageFits, ScreenIs, ScreenType DEF Screens
  <1>3. PICK new : new = [page EXCEPT !.lesson = l, !.call = "session"]
    OBVIOUS
  <1>4. /\ new \in PageRows /\ new.screen = "loading" /\ new.key = NoKey
        /\ new.step = tab[t].step /\ new.call = "session"
    BY <1>2, <1>3 DEF PageRows, Calls
  <1>5. tab' = [tab EXCEPT ![t] = new]
    BY <1>1, <1>3 DEF Loading
  <1>6. [Next]_vars /\ UNCHANGED <<opener, opening, attempts>>
    BY DEF vars
  <1> QED
    BY <1>4, <1>5, <1>6, PlainMoves

LEMMA CourseTreeMoves ==
  ASSUME PlayerInv, NEW t \in Tabs, CourseTree(t)
  PROVE  Moves
  <1>1. PICK access : access = [l \in Lessons |-> AccessState(l)]
    OBVIOUS
  <1>2. access \in Accesses
    BY <1>1 DEF Accesses, AccessState
  <1>3. PICK page : page = Screen(tab[t], "tree")
    OBVIOUS
  <1>4. /\ page \in PageRows /\ page.screen = "tree" /\ page.key = NoKey
        /\ page.call = "none"
    BY <1>3, PageFits, ScreenIs, ScreenType DEF Screens
  <1>5. PICK new : new = [page EXCEPT !.step = NoStep, !.access = access]
    OBVIOUS
  <1>6. /\ new \in PageRows /\ new.screen = "tree" /\ new.key = NoKey
        /\ new.step = NoStep /\ new.call = "none"
    BY <1>2, <1>4, <1>5 DEF PageRows
  <1>7. /\ tab' = [tab EXCEPT ![t] = new] /\ tab[t].call = "none"
        /\ UNCHANGED <<vars, opener>>
    BY <1>1, <1>3, <1>5 DEF CourseTree, TabIsFree
  <1>8. [Next]_vars /\ UNCHANGED <<opener, opening, attempts>>
    BY <1>7 DEF vars
  <1> QED
    BY <1>6, <1>7, <1>8, PlainMoves

LEMMA RetryAskedMoves ==
  ASSUME PlayerInv, NEW t \in Tabs, NEW l \in Lessons, handleRetryTree(t, l),
         tab[t].screen = "tree", tab[t].call = "none"
  PROVE  Moves
  <1>1. [Next]_vars /\ UNCHANGED <<opener, opening, attempts>>
    BY DEF handleRetryTree, vars
  <1>2. PICK old : old = tab[t]
    OBVIOUS
  <1>3. old \in PageRows /\ PageOK(old) /\ Persists
    BY <1>1, <1>2, RuntimePersists DEF PlayerInv
  <1>4. PICK new : new = [old EXCEPT !.lesson = l, !.call = "retry"]
    OBVIOUS
  <1>5. /\ new \in PageRows /\ new.screen = "tree" /\ new.key = old.key
        /\ new.step = old.step /\ new.result = old.result /\ new.call = "retry"
    BY <1>2, <1>3, <1>4 DEF PageRows, Calls
  <1>6. PageOK(new)'
    BY <1>1, <1>2, <1>3, <1>5, SamePage
  <1>7. CallFits(new)
    BY <1>5 DEF CallFits, Questions
  <1>8. tab' = [tab EXCEPT ![t] = new]
    BY <1>2, <1>4 DEF handleRetryTree
  <1>9. PageChanges(t, new)
    BY <1>1, <1>2, <1>5, <1>6, <1>7, <1>8 DEF PageChanges, Resumed
  <1> QED
    BY <1>1, <1>9, ChangeMoves

LEMMA SubmitMoves ==
  ASSUME PlayerInv, NEW t \in Tabs, handleSubmitAnswer(t), tab[t].screen \in Questions
  PROVE  Moves
  <1>1. [Next]_vars /\ UNCHANGED <<opener, opening, attempts>>
    BY DEF handleSubmitAnswer, vars
  <1>2. PICK old : old = tab[t]
    OBVIOUS
  <1>3. old \in PageRows /\ old.call = "none" /\ old.key # NoKey /\ old.screen # "feedback"
    BY <1>2, PageFits DEF Questions
  <1>4. PICK new : new = [old EXCEPT !.call = "answer", !.screen = "checking"]
    OBVIOUS
  <1>5. /\ new \in PageRows /\ new.screen = "checking" /\ new.key = old.key
        /\ new.step = old.step /\ new.call = "answer"
    BY <1>3, <1>4 DEF PageRows, Calls, Walks, Screens
  <1>6. CallFits(new) /\ new.screen \notin StepScreens \cup {"feedback", "complete"}
    BY <1>5 DEF CallFits, Questions, StepScreens, Kinds
  <1>7. tab' = [tab EXCEPT ![t] = new]
    BY <1>2, <1>4 DEF handleSubmitAnswer
  <1>8. PageChanges(t, new)
    BY <1>1, <1>2, <1>3, <1>5, <1>6, <1>7, PlainChange
  <1> QED
    BY <1>1, <1>2, <1>3, <1>8, ChangeMoves

LEMMA CompleteMoves ==
  ASSUME PlayerInv, NEW t \in Tabs, tab[t].call = "none", UNCHANGED <<vars, opener>>,
         tab' = [tab EXCEPT ![t] = Screen(tab[t], "complete")],
         \/ tab[t].step.kind = "end"
         \/ tab[t].step \in Steps /\ session[tab[t].step.session].status = "completed"
  PROVE  Moves
  <1>1. [Next]_vars /\ UNCHANGED <<opener, opening, attempts, session>>
    BY DEF vars
  <1>2. PICK old : old = tab[t]
    OBVIOUS
  <1>3. old \in PageRows /\ PageOK(old) /\ Persists
    BY <1>1, <1>2, RuntimePersists DEF PlayerInv
  <1>4. PICK new : new = Screen(old, "complete")
    OBVIOUS
  <1>5. /\ new \in PageRows /\ new.screen = "complete" /\ new.key = NoKey
        /\ new.step = old.step /\ new.call = "none"
    BY <1>3, <1>4, ScreenIs, ScreenType DEF Screens
  <1>6. PageOK(new)'
    <2>1. new.step # NoStep => Trailing(new.step)'
      BY <1>3, <1>5 DEF PageOK, PageRows, Persists
    <2>2. "complete" \notin StepScreens \cup Questions
      BY DEF StepScreens, Kinds, Questions
    <2> QED
      BY <1>1, <1>2, <1>5, <2>1, <2>2 DEF PageOK
  <1>7. CallFits(new)
    BY <1>5 DEF CallFits
  <1>8. tab' = [tab EXCEPT ![t] = new]
    BY <1>2, <1>4
  <1>9. PageChanges(t, new)
    <2>1. "complete" \notin StepScreens
      BY DEF StepScreens, Kinds
    <2> QED
      BY <1>1, <1>5, <1>6, <1>7, <1>8, <2>1 DEF PageChanges, Resumed
  <1> QED
    BY <1>1, <1>9, ChangeMoves

LEMMA FeedbackMoves ==
  ASSUME PlayerInv, NEW t \in Tabs, handleFeedbackNext(t), tab[t].screen = "feedback"
  PROVE  Moves
  <1>1. /\ tab[t].call = "none" /\ Recorded(tab[t]) /\ tab[t] \in PageRows
        /\ tab[t].step # NoStep => Trailing(tab[t].step)
    BY PageFits
  <1>2. [Next]_vars /\ UNCHANGED <<opener, opening, attempts, session, vars>>
    BY DEF handleFeedbackNext, vars
  <1>3. CASE tab[t].result.done
    <2>1. tab' = [tab EXCEPT ![t] = Screen(tab[t], "complete")]
      BY <1>3 DEF handleFeedbackNext
    <2>2. tab[t].step \in Steps /\ session[tab[t].step.session].status = "completed"
      BY <1>1, <1>3 DEF Recorded
    <2> QED
      BY <1>1, <1>2, <2>1, <2>2, CompleteMoves
  <1>4. CASE ~tab[t].result.done
    <2>1. /\ FreshKeys # {} /\ tab' = [tab EXCEPT ![t] = transitionToStep(tab[t], tab[t].step)]
      BY <1>4 DEF handleFeedbackNext
    <2>2. PICK view : view = tab[t].step
      OBVIOUS
    <2>3. view \in Steps /\ (view = NoStep \/ Trailing(view)')
      <3>1. view \in Steps /\ (view # NoStep => Trailing(view))
        BY <1>1, <2>2 DEF Recorded
      <3>2. Persists
        BY <1>2, RuntimePersists DEF PlayerInv
      <3> QED
        BY <3>1, <3>2 DEF Persists
    <2>4. PICK new : PageChanges(t, new)
      BY <1>2, <2>1, <2>2, <2>3, StepChange
    <2> QED
      BY <1>1, <1>2, <2>4, ChangeMoves
  <1> QED
    BY <1>3, <1>4

(* The page is gone, and what it has sent goes on without it.              *)
LEMMA GoneMoves ==
  ASSUME PlayerInv, NEW t \in Tabs, UNCHANGED <<vars, opener>>,
         NEW exit \in Sessions \cup {NoStep},
         tab' = [tab EXCEPT ![t] = [Gone(tab[t]) EXCEPT !.exit = exit]]
  PROVE  Moves
  <1>1. [Next]_vars /\ UNCHANGED <<opener, opening, attempts>>
    BY DEF vars
  <1>2. PICK page : page = Screen(tab[t], "away")
    OBVIOUS
  <1>3. /\ page \in PageRows /\ page.screen = "away" /\ page.lesson = tab[t].lesson
    BY <1>2, PageFits, ScreenIs, ScreenType DEF Screens
  <1>4. PICK call : call = IF tab[t].call = "session" THEN "none" ELSE tab[t].call
    OBVIOUS
  <1>5. PICK step : step = IF tab[t].call \in Walks THEN tab[t].step ELSE NoStep
    OBVIOUS
  <1>6. PICK key : key = IF tab[t].call = "answer" THEN tab[t].key ELSE NoKey
    OBVIOUS
  <1>7. /\ call \in Calls /\ step \in Steps \cup {NoStep} /\ key \in Keys \cup {NoKey}
        /\ step \in {tab[t].step, NoStep}
        /\ key = NoKey \/ (key = tab[t].key /\ tab[t].screen # "feedback")
        /\ call = "answer" => key # NoKey
        /\ tab[t].call \in {"start", "retry"} => call = tab[t].call
    <2>1. tab[t] \in PageRows
      BY PageFits
    <2>2. call \in Calls /\ step \in Steps \cup {NoStep} /\ key \in Keys \cup {NoKey}
          /\ step \in {tab[t].step, NoStep}
      BY <1>4, <1>5, <1>6, <2>1 DEF PageRows, Calls
    <2>3. key = NoKey \/ (key = tab[t].key /\ tab[t].screen # "feedback")
      BY <1>6, PageFits
    <2>4. call = "answer" => key # NoKey
      BY <1>4, <1>6, PageFits
    <2> QED
      BY <1>4, <2>2, <2>3, <2>4
  <1>8. PICK gone : gone = [page EXCEPT !.call = call, !.step = step, !.key = key]
    OBVIOUS
  <1>9. gone = Gone(tab[t])
    BY <1>2, <1>4, <1>5, <1>6, <1>8 DEF Gone
  <1>10. /\ gone.screen = "away" /\ gone.lesson = tab[t].lesson /\ gone.call = call
         /\ gone.step = step /\ gone.key = key /\ gone \in PageRows
    BY <1>3, <1>7, <1>8 DEF PageRows
  <1>11. PICK new : new = [gone EXCEPT !.exit = exit]
    OBVIOUS
  <1>12. /\ new.screen = "away" /\ new.lesson = tab[t].lesson /\ new.call = call
         /\ new.step = step /\ new.key = key /\ new \in PageRows
    BY <1>10, <1>11 DEF PageRows
  <1>13. tab' = [tab EXCEPT ![t] = new]
    BY <1>9, <1>11
  <1>14. CallFits(new) /\ new.screen \notin StepScreens \cup {"feedback", "complete", "checking"}
    BY <1>12 DEF CallFits, Questions, StepScreens, Kinds
  <1>15. PageChanges(t, new)
    BY <1>1, <1>7, <1>12, <1>13, <1>14, PlainChange
  <1> QED
    BY <1>1, <1>7, <1>12, <1>15, ChangeMoves

LEMMA NavigateMoves ==
  ASSUME PlayerInv, NEW t \in Tabs, navigateAway(t)
  PROVE  Moves
  <1>1. tab[t] \in PageRows
    BY PageFits
  <1>2. PICK exit : exit = tab[t].exit
    OBVIOUS
  <1>3. exit \in Sessions \cup {NoStep}
    BY <1>1, <1>2 DEF PageRows
  <1>4. Gone(tab[t]) = [Gone(tab[t]) EXCEPT !.exit = exit]
    <2>1. PICK page : page = Screen(tab[t], "away")
      OBVIOUS
    <2>2. page \in PageRows /\ page.exit = exit
      <3>1. page \in PageRows
        BY <1>1, <2>1, ScreenType DEF Screens
      <3>2. page.exit = exit
        BY <1>1, <1>2, <2>1 DEF Screen, PageRows
      <3> QED
        BY <3>1, <3>2
    <2>3. ASSUME NEW call, NEW step, NEW key
          PROVE  LET gone == [page EXCEPT !.call = call, !.step = step, !.key = key] IN
                 gone = [gone EXCEPT !.exit = exit]
      BY <2>2 DEF PageRows
    <2> QED
      BY <2>1, <2>3 DEF Gone
  <1> QED
    BY <1>3, <1>4, GoneMoves DEF navigateAway

(* The page awaits an abandonment, and is otherwise as it was.             *)
LEMMA ExitAskedMoves ==
  ASSUME PlayerInv, NEW t \in Tabs, NEW s \in Sessions, UNCHANGED <<vars, opener>>,
         tab' = [tab EXCEPT ![t].exit = s]
  PROVE  Moves
  <1>1. [Next]_vars /\ UNCHANGED <<opener, opening, attempts>>
    BY DEF vars
  <1>2. PICK old : old = tab[t]
    OBVIOUS
  <1>3. old \in PageRows /\ PageOK(old) /\ CallFits(old) /\ Persists
    BY <1>1, <1>2, RuntimePersists DEF PlayerInv
  <1>4. PICK new : new = [old EXCEPT !.exit = s]
    OBVIOUS
  <1>5. /\ new \in PageRows /\ new.screen = old.screen /\ new.key = old.key
        /\ new.step = old.step /\ new.result = old.result /\ new.call = old.call
        /\ new.lesson = old.lesson
    BY <1>3, <1>4 DEF PageRows
  <1>6. PageOK(new)'
    BY <1>1, <1>3, <1>5, SamePage
  <1>7. CallFits(new)
    BY <1>3, <1>5 DEF CallFits
  <1>8. tab' = [tab EXCEPT ![t] = new]
    BY <1>2, <1>4
  <1>9. Resumed(t, new)
    <2>1. old.screen = "loading" => old.screen \notin StepScreens
      BY DEF StepScreens, Kinds
    <2> QED
      BY <1>2, <1>5, <2>1 DEF Resumed
  <1>10. PageChanges(t, new)
    BY <1>1, <1>2, <1>5, <1>6, <1>7, <1>8, <1>9 DEF PageChanges
  <1> QED
    BY <1>1, <1>2, <1>5, <1>10, ChangeMoves

LEMMA CloseMoves ==
  ASSUME PlayerInv, NEW t \in Tabs, handleClose(t)
  PROVE  Moves
  <1>1. CASE navigateAway(t)
    BY <1>1, NavigateMoves
  <1>2. CASE tab[t].step # NoStep /\ handleConfirmExit(t)
    <2>1. tab[t].step.session \in Sessions
      BY <1>2, PageFits DEF Steps
    <2> QED
      BY <1>2, <2>1, ExitAskedMoves DEF handleConfirmExit
  <1> QED
    BY <1>1, <1>2 DEF handleClose, handleConfirmExit

(* The abandonment is handled, or the page is left.                        *)
LEMMA ExitMoves ==
  ASSUME PlayerInv, NEW t \in Tabs, AbandonHandled(t) \/ ExitGoesAhead(t)
  PROVE  Moves
  <1>1. CASE AbandonHandled(t)
    <2>1. tab[t].exit \in Sessions
      BY <1>1, PageFits DEF AbandonHandled, PageRows
    <2>2. Next /\ UNCHANGED <<opener, opening, attempts, tab>>
      BY <1>1, <2>1 DEF AbandonHandled, AbandonSession, Next
    <2> QED
      BY <2>2 DEF Moves, PageMoves, PlayerInv, OpenerWaits
  <1>2. CASE ExitGoesAhead(t)
    BY <1>2, GoneMoves DEF ExitGoesAhead
  <1> QED
    BY <1>1, <1>2

LEMMA EndCompleteMoves ==
  ASSUME PlayerInv, NEW t \in Tabs, tab[t].screen = "end", handleEndComplete(t)
  PROVE  Moves
  <1>1. tab[t].step.kind = "end"
    BY PageFits DEF StepScreens, Kinds
  <1> QED
    BY <1>1, CompleteMoves DEF handleEndComplete

LEMMA PageStepMoves ==
  ASSUME PlayerInv, NEW t \in Tabs, PageStep(t)
  PROVE  Moves
  <1>1. CASE CourseTree(t)
    BY <1>1, CourseTreeMoves
  <1>2. ASSUME NEW l \in Lessons, LessonNodeItem(t, l)
        PROVE  Moves
    BY <1>2, LoadingMoves, RetryAskedMoves DEF LessonNodeItem, handleStart
  <1>3. ASSUME NEW l \in Lessons, InitSession(t, l)
        PROVE  Moves
    BY <1>3, LoadingMoves DEF InitSession
  <1>4. CASE CloseTab(t)
    BY <1>4, NavigateMoves DEF CloseTab
  <1>5. CASE Player(t)
    <2>1. CASE StoryScreen(t) \/ DecisionScreen(t) \/ CompleteScreen(t)
      BY <2>1, AskMoves DEF StoryScreen, DecisionScreen, CompleteScreen,
         handleStoryNext, handleDecision, handleGoBack, handleRetry
    <2>2. CASE SingleChoiceScreen(t) \/ FreeTextScreen(t)
      BY <2>2, SubmitMoves DEF SingleChoiceScreen, FreeTextScreen, Questions
    <2>3. CASE EndScreen(t)
      BY <2>3, AskMoves, EndCompleteMoves DEF EndScreen, handleGoBack
    <2>4. CASE FeedbackScreen(t)
      BY <2>4, FeedbackMoves DEF FeedbackScreen
    <2>5. CASE ErrorScreen(t)
      <3>1. tab[t].lesson \in Lessons
        BY PageFits DEF PageRows
      <3> QED
        BY <1>3, <2>5, <3>1 DEF ErrorScreen
    <2>6. CASE TopBar(t)
      BY <2>6, CloseMoves DEF TopBar
    <2> QED
      BY <1>5, <2>1, <2>2, <2>3, <2>4, <2>5, <2>6 DEF Player
  <1> QED
    BY <1>1, <1>2, <1>3, <1>4, <1>5 DEF PageStep

LEMMA FailedMoves ==
  ASSUME PlayerInv, [Next]_vars, UNCHANGED <<opener, opening, attempts>>,
         NEW t \in Tabs, Failed(t), tab[t].call \notin {"start", "retry"} \/ opener # t
  PROVE  Moves
  <1>1. PICK new : PageChanges(t, new)
    BY FailedChange
  <1> QED
    BY <1>1, ChangeMoves

LEMMA SessionFoundMoves ==
  ASSUME PlayerInv, NEW t \in Tabs, SessionByCourseLesson(t)
  PROVE  Moves
  <1>1. [Next]_vars /\ UNCHANGED <<opener, opening, attempts>> /\ tab[t].call = "session"
    BY DEF SessionByCourseLesson, Sent, vars
  <1>2. PICK s \in OpenSessionOf(tab[t].lesson) : Answered(t, transitionToStep(tab[t], ViewOf(s)))
    BY DEF SessionByCourseLesson
  <1>3. CASE Failed(t)
    BY <1>1, <1>3, FailedMoves
  <1>4. CASE FreshKeys # {} /\ tab' = [tab EXCEPT ![t] = transitionToStep(tab[t], ViewOf(s))]
    <2>1. PICK view : view = ViewOf(s)
      OBVIOUS
    <2>2. s \in Sessions /\ Running(s) /\ session[s].rev \in Revisions
      <3>1. s \in Sessions /\ Running(s)
        BY <1>2 DEF OpenSessionOf
      <3>2. session[s] \in SessionRows
        BY <3>1, Tables DEF PlayerInv, LessonInv, OpenInv
      <3> QED
        BY <3>1, <3>2 DEF SessionRows
    <2>3. /\ view \in Steps /\ Trailing(view) /\ view.session = s
          /\ view.version = session[s].version /\ view.node = session[s].node
      BY <2>1, <2>2, OpenView DEF ViewOf
    <2>4. Trailing(view)'
      BY <1>1, <2>3, RuntimePersists DEF PlayerInv, Persists
    <2>5. \A u \in OpenSessionOf(tab[t].lesson) : u = s
      BY <1>2 DEF PlayerInv, LessonInv, OpenInv, OneOpenSession, OpenSessionOf
    <2>6. PICK new : PageChanges(t, new)
      BY <1>1, <1>4, <2>1, <2>3, <2>4, <2>5, StepChange
    <2> QED
      BY <1>1, <2>6, ChangeMoves
  <1> QED
    BY <1>2, <1>3, <1>4 DEF Answered

LEMMA SessionFailsMoves ==
  ASSUME PlayerInv, NEW t \in Tabs, SessionFails(t)
  PROVE  Moves
  <1>1. [Next]_vars /\ UNCHANGED <<opener, opening, attempts>> /\ tab[t].call = "session"
    BY DEF SessionFails, Sent, vars
  <1>2. PICK call : call = IF tab[t].screen = "away" THEN "none" ELSE "start"
    OBVIOUS
  <1>3. /\ call \in Calls \ {"answer"} /\ tab' = [tab EXCEPT ![t].call = call]
        /\ tab[t].screen = "loading" => call \in {"session", "start"}
    BY <1>2 DEF Calls, SessionFails
  <1>4. tab[t].screen \notin Questions \cup {"feedback"}
    BY <1>1, PageFits
  <1>5. PICK new : PageChanges(t, new)
    BY <1>1, <1>3, <1>4, CallChange
  <1> QED
    BY <1>1, <1>5, ChangeMoves

(* The start is answered, whether or not it was looking.                   *)
LEMMA LookingStops ==
  ASSUME PlayerInv, NEW t \in Tabs, looking' = looking \ {<<t, tab[t].lesson>>},
         UNCHANGED <<current, open, progress, lp, session, path, attempts, xp, opening>>
  PROVE  [Next]_vars
  <1>1. PICK l : l = tab[t].lesson
    OBVIOUS
  <1>2. l \in Lessons /\ t \in Starts
    BY <1>1, PageFits, TabAssumption DEF PageRows
  <1>3. CASE <<t, l>> \in looking
    BY <1>1, <1>2, <1>3 DEF Next, OpeningStep, StopLooking
  <1>4. CASE <<t, l>> \notin looking
    <2>1. looking' = looking
      BY <1>1, <1>4
    <2> QED
      BY <2>1 DEF vars
  <1> QED
    BY <1>3, <1>4

LEMMA StartReturnsMoves ==
  ASSUME PlayerInv, NEW t \in Tabs, StartReturnsOpen(t)
  PROVE  Moves
  <1>1. /\ UNCHANGED <<opener, opening, attempts>> /\ tab[t].call = "start"
        /\ opening = Idle /\ opener # t
    <2>1. /\ UNCHANGED <<opener, opening, attempts>> /\ tab[t].call = "start"
          /\ opening = Idle
      BY DEF StartReturnsOpen, Sent, GameStateFree
    <2> QED
      BY <2>1, TabAssumption DEF PlayerInv, OpenerWaits
  <1>2. [Next]_vars
    BY LookingStops DEF StartReturnsOpen
  <1>3. PICK s \in OpenSessionOf(tab[t].lesson) :
          Answered(t, transitionToStep(tab[t], StepView(s, session[s], path[s], Resolved)))
    BY DEF StartReturnsOpen
  <1>4. CASE Failed(t)
    BY <1>1, <1>2, <1>4, FailedMoves
  <1>5. CASE /\ FreshKeys # {}
             /\ tab' = [tab EXCEPT ![t] =
                  transitionToStep(tab[t], StepView(s, session[s], path[s], Resolved))]
    <2>1. PICK r : r = Resolved
      OBVIOUS
    <2>2. PICK view : view = StepView(s, session[s], path[s], r)
      OBVIOUS
    <2>3. s \in Sessions /\ Running(s) /\ r \in Revisions
      BY <1>3, <2>1, ResolvedIsRevision DEF OpenSessionOf, PlayerInv, LessonInv
    <2>4. /\ view \in Steps /\ Trailing(view) /\ view.session = s
          /\ view.version = session[s].version /\ view.node = session[s].node
      BY <2>2, <2>3, OpenView
    <2>5. Trailing(view)'
      BY <1>2, <2>4, RuntimePersists DEF PlayerInv, Persists
    <2>6. \A u \in OpenSessionOf(tab[t].lesson) : u = s
      BY <1>3 DEF PlayerInv, LessonInv, OpenInv, OneOpenSession, OpenSessionOf
    <2>7. PICK new : PageChanges(t, new)
      BY <1>1, <1>2, <1>5, <2>1, <2>2, <2>4, <2>5, <2>6, StepChange
    <2> QED
      BY <1>1, <1>2, <2>7, ChangeMoves
  <1> QED
    BY <1>3, <1>4, <1>5 DEF Answered

(* The checks are done, or were not needed, and the page waits on.         *)
LEMMA OpenerMoves ==
  ASSUME PlayerInv, [Next]_vars, UNCHANGED <<tab, attempts>>, OpenerWaits'
  PROVE  Moves
  BY DEF Moves, PageMoves

LEMMA StartChecksMoves ==
  ASSUME PlayerInv, NEW t \in Tabs, StartChecks(t)
  PROVE  Moves
  <1>1. PICK l : l = tab[t].lesson
    OBVIOUS
  <1>2. l \in Lessons /\ t \in Starts /\ tab[t].call = "start" /\ UNCHANGED tab
        /\ t # NoTab
    BY <1>1, PageFits, TabAssumption DEF PageRows, StartChecks
  <1>3. CASE LookForProgress(t, l) /\ UNCHANGED opener
    <2>1. Next /\ UNCHANGED <<attempts, opening>>
      BY <1>2, <1>3 DEF Next, OpeningStep, LookForProgress
    <2>2. OpenerWaits'
      BY <1>2, <1>3, <2>1 DEF PlayerInv, OpenerWaits
    <2> QED
      BY <1>2, <2>1, <2>2, OpenerMoves
  <1>4. ASSUME NEW r \in Revisions, NEW fresh, CheckStart(l, r, fresh), opener' = t, Next
        PROVE  Moves
    <2>1. /\ opening' = [lesson |-> l, rev |-> r, replay |-> FALSE, fresh |-> fresh]
          /\ UNCHANGED attempts
      BY <1>4 DEF CheckStart
    <2>2. r # 0
      BY <1>4, BoundAssumption
    <2>3. opening' # Idle
      BY <2>1, <2>2 DEF Idle
    <2>4. OpenerWaits'
      BY <1>1, <1>2, <1>4, <2>1, <2>3 DEF OpenerWaits
    <2> QED
      BY <1>2, <1>4, <2>1, <2>4, OpenerMoves
  <1>5. CASE StartInProgress(l) /\ opener' = t
    <2>1. Next
      BY <1>2, <1>5 DEF Next, OpeningStep
    <2>2. Resolved \in Revisions
      BY ResolvedIsRevision DEF PlayerInv, LessonInv
    <2> QED
      BY <1>4, <1>5, <2>1, <2>2 DEF StartInProgress
  <1>6. CASE StartPublished(t, l) /\ opener' = t
    <2>1. Next
      BY <1>2, <1>6 DEF Next, OpeningStep
    <2>2. current \in Revisions
      BY DEF PlayerInv, LessonInv, OpenInv, LessonTypeOK
    <2> QED
      BY <1>4, <1>6, <2>1, <2>2 DEF StartPublished
  <1> QED
    BY <1>1, <1>3, <1>5, <1>6 DEF StartChecks

LEMMA RetryChecksMoves ==
  ASSUME PlayerInv, NEW t \in Tabs, RetryChecks(t)
  PROVE  Moves
  <1>1. PICK l : l = tab[t].lesson
    OBVIOUS
  <1>2. /\ l \in Lessons /\ tab[t].call = "retry" /\ UNCHANGED tab /\ opener' = t
        /\ t # NoTab /\ CheckRetry(l)
    BY <1>1, PageFits, TabAssumption DEF PageRows, RetryChecks
  <1>3. Next
    BY <1>2 DEF Next, OpeningStep
  <1>4. /\ opening'.lesson = l /\ opening'.replay /\ UNCHANGED attempts
    BY <1>2 DEF CheckRetry
  <1>5. opening' # Idle
    BY <1>4 DEF Idle
  <1>6. OpenerWaits'
    BY <1>1, <1>2, <1>4, <1>5 DEF OpenerWaits
  <1> QED
    BY <1>2, <1>3, <1>4, <1>6, OpenerMoves

LEMMA SessionOpensMoves ==
  ASSUME PlayerInv, NEW s \in Sessions, SessionOpens(s)
  PROVE  Moves
  <1>1. PICK t : t = opener
    OBVIOUS
  <1>2. /\ t \in Tabs /\ tab[t].call \in {"start", "retry"} /\ opening # Idle
        /\ opening.lesson = tab[t].lesson
        /\ tab[t].call = "start" => ~opening.replay
    BY <1>1 DEF PlayerInv, OpenerWaits, SessionOpens
  <1>3. [Next]_vars /\ UNCHANGED attempts /\ opening' = Idle /\ opener' = NoTab
        /\ session'[s].status # "absent"
    <2>1. [Next]_vars /\ UNCHANGED attempts /\ opening' = Idle /\ opener' = NoTab
      BY DEF SessionOpens, Next, OpeningStep, CommitStart, CommitRetry, InsertSession
    <2>2. session'[s].status = "in_progress"
      <3>1. session \in [Sessions -> SessionRows]
        BY Tables DEF PlayerInv, LessonInv, OpenInv
      <3>2. PICK row : session' = [session EXCEPT ![s] = row] /\ row.status = "in_progress"
        BY ZenonT(40) DEF SessionOpens, CommitStart, CommitRetry, InsertSession
      <3> QED
        BY <3>1, <3>2
    <2> QED
      BY <2>1, <2>2
  <1>4. OpenerWaits'
    BY <1>3 DEF OpenerWaits
  <1>5. tab[t].screen \notin Questions \cup {"feedback"}
        /\ (tab[t].screen = "loading" => tab[t].call = "start")
    BY <1>2, PageFits
  <1>6. CASE Failed(t)
    <2>1. PICK new : PageChanges(t, new)
      BY <1>2, <1>3, <1>6, FailedChange
    <2> QED
      BY <1>2, <1>3, <1>4, <2>1 DEF Moves, PageMoves
  <1>7. CASE tab' = [tab EXCEPT ![t] = Loading(t, tab[t].lesson)]
    <2>1. PICK page : page = Screen(tab[t], "loading")
      OBVIOUS
    <2>2. page \in PageRows /\ page.screen = "loading" /\ page.key = NoKey
          /\ page.step = tab[t].step
      BY <1>2, <2>1, PageFits, ScreenIs, ScreenType DEF Screens
    <2>3. PICK l : l = tab[t].lesson
      OBVIOUS
    <2>4. l \in Lessons
      BY <1>2, <2>3, PageFits DEF PageRows
    <2>5. PICK new : new = [page EXCEPT !.lesson = l, !.call = "session"]
      OBVIOUS
    <2>6. /\ new \in PageRows /\ new.screen = "loading" /\ new.key = NoKey
          /\ new.step = tab[t].step /\ new.call = "session"
      BY <2>2, <2>4, <2>5 DEF PageRows, Calls
    <2>7. CallFits(new) /\ new.screen \notin StepScreens \cup {"feedback", "complete"}
      BY <2>6 DEF CallFits, Questions, StepScreens, Kinds
    <2>8. tab' = [tab EXCEPT ![t] = new]
      BY <1>7, <2>1, <2>3, <2>5 DEF Loading
    <2>9. PageChanges(t, new)
      BY <1>2, <1>3, <2>6, <2>7, <2>8, PlainChange
    <2> QED
      BY <1>2, <1>3, <1>4, <2>9 DEF Moves, PageMoves
  <1>8. CASE FreshKeys # {} /\ tab' = [tab EXCEPT ![t] = transitionToStep(tab[t], NewViewOf(s))]
    <2>1. PICK view : view = NewViewOf(s)
      OBVIOUS
    <2>2. LessonInv' /\ VersionsCount'
      BY <1>3, RuntimePersists DEF PlayerInv
    <2>3. /\ view \in Steps /\ view.session = s /\ view.version = session'[s].version
          /\ view.node = session'[s].node /\ 1 <= session'[s].version
          /\ session'[s].version \in Nat
      BY <1>3, <2>1, <2>2, NewView
    <2>4. Trailing(view)'
      BY <1>3, <2>3 DEF Trailing
    <2>5. tab[t].screen = "loading" => OpenSessionOf(tab[t].lesson) = {}
      <3>1. OpeningChecked
        BY DEF PlayerInv, LessonInv, OpenInv
      <3> QED
        BY <1>2, <1>5, <3>1 DEF OpeningChecked, StillChecked, GameStateFree
    <2>6. PICK new : PageChanges(t, new)
      BY <1>2, <1>3, <1>8, <2>1, <2>3, <2>4, <2>5, StepChange
    <2> QED
      BY <1>2, <1>3, <1>4, <2>6 DEF Moves, PageMoves
  <1> QED
    BY <1>1, <1>6, <1>7, <1>8 DEF SessionOpens, Answered

LEMMA OpeningRefusedMoves ==
  ASSUME PlayerInv, NEW t \in Tabs, OpeningRefused(t)
  PROVE  Moves
  <1>1. tab[t].call \in {"start", "retry"} /\ tab[t] \in PageRows
    BY PageFits DEF OpeningRefused
  <1>2. [Next]_vars /\ UNCHANGED attempts
    <2>1. CASE opener = t
      BY <2>1 DEF OpeningRefused, OpeningFails, Next, OpeningStep
    <2>2. CASE opener # t
      BY <2>2, LookingStops DEF OpeningRefused
    <2> QED
      BY <2>1, <2>2
  <1>3. PICK new : PageChanges(t, new)
    <2>1. CASE Failed(t)
      BY <1>2, <2>1, FailedChange
    <2>2. CASE tab' = [tab EXCEPT ![t] = Screen(tab[t], "paywall")]
      <3>1. PICK page : page = Screen(tab[t], "paywall")
        OBVIOUS
      <3>2. /\ page \in PageRows /\ page.screen = "paywall" /\ page.key = NoKey
            /\ page.step = tab[t].step /\ page.call = "none"
        BY <1>1, <3>1, ScreenIs, ScreenType DEF Screens
      <3>3. CallFits(page) /\ page.screen \notin StepScreens \cup {"feedback", "complete"}
        BY <3>2 DEF CallFits, Questions, StepScreens, Kinds
      <3>4. tab' = [tab EXCEPT ![t] = page]
        BY <2>2, <3>1
      <3> QED
        BY <1>2, <3>2, <3>3, <3>4, PlainChange
    <2> QED
      BY <2>1, <2>2 DEF OpeningRefused
  <1>4. CASE opener = t
    <2>1. OpenerWaits'
      BY <1>4 DEF OpeningRefused, OpeningFails, OpenerWaits
    <2> QED
      BY <1>2, <1>3, <2>1 DEF Moves, PageMoves
  <1>5. CASE opener # t
    <2>1. UNCHANGED <<opener, opening>>
      BY <1>5 DEF OpeningRefused
    <2> QED
      BY <1>2, <1>3, <1>5, <2>1, ChangeMoves
  <1> QED
    BY <1>4, <1>5

(* What a page sends is about a node and a version of its session.         *)
LEMMA SentAbout ==
  ASSUME PlayerInv, NEW at \in Steps, Trailing(at)
  PROVE  at.session \in Sessions /\ at.version \in Versions /\ at.node \in Nodes
  <1>1. at.session \in Sessions /\ at.version \in Nat /\ at.node \in Nodes
    BY DEF Steps
  <1>2. session[at.session].version \in 0..MaxVersion
    BY <1>1 DEF PlayerInv, LessonInv, OpenInv, LessonTypeOK
  <1> QED
    BY <1>1, <1>2, BoundAssumption DEF Trailing, Versions

LEMMA WalkedMoves ==
  ASSUME PlayerInv, NEW t \in Tabs, Walked(t)
  PROVE  Moves
  <1>1. PICK at : at = tab[t].step
    OBVIOUS
  <1>2. at \in Steps /\ Trailing(at)
    BY <1>1, PageFits DEF Walked
  <1>3. at.session \in Sessions /\ at.version \in Versions /\ at.node \in Nodes
    BY <1>2, SentAbout
  <1>4. /\ \/ StoryNext(at.session, at.version, at.node)
           \/ RepeatedNext(at.session, at.version, at.node)
           \/ Decision(at.session, at.version, at.node)
           \/ Back(at.session, at.version)
        /\ tab[t].call \in {"next", "decision", "back"} /\ UNCHANGED opener
        /\ Answered(t, transitionToStep(tab[t], NewViewOf(at.session)))
    BY <1>1 DEF Walked, Sent
  <1>5. Next
    BY <1>3, <1>4 DEF Next, MovingStep
  <1>6. UNCHANGED <<opener, opening, attempts>>
    BY <1>4 DEF StoryNext, RepeatedNext, Decision, Back
  <1>7. CASE Failed(t)
    BY <1>4, <1>5, <1>6, <1>7, FailedMoves
  <1>8. CASE /\ FreshKeys # {}
             /\ tab' = [tab EXCEPT ![t] = transitionToStep(tab[t], NewViewOf(at.session))]
    <2>1. PICK view : view = NewViewOf(at.session)
      OBVIOUS
    <2>2. LessonInv' /\ VersionsCount' /\ Trailing(at)'
      BY <1>2, <1>5, RuntimePersists DEF PlayerInv, Persists
    <2>3. session'[at.session].status # "absent"
      BY <2>2 DEF Trailing
    <2>4. PICK s \in Sessions : s = at.session
      BY <1>3
    <2>5. /\ view \in Steps /\ view.session = s /\ view.version = session'[s].version
          /\ view.node = session'[s].node /\ 1 <= session'[s].version
          /\ session'[s].version \in Nat
      BY <2>1, <2>2, <2>3, <2>4, NewView
    <2>6. Trailing(view)'
      BY <2>3, <2>4, <2>5 DEF Trailing
    <2>7. tab[t].screen # "loading"
      BY <1>4, PageFits
    <2>8. PICK new : PageChanges(t, new)
      BY <1>5, <1>6, <1>8, <2>1, <2>5, <2>6, <2>7, StepChange
    <2> QED
      BY <1>4, <1>5, <1>6, <2>8, ChangeMoves
  <1> QED
    BY <1>4, <1>7, <1>8 DEF Answered

LEMMA EvaluatedMoves ==
  ASSUME PlayerInv, NEW t \in Tabs, AnswerEvaluated(t)
  PROVE  Moves
  <1>1. PICK at : at = tab[t].step
    OBVIOUS
  <1>2. PICK old : old = tab[t]
    OBVIOUS
  <1>3. /\ at \in Steps /\ Trailing(at) /\ old \in PageRows /\ old.call = "answer"
        /\ old.key # NoKey /\ old.key \in Keys
    BY <1>1, <1>2, PageFits DEF AnswerEvaluated, Sent, PageRows
  <1>4. at.session \in Sessions /\ at.version \in Versions /\ at.node \in Nodes
    BY <1>3, SentAbout
  <1>5. Answer(at.session, at.version, at.node, old.key) /\ UNCHANGED opener
    BY <1>1, <1>2 DEF AnswerEvaluated, Sent
  <1>6. Next /\ UNCHANGED <<opener, opening>>
    BY <1>3, <1>4, <1>5 DEF Next, MovingStep, Answer
  <1>7. \A a \in attempts' \ attempts : a.session = at.session /\ a.key = old.key
    <2>1. PICK e \in OfSession(at.session).exits[at.node] :
            attempts' = attempts \cup
              {[session |-> at.session,
                no |-> Cardinality({a \in attempts : a.session = at.session}) + 1,
                key |-> old.key, version |-> at.version, verdict |-> e.verdict,
                xp |-> Worth(e.verdict)]}
      BY <1>5 DEF Answer
    <2> QED
      BY <2>1
  <1>8. LessonInv' /\ VersionsCount' /\ Persists /\ Trailing(at)'
    BY <1>3, <1>6, RuntimePersists DEF PlayerInv, Persists
  <1>9. PICK a \in attempts' \ attempts :
          Answered(t, IF session'[tab[t].step.session].status = "completed"
                      THEN [tab[t] EXCEPT !.screen = "feedback", !.call = "none",
                              !.result = [verdict |-> a.verdict,
                                          done |-> session'[tab[t].step.session].status
                                                     = "completed"]]
                      ELSE [[tab[t] EXCEPT !.screen = "feedback", !.call = "none",
                               !.result = [verdict |-> a.verdict,
                                           done |-> session'[tab[t].step.session].status
                                                      = "completed"]]
                            EXCEPT !.step = NewViewOf(tab[t].step.session)])
    BY DEF AnswerEvaluated
  <1>10. a.verdict \in Verdicts
    BY <1>8 DEF LessonInv, OpenInv, LessonTypeOK
  <1>11. PICK done \in BOOLEAN : done = (session'[at.session].status = "completed")
    OBVIOUS
  <1>14. PICK result : result = [verdict |-> a.verdict, done |-> done]
    OBVIOUS
  <1>15. /\ result \in Results /\ result.verdict = a.verdict
         /\ result.done => session'[at.session].status = "completed"
    BY <1>10, <1>11, <1>14 DEF Results
  <1>12. PICK new : PageChanges(t, new)
    <2>1. CASE Failed(t)
      BY <1>2, <1>3, <1>6, <1>7, <2>1, FailedChange
    <2>2. ASSUME NEW view \in Steps, view.session = at.session, Trailing(view)',
                 NEW new, new = [old EXCEPT !.screen = "feedback", !.call = "none", !.step = view,
                                            !.result = result],
                 tab' = [tab EXCEPT ![t] = new]
          PROVE  PageChanges(t, new)
      <3>0. /\ a \in attempts' /\ a.session = view.session /\ a.key = old.key
            /\ result.done => session'[view.session].status = "completed"
        BY <1>7, <1>9, <1>15, <2>2
      <3>1. /\ PageOK(new)' /\ CallFits(new) /\ new.key = old.key
            /\ new.screen = "feedback" /\ new.call = "none"
        <4>1. /\ new.screen = "feedback" /\ new.call = "none" /\ new.step = view
              /\ new.key = old.key /\ new.result = result
          BY <1>3, <2>2 DEF PageRows
        <4>2. new \in PageRows
          BY <1>3, <1>15, <2>2 DEF PageRows, Screens, Calls
        <4>3. Recorded(new)'
          BY <1>15, <2>2, <3>0, <4>1 DEF Recorded
        <4>4. "feedback" \notin StepScreens \cup Questions
          BY DEF StepScreens, Kinds, Questions
        <4>5. CallFits(new)
          BY <4>1 DEF CallFits
        <4> QED
          BY <1>3, <2>2, <4>1, <4>2, <4>3, <4>4, <4>5 DEF PageOK
      <3>2. Resumed(t, new)
        BY <3>1 DEF Resumed, StepScreens, Kinds
      <3> QED
        BY <1>2, <1>3, <1>7, <2>2, <3>1, <3>2 DEF PageChanges
    <2>3. CASE ~Failed(t) /\ done
      <3>1. PICK new : new = [old EXCEPT !.screen = "feedback", !.call = "none",
                                !.result = result]
        OBVIOUS
      <3>2. tab' = [tab EXCEPT ![t] = new]
        BY <1>1, <1>2, <1>9, <1>11, <1>14, <2>3, <3>1 DEF Answered
      <3>3. new = [old EXCEPT !.screen = "feedback", !.call = "none", !.step = at,
                     !.result = result]
        <4>2. old.step = at
          BY <1>1, <1>2
        <4>3. [old EXCEPT !.screen = "feedback", !.call = "none", !.result = result]
                = [old EXCEPT !.screen = "feedback", !.call = "none", !.step = at,
                              !.result = result]
          BY <1>3, <4>2 DEF PageRows
        <4> QED
          BY <3>1, <4>3
      <3> QED
        BY <1>3, <1>8, <2>2, <3>2, <3>3
    <2>4. CASE ~Failed(t) /\ ~done
      <3>1. PICK view : view = NewViewOf(at.session)
        OBVIOUS
      <3>2. PICK s \in Sessions : s = at.session
        BY <1>4
      <3>3. session'[s].status # "absent"
        BY <1>8, <3>2 DEF Trailing
      <3>4. /\ view \in Steps /\ view.session = s /\ view.version = session'[s].version
            /\ view.node = session'[s].node /\ 1 <= session'[s].version
            /\ session'[s].version \in Nat
        BY <1>8, <3>1, <3>2, <3>3, NewView
      <3>5. Trailing(view)'
        BY <3>3, <3>4 DEF Trailing
      <3>6. PICK new : new = [old EXCEPT !.screen = "feedback", !.call = "none", !.step = view,
                                !.result = result]
        OBVIOUS
      <3>7. [[old EXCEPT !.screen = "feedback", !.call = "none",
                !.result = result] EXCEPT !.step = view] = new
        BY <1>3, <3>6 DEF PageRows
      <3>8. tab' = [tab EXCEPT ![t] = new]
        BY <1>1, <1>2, <1>9, <1>11, <1>14, <2>4, <3>1, <3>7 DEF Answered
      <3> QED
        BY <2>2, <3>2, <3>4, <3>5, <3>6, <3>8
    <2> QED
      BY <2>1, <2>3, <2>4
  <1>13. tab[t].call \notin {"start", "retry"}
    BY <1>2, <1>3
  <1> QED
    BY <1>6, <1>12, <1>13, ChangeMoves

LEMMA WalkFailsMoves ==
  ASSUME PlayerInv, NEW t \in Tabs, WalkFails(t)
  PROVE  Moves
  <1>1. [Next]_vars /\ UNCHANGED <<opener, opening, attempts>> /\ Failed(t)
        /\ tab[t].call \notin {"start", "retry"}
    BY DEF WalkFails, vars, Walks
  <1> QED
    BY <1>1, FailedMoves

LEMMA OutsideMoves ==
  ASSUME PlayerInv, OutsideStep, UNCHANGED <<tab, opener>>
  PROVE  Moves
  <1>1. Next /\ UNCHANGED <<attempts, opening>>
    BY DEF Next, OutsideStep, RevokeEntitlement, AccessChanges, PublishRevision
  <1>2. OpenerWaits'
    BY <1>1 DEF PlayerInv, OpenerWaits
  <1> QED
    BY <1>1, <1>2, OpenerMoves

LEMMA PlayerMoves ==
  ASSUME PlayerInv, [PlayerNext]_playerVars
  PROVE  Moves
  <1>1. ASSUME NEW t \in Tabs, CallStep(t)
        PROVE  Moves
    BY <1>1, SessionFoundMoves, SessionFailsMoves, StartReturnsMoves, StartChecksMoves,
       RetryChecksMoves, OpeningRefusedMoves, WalkedMoves, EvaluatedMoves, WalkFailsMoves,
       ExitMoves DEF CallStep
  <1>2. CASE UNCHANGED playerVars
    <2>1. [Next]_vars /\ UNCHANGED <<tab, attempts, opener, opening>>
      BY <1>2 DEF playerVars, vars
    <2>2. OpenerWaits'
      BY <2>1 DEF PlayerInv, OpenerWaits
    <2> QED
      BY <2>1, <2>2, OpenerMoves
  <1> QED
    BY <1>1, <1>2, PageStepMoves, SessionOpensMoves, OutsideMoves DEF PlayerNext

LEMMA PlayerStart ==
  ASSUME PlayerInit
  PROVE  PlayerInv
  <1>1. /\ Init /\ opener = NoTab
        /\ tab = [t \in Tabs |->
             [screen |-> "away", lesson |-> CHOOSE l \in Lessons : TRUE, step |-> NoStep,
              key |-> NoKey, result |-> NoResult, call |-> "none", access |-> NoAccess,
              exit |-> NoStep]]
    BY DEF PlayerInit
  <1>2. PICK l \in Lessons : l = CHOOSE k \in Lessons : TRUE
    BY BoundAssumption
  <1>3. PICK page : page = [screen |-> "away", lesson |-> l, step |-> NoStep, key |-> NoKey,
                            result |-> NoResult, call |-> "none", access |-> NoAccess,
                            exit |-> NoStep]
    OBVIOUS
  <1>4. page \in PageRows
    BY <1>3, NothingIsTyped DEF PageRows, Screens, Calls
  <1>5. \A t \in Tabs : tab[t] = page
    BY <1>1, <1>2, <1>3
  <1>6. LessonInv /\ VersionsCount /\ opening = Idle
    <2>1. LessonInv
      BY <1>1, LessonInit
    <2>2. session = [s \in Sessions |-> NoSession] /\ opening = Idle
      BY <1>1 DEF Init
    <2> QED
      BY <2>1, <2>2 DEF VersionsCount, NoSession
  <1>7. PageOK(page) /\ CallFits(page) /\ page.key = NoKey
    BY <1>3, <1>4 DEF PageOK, CallFits, StepScreens, Kinds, Questions
  <1>8. tab \in [Tabs -> PageRows]
    BY <1>1, <1>2, <1>3, <1>4
  <1>9. KeysApart /\ OpenerWaits
    BY <1>1, <1>5, <1>6, <1>7 DEF KeysApart, OpenerWaits
  <1> QED
    BY <1>5, <1>6, <1>7, <1>8, <1>9 DEF PlayerInv

THEOREM PlayerInvariant == PlayerSpec => []PlayerInv
  <1>1. PlayerInit => PlayerInv
    BY PlayerStart
  <1>2. PlayerInv /\ [PlayerNext]_playerVars => PlayerInv'
    BY PlayerMoves, MovesKeep DEF Moves
  <1> QED
    BY <1>1, <1>2, PTL DEF PlayerSpec

(* Whatever several tabs do, and whatever answers are lost, the tables go  *)
(* through a behaviour of the runtime: what is proved of it holds here.    *)
THEOREM PagesTakeItsSteps == PlayerSpec => Spec
  <1>1. PlayerInit => Init
    BY DEF PlayerInit
  <1>2. PlayerInv /\ [PlayerNext]_playerVars => [Next]_vars
    BY PlayerMoves DEF Moves
  <1> QED
    BY <1>1, <1>2, PlayerInvariant, PTL DEF PlayerSpec, Spec

(* A page may be behind its session but never beside it, and the question  *)
(* it shows can be answered with its key.                                  *)
THEOREM PagesTrail == PlayerSpec => []PageTrailsSession
  <1>1. PlayerInv => PageTrailsSession
    <2> SUFFICES ASSUME PlayerInv
                 PROVE  PageTrailsSession
      OBVIOUS
    <2>1. PlayerTypeOK
      BY DEF PlayerInv, LessonInv, OpenInv, OpenerWaits, PlayerTypeOK, PageRows, Accesses
    <2>2. ASSUME NEW t \in Tabs, tab[t].step # NoStep
          PROVE  /\ session[tab[t].step.session].status # "absent"
                 /\ tab[t].step.version <= session[tab[t].step.session].version
                 /\ tab[t].step.version = session[tab[t].step.session].version
                      /\ Running(tab[t].step.session) =>
                        tab[t].step.node = session[tab[t].step.session].node
      BY <2>2, PageFits DEF Trailing
    <2>3. ASSUME NEW t \in Tabs, tab[t].screen \in Questions, NEW a \in attempts
          PROVE  a.key # tab[t].key
      <3>1. PICK page \in PageRows : page = tab[t]
        BY PageFits
      <3>2. PageOK(page)
        BY <3>1 DEF PlayerInv
      <3>3. "feedback" \notin Questions
        BY DEF Questions
      <3> QED
        BY <2>3, <3>1, <3>2, <3>3 DEF PageOK
    <2> QED
      BY <2>1, <2>2, <2>3 DEF PageTrailsSession
  <1> QED
    BY <1>1, PlayerInvariant, PTL

(* The verdict a page shows is recorded under its key, and a lesson is     *)
(* shown as done only when it is, or on an end.                            *)
THEOREM FeedbackIsTrue == PlayerSpec => []FeedbackIsRecorded
  <1>1. PlayerInv => FeedbackIsRecorded
    <2> SUFFICES ASSUME PlayerInv, NEW t \in Tabs
                 PROVE  /\ tab[t].screen = "feedback" =>
                             \E a \in attempts : /\ a.session = tab[t].step.session
                                                 /\ a.key = tab[t].key
                                                 /\ a.verdict = tab[t].result.verdict
                        /\ tab[t].screen = "complete" =>
                             \/ tab[t].step.kind = "end"
                             \/ session[tab[t].step.session].status = "completed"
      BY DEF FeedbackIsRecorded
    <2>1. PICK page \in PageRows : page = tab[t]
      BY PageFits
    <2>2. PageOK(page)
      BY <2>1 DEF PlayerInv
    <2> QED
      BY <2>1, <2>2 DEF PageOK, Recorded
  <1> QED
    BY <1>1, PlayerInvariant, PTL

(* Loading a lesson leads to its open session, where that session is.      *)
THEOREM ReloadsResume == PlayerSpec => ReloadResumes
  <1> DEFINE Leads ==
        \A t \in Tabs :
          LET opened == tab'[t].step IN
          tab[t].screen = "loading" /\ tab'[t].screen \in StepScreens
          => \A s \in OpenSessionOf(tab[t].lesson) :
               /\ opened.session = s /\ opened.node = session[s].node
               /\ opened.version = session[s].version
  <1>1. PlayerInv /\ [PlayerNext]_playerVars => [Leads]_playerVars
    <2> SUFFICES ASSUME PlayerInv, [PlayerNext]_playerVars, NEW t \in Tabs,
                        tab[t].screen = "loading", tab'[t].screen \in StepScreens,
                        NEW s \in OpenSessionOf(tab[t].lesson)
                 PROVE  /\ tab'[t].step.session = s /\ tab'[t].step.node = session[s].node
                        /\ tab'[t].step.version = session[s].version
      OBVIOUS
    <2>1. tab'[t] # tab[t]
      BY DEF StepScreens, Kinds
    <2>2. PICK u \in Tabs : \E new : PageChanges(u, new)
      BY <2>1, PlayerMoves DEF Moves, PageMoves
    <2>3. PICK new : PageChanges(u, new)
      BY <2>2
    <2>4. u = t /\ tab'[t] = new
      BY <2>1, <2>3, PageFits DEF PageChanges
    <2> QED
      BY <2>3, <2>4 DEF PageChanges, Resumed
  <1> HIDE DEF Leads
  <1>2. [][Leads]_playerVars <=> ReloadResumes
    BY PTL DEF ReloadResumes, Leads
  <1> QED
    BY <1>1, <1>2, PlayerInvariant, PTL DEF PlayerSpec
=============================================================================
