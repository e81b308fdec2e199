--------------------------- MODULE MCLessonCourse ---------------------------
(* Two revisions of a course: the second adds a lesson behind the one they *)
(* share and, beside it, one with a choice to make and to take back, and   *)
(* renames the node of the questions.                                      *)
EXTENDS LessonRuntime, TLC

CONSTANTS l1, l2, l3, ask, renamed, choose, tell, end, s1, s2, s3, k1, q1, q2

Kind == (ask :> "single_choice") @@ (renamed :> "single_choice")
          @@ (choose :> "decision") @@ (tell :> "story") @@ (end :> "end")

From(start) ==
  [start |-> start, kind |-> Kind,
   exits |-> [n \in {ask, renamed, choose, tell, end} |->
     CASE n = end -> {}
       [] n = choose -> {[verdict |-> "none", to |-> m] : m \in {tell, end}}
       [] n = tell -> {[verdict |-> "none", to |-> end]}
       [] OTHER -> {[verdict |-> "correct", to |-> end]}]]

MCGraph == <<[l \in {l1, l2, l3} |-> From(ask)],
             [l \in {l1, l2, l3} |-> From(IF l = l3 THEN choose ELSE renamed)]>>

MCLessonsOf == <<{l1}, {l1, l2, l3}>>
MCBefore == <<[l \in {l1, l2, l3} |-> {}],
              [l \in {l1, l2, l3} |-> IF l = l2 THEN {l1} ELSE {}]>>
(* The choice is walked in one session at most; the others stay at it.     *)
WalkedOnce == Cardinality({s \in Sessions : session[s].version > 1}) <= 1
MCSessions == {s1, s2, s3}
Symmetry == Permutations(MCSessions) \cup Permutations({q1, q2})
=============================================================================
