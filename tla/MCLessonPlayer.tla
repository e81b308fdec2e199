--------------------------- MODULE MCLessonPlayer ---------------------------
(* One lesson with every kind of block, in two browser tabs.               *)
EXTENDS LessonPlayer, TLC

CONSTANTS lesson, choose, ask, explain, outro, end, s1, s2, t1, t2

To(n) == [verdict |-> "none", to |-> n]
On(v, n) == [verdict |-> v, to |-> n]

MCGraph ==
  LET kinds == (choose :> "decision") @@ (ask :> "single_choice")
                 @@ (explain :> "free_text") @@ (outro :> "story") @@ (end :> "end")
      exits == (choose :> {To(ask), To(end)})
                 @@ (ask :> {On("correct", outro), On("partial", explain)})
                 @@ (explain :> {On("correct", end)})
                 @@ (outro :> {To(end)}) @@ (end :> {})
  IN [r \in {1} |-> [l \in {lesson} |-> [start |-> choose, kind |-> kinds, exits |-> exits]]]

MCLessonsOf == [r \in {1} |-> {lesson}]
MCBefore == [r \in {1} |-> [l \in {lesson} |-> {}]]
MCKeys == 1..5
(* When one session is walked to the end another is opened; or both are    *)
(* walked a step, or one after the other in one tab.  One page at a time   *)
(* awaits an abandonment, and none in the longer walks.                    *)
OneTab == \E t \in Tabs : tab[t].screen = "away" /\ tab[t].call = "none"
FewSteps ==
  LET v == session[s1].version
      w == session[s2].version
      waiting == {t \in Tabs : tab[t].exit # NoStep}
  IN /\ v + w <= 5 /\ (v + w = 5 => 1 \in {v, w} \/ OneTab)
     /\ waiting # {} => v + w <= 3 /\ Cardinality(waiting) = 1
Symmetry == Permutations({s1, s2}) \cup Permutations({t1, t2})
=============================================================================
