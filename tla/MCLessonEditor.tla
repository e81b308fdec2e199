--------------------------- MODULE MCLessonEditor ---------------------------
(* A lesson that is new, or was stored in the older form of free text, or  *)
(* has blocks that no editor writes.                                       *)
EXTENDS LessonEditor, TLC

CONSTANTS a, b, c

StoredStory(id, to) ==
  [id |-> id, kind |-> "story", filled |-> FALSE, terminal |-> FALSE, rubric |-> None, next |-> to,
   options |-> <<>>, fallback |-> NoExit]
StoredEnd(id) ==
  [id |-> id, kind |-> "end", filled |-> TRUE, terminal |-> FALSE, rubric |-> None, next |-> None,
   options |-> <<>>, fallback |-> NoExit]
OldQuestion(id, right, wrong) ==
  [id |-> id, kind |-> "free_text", filled |-> TRUE, terminal |-> FALSE, rubric |-> "verdicts", next |-> None,
   options |-> <<StoredExit("correct", "correct", right),
                 StoredExit("partial", "partial", right),
                 StoredExit("incorrect", "incorrect", wrong)>>,
   fallback |-> NoExit]

Placeholder == [start |-> "start", nodes |-> <<StoredStory("start", "end"), StoredEnd("end")>>]
OldLesson ==
  [start |-> "q", nodes |-> <<OldQuestion("q", "end", "s"), StoredStory("s", "end"),
                              StoredEnd("end")>>]
(* Lessons that came in by the API.                                        *)
PlainLesson == [OldLesson EXCEPT !.nodes[1].rubric = "plain", !.nodes[1].filled = FALSE]
LessonWithoutRubric == [PlainLesson EXCEPT !.nodes[1].rubric = None]
FinalStory ==
  [start |-> "s", nodes |-> <<[StoredStory("s", None) EXCEPT !.terminal = TRUE]>>]
Quiz ==
  [start |-> "q",
   nodes |-> <<[StoredStory("q", None) EXCEPT !.kind = "single_choice", !.filled = TRUE,
                  !.options = <<StoredExit("right", "correct", "end"),
                                StoredExit("wrong", "incorrect", "end")>>],
               StoredEnd("end")>>]
MCPages == {<<"teacher", Placeholder>>, <<"teacher", OldLesson>>, <<"admin", Quiz>>,
            <<"teacher", PlainLesson>>, <<"admin", LessonWithoutRubric>>, <<"admin", FinalStory>>}
Symmetry == Permutations({a, b, c})

(* Editing goes on from the draft it began with; what has been saved is    *)
(* looked at and opened, and edited no further.                            *)
SavedOnce == \E d \in {"teacher", "admin"} : <<d, stored>> \in Pages \/ graph = Opened(stored)

(* At most four options in all, the default of a free text included.       *)
FewOptions ==
  FoldLeft(LAMBDA n, node : n + Len(node.options) + (IF node.fallback = None THEN 0 ELSE 1),
           0, graph.nodes) <= 4

(* The text of a story matters to no check, but for the placeholder's.     *)
FewTexts ==
  \A i \in DOMAIN graph.nodes :
    graph.nodes[i].type = "story" /\ graph.nodes[i].filled => graph.nodes[i].id = "start"

(* The question of a stored lesson gets one new option at most, and one    *)
(* option of it is graded anew.                                            *)
FewChanges ==
  \A i \in DOMAIN graph.nodes : graph.nodes[i].id = "q" =>
    /\ Cardinality(OptionsOf(graph.nodes[i]) \cap NewOptions) <= 1
    /\ Len(SelectSeq(graph.nodes[i].options, LAMBDA o : o.verdict = "partial")) <= 1

(* The blocks of the older lessons stay where they are.                    *)
OldBlocksStay ==
  stored \in {OldLesson, PlainLesson, LessonWithoutRubric} =>
    /\ [i \in DOMAIN graph.nodes |-> graph.nodes[i].id] = <<"q", "s", "end">>
    /\ graph.nodes[1].fallback = "incorrect"

(* A lesson that is one final story gets one block more.                   *)
FinalStoryStaysShort == stored = FinalStory => Len(graph.nodes) <= 2
=============================================================================
