---------------------------- MODULE CourseOutline ---------------------------
(***************************************************************************)
(* The content of a course as the course editors hold and send it          *)
(* (frontend/src/pages/teacher/CourseConstructor.tsx,                      *)
(* frontend/src/pages/admin/AdminCourseEditor.tsx): modules of lessons.    *)
(*                                                                         *)
(* The graph of a lesson is told apart only by what the course editors do  *)
(* with it: "fresh" is the graph addLesson makes, in the editor's format;  *)
(* "blank" the same one as the server stores it; "written" one that the    *)
(* lesson editor has stored.  What a lesson editor does inside a graph is  *)
(* LessonEditor.                                                           *)
(***************************************************************************)
EXTENDS Integers, Sequences, SequencesExt, FiniteSets

CONSTANTS ModuleIds, LessonIds

emptyGraph == "fresh"
Graphs == {emptyGraph, "blank", "written"}

Lesson(l, graph) == [id |-> l, graph |-> graph]
Module(m, lessons) == [id |-> m, lessons |-> lessons]

NoModules == <<>>

LessonsOf(modules) == UNION {ToSet(modules[i].lessons) : i \in DOMAIN modules}
ModuleIdsOf(modules) == {modules[i].id : i \in DOMAIN modules}
LessonIdsOf(modules) == {lesson.id : lesson \in LessonsOf(modules)}

(* validateContent: ids are unique, and each graph is in the server's      *)
(* format.                                                                 *)
validateContent(modules) ==
  /\ \A i, j \in DOMAIN modules : modules[i].id = modules[j].id => i = j
  /\ \A i, j \in DOMAIN modules :
       \A k \in DOMAIN modules[i].lessons, n \in DOMAIN modules[j].lessons :
         modules[i].lessons[k].id = modules[j].lessons[n].id => i = j /\ k = n
  /\ \A lesson \in LessonsOf(modules) : lesson.graph # emptyGraph

(* flattenLessons: a course without lessons is not published.              *)
flattenLessons(modules) == FlattenSeq([i \in DOMAIN modules |-> modules[i].lessons])

ModuleAt(modules, m) == CHOOSE i \in DOMAIN modules : modules[i].id = m

InModule(modules, m, lessons) ==
  [i \in DOMAIN modules |-> IF modules[i].id = m THEN Module(m, lessons) ELSE modules[i]]

LessonsIn(modules, m) == modules[ModuleAt(modules, m)].lessons

LessonAt(lessons, l) == CHOOSE k \in DOMAIN lessons : lessons[k].id = l

-----------------------------------------------------------------------------
(* What the author does to the modules.                                    *)

addModule(modules, m) == Append(modules, Module(m, <<>>))

(* What is left without the entry of this id, which no other entry has.    *)
removeModule(modules, m) == RemoveAt(modules, ModuleAt(modules, m))

(* An entry trades places with the one before or after it, if there is one. *)
Swapped(seq, i, j) ==
  IF j \in DOMAIN seq THEN [seq EXCEPT ![i] = seq[j], ![j] = seq[i]] ELSE seq

moveModule(modules, m, delta) ==
  Swapped(modules, ModuleAt(modules, m), ModuleAt(modules, m) + delta)

addLesson(modules, m, l) ==
  InModule(modules, m, Append(LessonsIn(modules, m), Lesson(l, emptyGraph)))

removeLesson(modules, m, l) ==
  LET lessons == LessonsIn(modules, m)
  IN InModule(modules, m, RemoveAt(lessons, LessonAt(lessons, l)))

moveLesson(modules, m, l, delta) ==
  LET lessons == LessonsIn(modules, m)
      i == LessonAt(lessons, l)
  IN InModule(modules, m, Swapped(lessons, i, i + delta))

(* The lesson editors put their graph in place of the lesson's.            *)
withGraph(modules, l, graph) ==
  [i \in DOMAIN modules |-> [modules[i] EXCEPT !.lessons =
     [k \in DOMAIN @ |-> IF @[k].id = l THEN Lesson(l, graph) ELSE @[k]]]]

-----------------------------------------------------------------------------
(* What is sent.                                                           *)

(* Mutant: the modules are sent as the editor holds them.                  *)
SerializedAsHeld(modules) == modules

serializeModules(modules) ==
  [i \in DOMAIN modules |-> [modules[i] EXCEPT !.lessons =
     [k \in DOMAIN @ |-> Lesson(@[k].id, IF @[k].graph = emptyGraph THEN "blank"
                                         ELSE @[k].graph)]]]

(* What a page holds; and, of no more entries than there are ids, what a   *)
(* draft may be.                                                           *)
Outlines == Seq([id : ModuleIds, lessons : Seq([id : LessonIds, graph : Graphs])])

LessonLists == SeqOf([id : LessonIds, graph : Graphs], Cardinality(LessonIds))
ModuleLists == SeqOf([id : ModuleIds, lessons : LessonLists], Cardinality(ModuleIds))

StoredOutlines == {modules \in ModuleLists : validateContent(modules)}
=============================================================================
