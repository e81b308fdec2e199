----------------------------- MODULE CourseDesk -----------------------------
(***************************************************************************)
(* The pages on which a course is written                                  *)
(* (frontend/src/pages/teacher/CourseConstructor.tsx and LessonConstructor *)
(* .tsx for a teacher's course, frontend/src/pages/admin/AdminCourseEditor *)
(* .tsx and AdminLessonEditor.tsx for a course of the platform), with the  *)
(* server behind them (Publication, CourseAccess).                         *)
(*                                                                         *)
(* A page holds a copy of the draft, which its author changes while calls  *)
(* of the page are under way.  Every handler is two steps: the call, with  *)
(* what the page held when the button was pressed, and what the page does  *)
(* with the answer; an answer can be lost after the server has done its    *)
(* work, and an answer to a page that was left still runs the rest of the  *)
(* handler.  Reading a draft is two steps as well: useApi shows a spinner  *)
(* until the draft that was read is there.                                 *)
(*                                                                         *)
(* A confirmation is merged with what it confirms.  A page that was left   *)
(* holds nothing.                                                          *)
(***************************************************************************)
EXTENDS CourseAccess, CourseOutline

CONSTANTS Pages, NoLesson, NoFetch

ASSUME DeskAssumption ==
  /\ Contents = StoredOutlines
  /\ Empty = NoModules
  /\ Publishable = {modules \in Contents : flattenLessons(modules) # <<>>}
  /\ NoLesson \notin LessonIds
  /\ Pages # {}

VARIABLES
  page,   \* what each page shows and holds; base is the content its copy is made of
  asked   \* for each request, the page and the handler that wait for it

deskVars == <<page, asked>>
allVars == <<vars, deskVars>>

Purposes == {"none", "stay", "lesson", "preview", "submit", "review", "publish", "publishing"}

Snapshots == [version : Versions, content : Contents, editable : BOOLEAN, shared : BOOLEAN]

Away == [at |-> "away", course |-> CHOOSE c \in Courses : TRUE, lesson |-> NoLesson,
         known |-> FALSE, typed |-> Empty, base |-> Empty, version |-> 1,
         editable |-> FALSE, shared |-> FALSE,
         saving |-> FALSE, submitting |-> FALSE, fetched |-> NoFetch]

NotAsked == [page |-> CHOOSE p \in Pages : TRUE, course |-> CHOOSE c \in Courses : TRUE,
             purpose |-> "none", lesson |-> NoLesson, base |-> Empty, live |-> FALSE]

DeskTypeOK ==
  /\ AccessTypeOK
  /\ page \in [Pages ->
       [at : {"away", "outline", "lesson"}, course : Courses,
        lesson : LessonIds \cup {NoLesson}, known : BOOLEAN, typed : Outlines,
        base : Contents, version : Versions, editable : BOOLEAN, shared : BOOLEAN,
        saving : BOOLEAN, submitting : BOOLEAN, fetched : Snapshots \cup {NoFetch}]]
  /\ asked \in [Requests ->
       [page : Pages, course : Courses, purpose : Purposes,
        lesson : LessonIds \cup {NoLesson}, base : Contents, live : BOOLEAN]]

DeskInit ==
  /\ Init
  /\ page = [p \in Pages |-> Away]
  /\ asked = [q \in Requests |-> NotAsked]

Taught(p) == page[p].course \in TeacherCourses

(* The page is drawn: no draft is being read.                              *)
Shown(p) == page[p].at # "away" /\ page[p].known /\ page[p].fetched = NoFetch

(* Nobody else makes the same id: they are random.  Nothing tells two      *)
(* unused ids apart, so any of them will do.                               *)
UsedIn(modules) == ModuleIdsOf(modules) \cup LessonIdsOf(modules)
Used ==
  UNION ({UsedIn(page[p].typed) \cup UsedIn(page[p].base) : p \in Pages}
         \cup {UsedIn(draft[c].content) : c \in Courses}
         \cup {UsedIn(call[q].content) : q \in Requests})
generateId(Ids) == IF Ids \subseteq Used THEN {} ELSE {CHOOSE i \in Ids : i \notin Used}

-----------------------------------------------------------------------------
(* Reading a draft.                                                        *)

Found(c) == course[c] = "active"

(* GetDraft does not find the draft of an archived course: the page then   *)
(* shows an error and nothing else.                                        *)
getDraft(c) ==
  IF ~Found(c) THEN NoFetch
  ELSE [version |-> draft[c].version, content |-> draft[c].content,
        editable |-> draft[c].workflow \in {"editing", "changes_requested"},
        shared |-> revisions[c] # <<>>]

Entered(at, c, l) ==
  [Away EXCEPT !.at = at, !.course = c, !.lesson = l, !.fetched = getDraft(c)]

(* The requests of a page outlive it, and no longer change it.             *)
Detached(p) ==
  [q \in Requests |-> IF asked[q].page = p THEN [asked[q] EXCEPT !.live = FALSE]
                      ELSE asked[q]]

Open(p, at, c, l) ==
  /\ page[p].at = "away"
  /\ Found(c)
  /\ at = "lesson" => l \in LessonIdsOf(draft[c].content)
  /\ page' = [page EXCEPT ![p] = Entered(at, c, l)]
  /\ UNCHANGED <<vars, asked>>

(* The list of courses: handleCreate makes a course and opens it.          *)
handleCreate(p, c) ==
  /\ page[p].at = "away"
  /\ CreateCourse(c)
  /\ page' = [page EXCEPT ![p] =
       [Away EXCEPT !.at = "outline", !.course = c,
                    !.fetched = [version |-> 1, content |-> Empty, editable |-> TRUE,
                                 shared |-> FALSE]]]
  /\ UNCHANGED <<accessVars, asked>>

Leave(p) ==
  /\ page[p].at # "away"
  /\ page' = [page EXCEPT ![p] = Away]
  /\ asked' = Detached(p)
  /\ UNCHANGED vars

(* The form is filled from every draft that arrives, on the page of an     *)
(* administrator only from the first one.                                  *)
Filled(p) ==
  LET shot == page[p].fetched
      first == ~page[p].known \/ Taught(p)
  IN [page[p] EXCEPT !.known = TRUE, !.fetched = NoFetch,
                     !.typed = IF first THEN shot.content ELSE @,
                     !.base = IF first THEN shot.content ELSE @,
                     !.version = IF first THEN shot.version ELSE @,
                     !.editable = shot.editable \/ ~Taught(p),
                     !.shared = shot.shared]

ShowDraft(p) ==
  /\ page[p].fetched # NoFetch
  /\ page' = [page EXCEPT ![p] = Filled(p)]
  /\ UNCHANGED <<vars, asked>>

-----------------------------------------------------------------------------
(* What the author types.                                                  *)

Type(p, modules) ==
  /\ modules # page[p].typed
  /\ page' = [page EXCEPT ![p].typed = modules]
  /\ UNCHANGED <<vars, asked>>

Outline(p) == Shown(p) /\ page[p].at = "outline" /\ page[p].editable

ModuleList(p) ==
  LET modules == page[p].typed IN
  /\ Outline(p)
  /\ \/ \E m \in generateId(ModuleIds) : Type(p, addModule(modules, m))
     \/ \E m \in ModuleIdsOf(modules) : Type(p, removeModule(modules, m))
     \/ \E m \in ModuleIdsOf(modules), delta \in {-1, 1} :
          Type(p, moveModule(modules, m, delta))

LessonList(p) ==
  LET modules == page[p].typed IN
  /\ Outline(p)
  /\ \E m \in ModuleIdsOf(modules) :
       \/ \E l \in generateId(LessonIds) : Type(p, addLesson(modules, m, l))
       \/ \E lesson \in ToSet(LessonsIn(modules, m)) :
            \/ Type(p, removeLesson(modules, m, lesson.id))
            \/ \E delta \in {-1, 1} : Type(p, moveLesson(modules, m, lesson.id, delta))

LessonGraphEdited(p) ==
  /\ Shown(p) /\ page[p].at = "lesson"
  /\ Type(p, withGraph(page[p].typed, page[p].lesson, "written"))

-----------------------------------------------------------------------------
(* Calls.                                                                  *)

(* saveCurrentDraft sends what the page holds, under the version it knows. *)
saveCurrentDraft(p, q, purpose, l) ==
  /\ asked[q].purpose = "none"
  /\ SaveBegins(q, page[p].course, page[p].version, serializeModules(page[p].typed))
  /\ asked' = [asked EXCEPT ![q] = [page |-> p, course |-> page[p].course,
                                    purpose |-> purpose, lesson |-> l,
                                    base |-> page[p].base, live |-> TRUE]]
  /\ UNCHANGED accessVars

(* The page of a lesson saves a draft in review too, unless its lesson is  *)
(* not in the draft.                                                       *)
MaySave(p) ==
  \/ Outline(p)
  \/ Shown(p) /\ page[p].at = "lesson" /\ page[p].lesson \in LessonIdsOf(page[p].base)

handleSave(p, q) ==
  /\ MaySave(p) /\ ~page[p].saving
  /\ saveCurrentDraft(p, q, "stay", NoLesson)
  /\ page' = [page EXCEPT ![p].saving = TRUE]

(* A draft that cannot be edited is not saved: the lesson opens at once.   *)
handleEditLesson(p, q, l) ==
  /\ Shown(p) /\ page[p].at = "outline"
  /\ l \in LessonIdsOf(page[p].typed)
  /\ \/ /\ page[p].editable
        /\ saveCurrentDraft(p, q, "lesson", l)
        /\ page' = [page EXCEPT ![p].saving = TRUE]
     \/ /\ ~page[p].editable
        /\ page' = [page EXCEPT ![p] = Entered("lesson", page[p].course, l)]
        /\ asked' = Detached(p)
        /\ UNCHANGED vars

(* Only an administrator's outline offers a preview.                       *)
handlePreview(p, q) ==
  /\ MaySave(p) /\ (page[p].at = "lesson" \/ ~Taught(p))
  /\ \A other \in Requests : asked[other].page = p /\ asked[other].live
                               => asked[other].purpose # "preview"
  /\ saveCurrentDraft(p, q, "preview", page[p].lesson)
  /\ page' = [page EXCEPT ![p].saving = TRUE]

doSubmit(p, q) ==
  /\ Outline(p) /\ Taught(p) /\ ~page[p].submitting
  /\ saveCurrentDraft(p, q, "submit", NoLesson)
  /\ page' = [page EXCEPT ![p].submitting = TRUE]

handlePublish(p, q) ==
  /\ Outline(p) /\ ~Taught(p) /\ ~page[p].submitting
  /\ saveCurrentDraft(p, q, "publish", NoLesson)
  /\ page' = [page EXCEPT ![p].submitting = TRUE, ![p].saving = TRUE]

(* A teacher archives at the bottom of the page, an administrator in the   *)
(* header; the page is left once the answer is there (Leave).              *)
doArchive(p) ==
  LET c == page[p].course IN
  /\ Shown(p) /\ page[p].at = "outline"
  /\ (Taught(p) /\ ArchiveBegins(c)) \/ (~Taught(p) /\ AdminArchiveCourse(c))
  /\ UNCHANGED <<accessVars, deskVars>>

ShareModal(p) ==
  /\ Shown(p) /\ page[p].at = "outline" /\ page[p].shared /\ Taught(p)
  /\ \/ CreateLinkBegins(page[p].course)
     \/ \E l \in Links : link[l].course = page[p].course /\ RevokeLink(l)
  /\ UNCHANGED deskVars

-----------------------------------------------------------------------------
(* Answers.                                                                *)

Freed(q) == call' = [call EXCEPT ![q] = NoCall]
Forgotten(q) == [asked EXCEPT ![q] = NotAsked]
Rest == <<course, draft, archiving, review, revisions, accessVars>>

(* Mutant: the form is filled with what was saved.                         *)
SavedRefills(p, q) ==
  [page[p] EXCEPT !.version = call[q].version + 1, !.base = call[q].content,
                  !.typed = call[q].content,
                  !.saving = IF asked[q].purpose = "submit" THEN @ ELSE FALSE]

(* The page a save was asked on takes over the new version.                *)
Saved(p, q) ==
  [page[p] EXCEPT !.version = call[q].version + 1, !.base = call[q].content,
                  !.saving = IF asked[q].purpose = "submit" THEN @ ELSE FALSE]

SaveAnswered(q) ==
  LET p == asked[q].page
      live == asked[q].live IN
  /\ call[q].op = "save" /\ call[q].phase = "done"
  /\ Freed(q)
  /\ \/ /\ asked[q].purpose = "stay" \/ /\ asked[q].purpose = "preview"
                                        /\ asked[q].course \notin TeacherCourses
        /\ page' = IF live THEN [page EXCEPT ![p] = Saved(p, q)] ELSE page
        /\ asked' = Forgotten(q)
     \/ /\ asked[q].purpose = "submit"
        /\ page' = IF live THEN [page EXCEPT ![p] = Saved(p, q)] ELSE page
        /\ asked' = [asked EXCEPT ![q].purpose = "review"]
     \/ /\ asked[q].purpose = "publish"
        /\ page' = IF live THEN [page EXCEPT ![p] = Saved(p, q)] ELSE page
        /\ asked' = [asked EXCEPT ![q].purpose = "publishing"]
  /\ UNCHANGED Rest

(* The page moves on to the lesson, or to the preview of a teacher.        *)
SaveLeadsOn(q) ==
  LET p == asked[q].page
      c == asked[q].course IN
  /\ call[q].op = "save" /\ call[q].phase = "done"
  /\ \/ /\ asked[q].purpose = "lesson"
        /\ page' = [page EXCEPT ![p] = Entered("lesson", c, asked[q].lesson)]
     \/ /\ asked[q].purpose = "preview" /\ c \in TeacherCourses
        /\ page' = [page EXCEPT ![p] = Away]
  /\ asked' = [Detached(p) EXCEPT ![q] = NotAsked]
  /\ Freed(q)
  /\ UNCHANGED Rest

(* A refusal - a version conflict, a review that is pending already, or    *)
(* any other error -, or an answer that did not arrive though the server   *)
(* has done its work: the flags are taken back.                            *)
Refused(p, q) ==
  [page[p] EXCEPT !.saving = IF asked[q].purpose \in {"submit", "review"} THEN @ ELSE FALSE,
                  !.submitting = IF asked[q].purpose \in {"submit", "review", "publish"}
                                 THEN FALSE ELSE @]

CallRefused(q) ==
  LET p == asked[q].page IN
  /\ call[q].op # "none"
  /\ page' = IF asked[q].live THEN [page EXCEPT ![p] = Refused(p, q)] ELSE page
  /\ asked' = Forgotten(q)
  /\ Freed(q)
  /\ UNCHANGED Rest

-----------------------------------------------------------------------------
(* The second call of doSubmit and of handlePublish.                       *)

SubmitReaches(q) ==
  /\ asked[q].purpose = "review" /\ call[q].op = "none"
  /\ SubmitBegins(q, asked[q].course)
  /\ UNCHANGED <<accessVars, deskVars>>

(* reload: the page shows a spinner until the draft is there again, or an  *)
(* error when the course is gone.                                          *)
Reloaded(q) ==
  LET p == asked[q].page IN
  IF ~asked[q].live THEN page
  ELSE [page EXCEPT ![p] = [@ EXCEPT !.submitting = FALSE, !.known = Found(asked[q].course),
                                     !.fetched = getDraft(asked[q].course)]]

SubmitAnswered(q) ==
  /\ call[q].op = "submit" /\ call[q].phase = "done"
  /\ page' = Reloaded(q)
  /\ asked' = Forgotten(q)
  /\ Freed(q)
  /\ UNCHANGED Rest

PublishAnswered(q) ==
  /\ asked[q].purpose = "publishing" /\ call[q].op = "none"
  /\ PublishCourse(asked[q].course)
  /\ page' = Reloaded(q)
  /\ asked' = Forgotten(q)
  /\ UNCHANGED accessVars

(* The second call is refused, or its answer lost; the page stays as it is. *)
SecondCallFails(q) ==
  LET p == asked[q].page IN
  /\ asked[q].purpose \in {"review", "publishing"} /\ call[q].op = "none"
  /\ \/ UNCHANGED publicationVars
     \/ asked[q].purpose = "publishing" /\ PublishCourse(asked[q].course)
  /\ page' = IF asked[q].live THEN [page EXCEPT ![p].submitting = FALSE] ELSE page
  /\ asked' = Forgotten(q)
  /\ UNCHANGED accessVars

-----------------------------------------------------------------------------
OutlineScreen(p) ==
  \/ ModuleList(p) \/ LessonList(p) \/ doArchive(p) \/ ShareModal(p)
  \/ \E q \in Requests : \/ doSubmit(p, q) \/ handlePublish(p, q)
                         \/ \E l \in LessonIds : handleEditLesson(p, q, l)

Navigation(p) ==
  \/ Leave(p) \/ ShowDraft(p)
  \/ \E c \in Courses : \/ handleCreate(p, c)
                        \/ Open(p, "outline", c, NoLesson)
                        \/ \E l \in LessonIds : Open(p, "lesson", c, l)

Answers ==
  \E q \in Requests : \/ SaveAnswered(q) \/ SaveLeadsOn(q) \/ CallRefused(q)
                     \/ SubmitReaches(q) \/ SubmitAnswered(q)
                     \/ PublishAnswered(q) \/ SecondCallFails(q)

DeskNext ==
  \/ \E p \in Pages : \/ OutlineScreen(p) \/ Navigation(p) \/ LessonGraphEdited(p)
                      \/ \E q \in Requests : handleSave(p, q) \/ handlePreview(p, q)
  \/ Answers
  \/ ServerNext /\ UNCHANGED <<accessVars, deskVars>>
  \/ AccessServer /\ UNCHANGED deskVars

-----------------------------------------------------------------------------
(* Properties.                                                             *)

(* No edit is lost: a page that knows the version of the draft holds a     *)
(* copy of the draft's content, and a save the server would accept was     *)
(* written over it; so an accepted save overwrites nothing its author has  *)
(* not seen, however many pages and handlers save, fail and lose answers,  *)
(* and in whatever order versions and drafts arrive.                       *)
NoLostEdit ==
  /\ \A p \in Pages : page[p].known /\ page[p].version = draft[page[p].course].version
       => page[p].base = draft[page[p].course].content
  /\ \A q \in Requests : Asked(q, "save") /\ call[q].version = draft[call[q].course].version
       => asked[q].base = draft[call[q].course].content

(* Whatever the author does to the modules, they are modules, and the      *)
(* server accepts what the page would send: every id once, every graph in  *)
(* the server's format.                                                    *)
OutlineAccepted ==
  /\ DeskTypeOK
  /\ \A p \in Pages : validateContent(serializeModules(page[p].typed))

(* No answer takes away what was typed while it was under way: a page that *)
(* stays where it is, and reads no draft anew, keeps its form.             *)
KeepsTyping ==
  [][\A p \in Pages :
       /\ call' # call
       /\ page'[p].at = page[p].at /\ page'[p].known /\ page'[p].fetched = NoFetch
       => page'[p].typed = page[p].typed]_allVars
=============================================================================
