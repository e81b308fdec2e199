----------------------------- MODULE Publication ----------------------------
(***************************************************************************)
(* From a draft to a published revision                                    *)
(* (backend/internal/courses/service.go).                                  *)
(*                                                                         *)
(* A teacher saves the draft of a course from any number of pages and      *)
(* submits it; an administrator approves or rejects the review, and an     *)
(* approval publishes the draft as an immutable revision.  Courses of the  *)
(* platform are published without a review.                                *)
(*                                                                         *)
(* UpdateDraft, SubmitReview and ArchiveCourse check the owner, and        *)
(* SubmitReview reads the draft, before their transaction begins: such a   *)
(* handler is two actions, its call is kept in between, and every other    *)
(* handler may run there.  A content is a valid one, for no other is ever  *)
(* stored; a valid one without lessons cannot be published.                *)
(***************************************************************************)
EXTENDS Integers, FiniteSets, Sequences, SequencesExt

CONSTANTS
  Courses,         \* course ids
  TeacherCourses,  \* those owned by a teacher; the platform owns the others
  Contents,        \* valid contents of a draft
  Empty,           \* the content of a new course
  Publishable,     \* the contents that have a lesson
  Requests,        \* calls of UpdateDraft and SubmitReview under way
  Reviews,         \* review ids
  MaxVersion,      \* bound on the version of a draft
  MaxRevisions     \* bound on the revisions of a platform course

ASSUME PublicationAssumption ==
  /\ Courses # {} /\ TeacherCourses \subseteq Courses
  /\ Empty \in Contents
  /\ Publishable \subseteq Contents \ {Empty}
  /\ MaxVersion \in Nat \ {0}
  /\ MaxRevisions \in Nat

VARIABLES
  course,      \* "absent", "active" or, once deleted_at is set, "deleted"
  draft,       \* course_drafts
  call,        \* what each request asks for, and how far it is
  archiving,   \* courses whose owner was let in to archive them
  review,      \* course_reviews
  revisions    \* course_revisions, with the draft version each was made of

publicationVars == <<course, draft, call, archiving, review, revisions>>

Versions == 1..MaxVersion

NoDraft == [version |-> 1, content |-> Empty, workflow |-> "editing"]
NoCall == [op |-> "none", course |-> CHOOSE c \in Courses : TRUE, version |-> 1,
           content |-> Empty, phase |-> "begun"]
NoReview == [course |-> CHOOSE c \in Courses : TRUE, version |-> 1, status |-> "absent"]

PublicationTypeOK ==
  /\ course \in [Courses -> {"absent", "active", "deleted"}]
  /\ draft \in [Courses -> [version : Versions, content : Contents,
       workflow : {"editing", "in_review", "changes_requested", "archived"}]]
  /\ call \in [Requests -> [op : {"none", "save", "submit"}, course : Courses,
       version : Versions, content : Contents, phase : {"begun", "done"}]]
  /\ archiving \subseteq TeacherCourses
  /\ review \in [Reviews -> [course : Courses, version : Versions,
                 status : {"absent", "pending", "approved", "rejected"}]]
  /\ revisions \in [Courses -> Seq([content : Publishable, version : Versions,
                                    current : BOOLEAN])]

PublicationInit ==
  /\ course = [c \in Courses |-> "absent"]
  /\ draft = [c \in Courses |-> NoDraft]
  /\ call = [q \in Requests |-> NoCall]
  /\ archiving = {}
  /\ review = [r \in Reviews |-> NoReview]
  /\ revisions = [c \in Courses |-> <<>>]

Pending(c) == {r \in Reviews : review[r].course = c /\ review[r].status = "pending"}
Published(c) == \E i \in DOMAIN revisions[c] : revisions[c][i].current
Asked(q, op) == call[q].op = op /\ call[q].phase = "begun"

-----------------------------------------------------------------------------
(* Drafts.                                                                 *)

CreateCourse(c) ==
  /\ course[c] = "absent"
  /\ course' = [course EXCEPT ![c] = "active"]
  /\ draft' = [draft EXCEPT ![c] = NoDraft]
  /\ UNCHANGED <<call, archiving, review, revisions>>

(* UpdateDraft has checked the owner and the content, which is valid.      *)
SaveBegins(q, c, version, content) ==
  /\ call[q].op = "none"
  /\ course[c] = "active"
  /\ content \in Contents
  /\ call' = [call EXCEPT ![q] = [op |-> "save", course |-> c, version |-> version,
                                  content |-> content, phase |-> "begun"]]
  /\ UNCHANGED <<course, draft, archiving, review, revisions>>

(* Mutant: the version is compared, but a save does not advance it.        *)
SaveKeepsVersion(q) ==
  LET c == call[q].course IN
  /\ Asked(q, "save")
  /\ draft[c].version = call[q].version
  /\ draft' = [draft EXCEPT ![c].content = call[q].content, ![c].workflow = "editing"]
  /\ call' = [call EXCEPT ![q].phase = "done"]
  /\ UNCHANGED <<course, archiving, review, revisions>>

UpdateDraft(q) ==
  LET c == call[q].course IN
  /\ Asked(q, "save")
  /\ draft[c].version = call[q].version
  /\ draft[c].version < MaxVersion
  /\ draft' = [draft EXCEPT ![c] = [version |-> @.version + 1,
                                    content |-> call[q].content, workflow |-> "editing"]]
  /\ call' = [call EXCEPT ![q].phase = "done"]
  /\ UNCHANGED <<course, archiving, review, revisions>>

ArchiveBegins(c) ==
  /\ c \in TeacherCourses
  /\ course[c] = "active"
  /\ archiving' = archiving \cup {c}
  /\ UNCHANGED <<course, draft, call, review, revisions>>

ArchiveCourse(c) ==
  /\ c \in archiving
  /\ archiving' = archiving \ {c}
  /\ course' = [course EXCEPT ![c] = "deleted"]
  /\ draft' = [draft EXCEPT ![c].workflow = "archived"]
  /\ UNCHANGED <<call, review, revisions>>

AdminArchiveCourse(c) ==
  /\ course[c] = "active"
  /\ course' = [course EXCEPT ![c] = "deleted"]
  /\ draft' = [draft EXCEPT ![c].workflow = "archived"]
  /\ UNCHANGED <<call, archiving, review, revisions>>

-----------------------------------------------------------------------------
(* Reviews and publication.                                                *)

(* SubmitReview has read the draft, by GetDraft.                           *)
SubmitBegins(q, c) ==
  /\ call[q].op = "none"
  /\ c \in TeacherCourses
  /\ course[c] = "active"
  /\ call' = [call EXCEPT ![q] = [NoCall EXCEPT !.op = "submit", !.course = c,
                                                !.version = draft[c].version]]
  /\ UNCHANGED <<course, draft, archiving, review, revisions>>

(* The unique index on pending reviews decides between two of them.        *)
SubmitReview(q, r) ==
  LET c == call[q].course IN
  /\ Asked(q, "submit")
  /\ Pending(c) = {}
  /\ review[r].status = "absent"
  /\ review' = [review EXCEPT ![r] = [course |-> c, version |-> call[q].version,
                                      status |-> "pending"]]
  /\ draft' = [draft EXCEPT ![c].workflow = "in_review"]
  /\ call' = [call EXCEPT ![q].phase = "done"]
  /\ UNCHANGED <<course, archiving, revisions>>

(* Mutant: the revision before stays current.                              *)
PublishBesides(c) ==
  /\ draft[c].content \in Publishable
  /\ revisions' = [revisions EXCEPT ![c] =
       Append(@, [content |-> draft[c].content, version |-> draft[c].version,
                  current |-> TRUE])]
  /\ draft' = [draft EXCEPT ![c].workflow = "editing"]

(* publishCourseTx: the draft as it is now becomes the current revision.   *)
Publish(c) ==
  /\ draft[c].content \in Publishable
  /\ revisions' = [revisions EXCEPT ![c] =
       Append([i \in DOMAIN @ |-> [@[i] EXCEPT !.current = FALSE]],
              [content |-> draft[c].content, version |-> draft[c].version,
               current |-> TRUE])]
  /\ draft' = [draft EXCEPT ![c].workflow = "editing"]

PublishCourse(c) ==
  /\ c \notin TeacherCourses
  /\ course[c] = "active"
  /\ Len(revisions[c]) < MaxRevisions
  /\ Publish(c)
  /\ UNCHANGED <<course, call, archiving, review>>

ApproveReview(r) ==
  /\ review[r].status = "pending"
  /\ Publish(review[r].course)
  /\ review' = [review EXCEPT ![r].status = "approved"]
  /\ UNCHANGED <<course, call, archiving>>

(* Mutant: the draft stays in review.                                      *)
RejectKeepsDraft(r) ==
  /\ review[r].status = "pending"
  /\ review' = [review EXCEPT ![r].status = "rejected"]
  /\ UNCHANGED <<course, draft, call, archiving, revisions>>

RejectReview(r) ==
  /\ review[r].status = "pending"
  /\ review' = [review EXCEPT ![r].status = "rejected"]
  /\ draft' = [draft EXCEPT ![review[r].course].workflow = "changes_requested"]
  /\ UNCHANGED <<course, call, archiving, revisions>>

(* What the server does of its own: the second part of a handler it let in. *)
ServerNext ==
  \/ \E q \in Requests : \/ UpdateDraft(q)
                         \/ \E r \in Reviews : SubmitReview(q, r)
  \/ \E c \in Courses : ArchiveCourse(c)

-----------------------------------------------------------------------------
(* Properties.                                                             *)

(* A draft that says it is in review has a review that is pending, though  *)
(* saves, decisions, submissions and archivals all write the status.       *)
InReviewIsPending ==
  \A c \in Courses : draft[c].workflow = "in_review" => Cardinality(Pending(c)) = 1

(* A teacher's course has one revision for each review that was approved,  *)
(* and no other; the last revision of a course, and only that, is current. *)
PublishedByReview ==
  \A c \in Courses :
    /\ c \in TeacherCourses =>
         Len(revisions[c]) = Cardinality({r \in Reviews : /\ review[r].course = c
                                                          /\ review[r].status = "approved"})
    /\ \A i \in DOMAIN revisions[c] : revisions[c][i].current <=> i = Len(revisions[c])

(* "submitted_draft_version fixes the snapshot of the version"             *)
(* (DB_SCHEMA.md:284): what an approval publishes is what was submitted.   *)
ApprovedAsSubmitted ==
  \A c \in TeacherCourses : \A i \in DOMAIN revisions[c] :
    \E r \in Reviews : /\ review[r].course = c /\ review[r].status = "approved"
                       /\ review[r].version = revisions[c][i].version
=============================================================================
