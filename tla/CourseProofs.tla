---------------------------- MODULE CourseProofs ----------------------------
(***************************************************************************)
(* Proofs about drafts, reviews, revisions and access to courses, and      *)
(* about the pages on which courses are written and moderated, for any     *)
(* number of pages, requests, courses, reviews, links and students, and    *)
(* any contents.                                                           *)
(*                                                                         *)
(* The first part is about the server alone, whoever calls it in whatever  *)
(* order: ServerStep is any step of any of its handlers, with arguments    *)
(* that no page restricts.                                                 *)
(*                                                                         *)
(* The second part is about the pages.  Every step of theirs is a step of  *)
(* the server's handlers or leaves the server alone (StepOfServer), so     *)
(* what holds of the server holds of the whole.  The pages' own invariant  *)
(* says that whatever a page or a save under way remembers of a draft is   *)
(* an earlier version, or the very content of this one (PagesBehind,       *)
(* SavesBehind), and that a request whose page is still there is about the *)
(* course the page shows (RequestsAttached).                               *)
(*                                                                         *)
(* The third part is about the outline an author writes: whatever is done  *)
(* to it, no id is in it twice (Filed).                                    *)
(***************************************************************************)
EXTENDS Moderation, FiniteSetTheorems, SequenceTheorems, TLAPS

SaveCall(q) ==
  \E c \in Courses, version \in Versions, content \in Contents :
    SaveBegins(q, c, version, content)

(* The answer of a call has come, or is lost.                              *)
CallEnds(q) ==
  /\ call' = [call EXCEPT ![q] = NoCall]
  /\ UNCHANGED <<course, draft, archiving, review, revisions>>

PublicationStep ==
  \/ \E q \in Requests : \/ SaveCall(q) \/ UpdateDraft(q) \/ CallEnds(q)
                         \/ \E c \in Courses : SubmitBegins(q, c)
                         \/ \E r \in Reviews : SubmitReview(q, r)
  \/ \E c \in Courses : \/ CreateCourse(c) \/ PublishCourse(c)
                        \/ ArchiveBegins(c) \/ ArchiveCourse(c) \/ AdminArchiveCourse(c)
  \/ \E r \in Reviews : ApproveReview(r) \/ RejectReview(r)

AccessStep ==
  \/ \E c \in Courses : CreateLinkBegins(c)
  \/ \E l \in Links : RevokeLink(l)
  \/ AccessServer

ServerStep ==
  \/ PublicationStep /\ UNCHANGED accessVars
  \/ AccessStep

ServerSpec == Init /\ [][ServerStep]_vars

-----------------------------------------------------------------------------
(* The invariant.                                                          *)

Exists(c) == course[c] # "absent"
Approved(c) ==
  \E r \in Reviews : review[r].course = c /\ review[r].status = "approved"
ApprovedReviews(c) ==
  {r \in Reviews : review[r].course = c /\ review[r].status = "approved"}

(* What a save of this version would have to have been written over.       *)
IsBehind(c, version, content) ==
  /\ version <= draft[c].version
  /\ version = draft[c].version => content = draft[c].content

(* Whatever refers to a course refers to one that was created, and one     *)
(* that was not has a new draft.                                           *)
Placed ==
  /\ \A c \in Courses : ~Exists(c) => draft[c] = NoDraft
  /\ \A q \in Requests : call[q].op # "none" => Exists(call[q].course)
  /\ \A c \in archiving : Exists(c)
  /\ \A r \in Reviews : review[r].status # "absent" => Exists(review[r].course)

(* An accepted save has made the next version, and what became of it since *)
(* then is a later one.                                                    *)
SavesTaken ==
  \A q \in Requests : call[q].op = "save" /\ call[q].phase = "done"
    => IsBehind(call[q].course, call[q].version + 1, call[q].content)

OnePending ==
  /\ \A c \in Courses : draft[c].workflow = "in_review" =>
       \E r \in Reviews : review[r].course = c /\ review[r].status = "pending"
  /\ \A r, s \in Reviews : ( /\ review[r].status = "pending"
                             /\ review[s].status = "pending"
                             /\ review[r].course = review[s].course ) => r = s

LastIsCurrent ==
  \A c \in Courses : \A i \in DOMAIN revisions[c] :
    revisions[c][i].current <=> i = Len(revisions[c])

RevisionsCounted ==
  \A c \in TeacherCourses :
    /\ IsFiniteSet(ApprovedReviews(c))
    /\ Len(revisions[c]) = Cardinality(ApprovedReviews(c))

(* Whatever gives access, or is about to, is about an approved course.     *)
AccessApproved ==
  /\ \A c \in creating : Approved(c)
  /\ \A pair \in granting : Approved(pair[2])
  /\ \A l \in Links : link[l].status # "absent" =>
       link[l].course \in TeacherCourses /\ Approved(link[l].course)
  /\ GrantedWasApproved

ServerInv ==
  /\ AccessTypeOK
  /\ Placed
  /\ SavesTaken
  /\ OnePending
  /\ LastIsCurrent
  /\ RevisionsCounted
  /\ AccessApproved

DraftRows == [version : Versions, content : Contents,
              workflow : {"editing", "in_review", "changes_requested", "archived"}]
CallRows == [op : {"none", "save", "submit"}, course : Courses, version : Versions,
             content : Contents, phase : {"begun", "done"}]
ReviewRows == [course : Courses, version : Versions,
               status : {"absent", "pending", "approved", "rejected"}]
RevisionRows == [content : Publishable, version : Versions, current : BOOLEAN]
LinkRows == [course : Courses, status : {"absent", "active", "revoked"},
             dated : BOOLEAN, late : BOOLEAN]

LEMMA FirstVersion == 1 \in Versions /\ Versions \subseteq Nat
  BY PublicationAssumption DEF Versions

LEMMA EmptyRows ==
  NoDraft \in DraftRows /\ NoCall \in CallRows /\ NoReview \in ReviewRows
  <1>1. (CHOOSE c \in Courses : TRUE) \in Courses
    BY PublicationAssumption
  <1> QED
    BY <1>1, FirstVersion, PublicationAssumption
    DEF NoDraft, NoCall, NoReview, DraftRows, CallRows, ReviewRows

-----------------------------------------------------------------------------
(* Types.                                                                  *)

LEMMA CallStepTypes ==
  ASSUME PublicationTypeOK, NEW q \in Requests,
         \/ SaveCall(q) \/ UpdateDraft(q) \/ CallEnds(q)
         \/ \E c \in Courses : SubmitBegins(q, c)
         \/ \E r \in Reviews : SubmitReview(q, r)
  PROVE  PublicationTypeOK'
  <1>0. call \in [Requests -> CallRows] /\ draft \in [Courses -> DraftRows]
        /\ review \in [Reviews -> ReviewRows]
    BY DEF PublicationTypeOK, CallRows, DraftRows, ReviewRows
  <1>1. call[q] \in CallRows
    BY <1>0
  <1>2. CASE SaveCall(q)
    <2>1. PICK row \in CallRows : call' = [call EXCEPT ![q] = row]
      BY <1>2 DEF SaveCall, SaveBegins, CallRows
    <2> QED
      BY <1>2, <2>1, <1>0 DEF SaveCall, SaveBegins, PublicationTypeOK, CallRows
  <1>3. CASE UpdateDraft(q)
    <2> DEFINE c == call[q].course
               row == [version |-> draft[c].version + 1, content |-> call[q].content,
                       workflow |-> "editing"]
               done == [call[q] EXCEPT !.phase = "done"]
    <2>1. c \in Courses /\ draft[c].version \in Versions /\ draft[c].version < MaxVersion
      BY <1>0, <1>1, <1>3 DEF UpdateDraft, CallRows, DraftRows
    <2>2. row \in DraftRows
      BY <2>1, <1>1, PublicationAssumption DEF Versions, DraftRows, CallRows
    <2>3. done \in CallRows
      BY <1>1 DEF CallRows
    <2>4. draft' = [draft EXCEPT ![c] = row] /\ call' = [call EXCEPT ![q] = done]
      BY <1>3 DEF UpdateDraft
    <2> HIDE DEF row, done
    <2>5. draft' \in [Courses -> DraftRows] /\ call' \in [Requests -> CallRows]
      BY <1>0, <2>2, <2>3, <2>4
    <2> QED
      BY <1>3, <2>5 DEF UpdateDraft, PublicationTypeOK, DraftRows, CallRows
  <1>4. CASE CallEnds(q)
    <2>1. call' \in [Requests -> CallRows]
      BY <1>0, <1>4, EmptyRows DEF CallEnds
    <2> QED
      BY <1>4, <2>1 DEF CallEnds, PublicationTypeOK, CallRows
  <1>5. ASSUME NEW c \in Courses, SubmitBegins(q, c)
        PROVE  PublicationTypeOK'
    <2> DEFINE row == [NoCall EXCEPT !.op = "submit", !.course = c,
                                     !.version = draft[c].version]
    <2>1. row \in CallRows
      BY <1>0, EmptyRows DEF CallRows, DraftRows
    <2>2. call' = [call EXCEPT ![q] = row]
      BY <1>5 DEF SubmitBegins
    <2> HIDE DEF row
    <2>3. call' \in [Requests -> CallRows]
      BY <1>0, <2>1, <2>2
    <2> QED
      BY <1>5, <2>3 DEF SubmitBegins, PublicationTypeOK, CallRows
  <1>6. ASSUME NEW r \in Reviews, SubmitReview(q, r)
        PROVE  PublicationTypeOK'
    <2> DEFINE c == call[q].course
               row == [course |-> c, version |-> call[q].version, status |-> "pending"]
               written == [draft[c] EXCEPT !.workflow = "in_review"]
               done == [call[q] EXCEPT !.phase = "done"]
    <2>1. c \in Courses /\ row \in ReviewRows /\ done \in CallRows
      BY <1>1 DEF CallRows, ReviewRows
    <2>2. written \in DraftRows
      BY <1>0, <2>1 DEF DraftRows
    <2>3. /\ review' = [review EXCEPT ![r] = row] /\ draft' = [draft EXCEPT ![c] = written]
          /\ call' = [call EXCEPT ![q] = done]
      BY <1>6 DEF SubmitReview
    <2> HIDE DEF row, written, done
    <2>4. /\ draft' \in [Courses -> DraftRows] /\ call' \in [Requests -> CallRows]
          /\ review' \in [Reviews -> ReviewRows]
      BY <1>0, <2>1, <2>2, <2>3
    <2> QED
      BY <1>6, <2>4 DEF SubmitReview, PublicationTypeOK, DraftRows, CallRows, ReviewRows
  <1> QED
    BY <1>2, <1>3, <1>4, <1>5, <1>6

LEMMA PublishTypes ==
  ASSUME PublicationTypeOK, NEW c \in Courses, Publish(c)
  PROVE  /\ draft' \in [Courses -> DraftRows]
         /\ revisions' \in [Courses -> Seq(RevisionRows)]
  <1> DEFINE old == [i \in DOMAIN revisions[c] |-> [revisions[c][i] EXCEPT !.current = FALSE]]
             new == [content |-> draft[c].content, version |-> draft[c].version,
                     current |-> TRUE]
             written == [draft[c] EXCEPT !.workflow = "editing"]
  <1>0. /\ draft \in [Courses -> DraftRows]
        /\ revisions \in [Courses -> Seq(RevisionRows)]
    BY DEF PublicationTypeOK, DraftRows, RevisionRows
  <1>1. old \in Seq(RevisionRows)
    <2> DEFINE n == Len(revisions[c])
    <2>1. revisions[c] \in Seq(RevisionRows)
      BY <1>0
    <2>2. /\ n \in Nat /\ DOMAIN revisions[c] = 1..n
          /\ \A i \in 1..n : revisions[c][i] \in RevisionRows
      BY <2>1
    <2>3. \A i \in 1..n : [revisions[c][i] EXCEPT !.current = FALSE] \in RevisionRows
      BY <2>2 DEF RevisionRows
    <2>4. old \in [1..n -> RevisionRows]
      BY <2>2, <2>3
    <2> HIDE DEF old, n
    <2> QED
      BY <2>2, <2>4
  <1>2. new \in RevisionRows /\ written \in DraftRows
    BY <1>0 DEF Publish, RevisionRows, DraftRows
  <1>3. /\ revisions' = [revisions EXCEPT ![c] = Append(old, new)]
        /\ draft' = [draft EXCEPT ![c] = written]
    BY <1>0 DEF Publish
  <1> HIDE DEF old, new, written
  <1>4. Append(old, new) \in Seq(RevisionRows)
    BY <1>1, <1>2
  <1> QED
    BY <1>0, <1>2, <1>3, <1>4

LEMMA CourseStepTypes ==
  ASSUME PublicationTypeOK, NEW c \in Courses,
         \/ CreateCourse(c) \/ PublishCourse(c)
         \/ ArchiveBegins(c) \/ ArchiveCourse(c) \/ AdminArchiveCourse(c)
  PROVE  PublicationTypeOK'
  <1>0. draft \in [Courses -> DraftRows]
    BY DEF PublicationTypeOK, DraftRows
  <1>1. CASE CreateCourse(c)
    <2>1. draft' \in [Courses -> DraftRows]
      BY <1>0, <1>1, EmptyRows DEF CreateCourse
    <2> QED
      BY <1>1, <2>1 DEF CreateCourse, PublicationTypeOK, DraftRows
  <1>2. CASE PublishCourse(c)
    BY <1>2, PublishTypes DEF PublishCourse, PublicationTypeOK, DraftRows, RevisionRows
  <1>3. CASE ArchiveBegins(c)
    BY <1>3 DEF ArchiveBegins, PublicationTypeOK
  <1>4. CASE ArchiveCourse(c) \/ AdminArchiveCourse(c)
    <2> DEFINE written == [draft[c] EXCEPT !.workflow = "archived"]
    <2>1. written \in DraftRows
      BY <1>0 DEF DraftRows
    <2>2. draft' = [draft EXCEPT ![c] = written]
      BY <1>4 DEF ArchiveCourse, AdminArchiveCourse
    <2> HIDE DEF written
    <2>3. draft' \in [Courses -> DraftRows]
      BY <1>0, <2>1, <2>2
    <2>4. course' \in [Courses -> {"absent", "active", "deleted"}]
      BY <1>4, ZenonT(40) DEF ArchiveCourse, AdminArchiveCourse, PublicationTypeOK
    <2>5. archiving' \subseteq TeacherCourses
      BY <1>4 DEF ArchiveCourse, AdminArchiveCourse, PublicationTypeOK
    <2>6. UNCHANGED <<call, review, revisions>>
      BY <1>4 DEF ArchiveCourse, AdminArchiveCourse
    <2> QED
      BY <2>3, <2>4, <2>5, <2>6 DEF PublicationTypeOK, DraftRows
  <1> QED
    BY <1>1, <1>2, <1>3, <1>4

LEMMA ReviewStepTypes ==
  ASSUME PublicationTypeOK, NEW r \in Reviews, ApproveReview(r) \/ RejectReview(r)
  PROVE  PublicationTypeOK'
  <1> DEFINE c == review[r].course
  <1>0. /\ review \in [Reviews -> ReviewRows] /\ draft \in [Courses -> DraftRows]
        /\ c \in Courses
    BY DEF PublicationTypeOK, ReviewRows, DraftRows
  <1>1. CASE ApproveReview(r)
    <2> DEFINE row == [review[r] EXCEPT !.status = "approved"]
    <2>1. row \in ReviewRows /\ review' = [review EXCEPT ![r] = row]
      BY <1>0, <1>1 DEF ApproveReview, ReviewRows
    <2> HIDE DEF row
    <2>2. review' \in [Reviews -> ReviewRows]
      BY <1>0, <2>1
    <2> QED
      BY <1>0, <1>1, <2>2, PublishTypes
      DEF ApproveReview, PublicationTypeOK, ReviewRows, DraftRows, RevisionRows
  <1>2. CASE RejectReview(r)
    <2> DEFINE row == [review[r] EXCEPT !.status = "rejected"]
               written == [draft[c] EXCEPT !.workflow = "changes_requested"]
    <2>1. row \in ReviewRows /\ review' = [review EXCEPT ![r] = row]
      BY <1>0, <1>2 DEF RejectReview, ReviewRows
    <2>2. written \in DraftRows /\ draft' = [draft EXCEPT ![c] = written]
      BY <1>0, <1>2 DEF RejectReview, DraftRows
    <2> HIDE DEF row, written
    <2>3. review' \in [Reviews -> ReviewRows] /\ draft' \in [Courses -> DraftRows]
      BY <1>0, <2>1, <2>2
    <2> QED
      BY <1>2, <2>3 DEF RejectReview, PublicationTypeOK, ReviewRows, DraftRows
  <1> QED
    BY <1>1, <1>2

-----------------------------------------------------------------------------
(* What a step may do to courses, drafts and reviews.                      *)

CoursesStay ==
  \A c \in Courses : /\ Exists(c) => Exists(c)'
                     /\ course[c] = "deleted" => course'[c] = "deleted"

(* A draft changes by getting a later version.                             *)
DraftsGrow ==
  \A c \in Courses : /\ draft[c].version <= draft'[c].version
                     /\ draft'[c].version = draft[c].version
                          => draft'[c].content = draft[c].content

ApprovalsStay ==
  \A r \in Reviews : review[r].status = "approved" => review'[r] = review[r]

LEMMA PublicationStepGrows ==
  ASSUME PublicationTypeOK, Placed, PublicationStep
  PROVE  CoursesStay /\ DraftsGrow /\ ApprovalsStay
  <1>0. /\ draft \in [Courses -> DraftRows] /\ call \in [Requests -> CallRows]
        /\ review \in [Reviews -> ReviewRows]
        /\ course \in [Courses -> {"absent", "active", "deleted"}]
    BY DEF PublicationTypeOK, DraftRows, CallRows, ReviewRows
  <1>a. /\ \A c \in Courses : draft[c] \in DraftRows /\ draft[c].version \in Nat
        /\ \A q \in Requests : call[q].course \in Courses
        /\ \A r \in Reviews : review[r].course \in Courses
    BY <1>0, FirstVersion DEF DraftRows, CallRows, ReviewRows
  <1>1. ASSUME UNCHANGED <<course, draft, review>>
        PROVE  CoursesStay /\ DraftsGrow /\ ApprovalsStay
    BY <1>1, <1>a DEF CoursesStay, DraftsGrow, ApprovalsStay, Exists
  <1>2. ASSUME NEW q \in Requests,
               SaveCall(q) \/ CallEnds(q) \/ \E c \in Courses : SubmitBegins(q, c)
        PROVE  UNCHANGED <<course, draft, review>>
    BY <1>2 DEF SaveCall, SaveBegins, CallEnds, SubmitBegins
  <1>3. ASSUME NEW q \in Requests, UpdateDraft(q)
        PROVE  CoursesStay /\ DraftsGrow /\ ApprovalsStay
    <2>1. UNCHANGED <<course, review>>
      BY <1>3 DEF UpdateDraft
    <2>2. DraftsGrow
      BY <1>0, <1>a, <1>3 DEF UpdateDraft, DraftsGrow
    <2> QED
      BY <2>1, <2>2 DEF CoursesStay, ApprovalsStay, Exists
  <1>4. ASSUME NEW q \in Requests, NEW r \in Reviews, SubmitReview(q, r)
        PROVE  CoursesStay /\ DraftsGrow /\ ApprovalsStay
    <2>1. DraftsGrow
      BY <1>0, <1>a, <1>4 DEF SubmitReview, DraftsGrow, DraftRows
    <2>2. CoursesStay /\ ApprovalsStay
      BY <1>0, <1>4 DEF SubmitReview, CoursesStay, ApprovalsStay, Exists
    <2> QED
      BY <2>1, <2>2
  <1>5. ASSUME NEW c \in Courses, CreateCourse(c)
        PROVE  CoursesStay /\ DraftsGrow /\ ApprovalsStay
    <2>1. draft' = draft
      BY <1>0, <1>5 DEF CreateCourse, Placed, Exists
    <2> QED
      BY <1>0, <1>a, <1>5, <2>1 DEF CreateCourse, CoursesStay, DraftsGrow, ApprovalsStay, Exists
  <1>6. ASSUME NEW c \in Courses, Publish(c)
        PROVE  DraftsGrow
    BY <1>0, <1>a, <1>6 DEF Publish, DraftsGrow, DraftRows
  <1>7. ASSUME NEW c \in Courses, PublishCourse(c)
        PROVE  CoursesStay /\ DraftsGrow /\ ApprovalsStay
    BY <1>6, <1>7 DEF PublishCourse, CoursesStay, ApprovalsStay, Exists
  <1>8. ASSUME NEW c \in Courses, ArchiveBegins(c)
        PROVE  UNCHANGED <<course, draft, review>>
    BY <1>8 DEF ArchiveBegins
  <1>9. ASSUME NEW c \in Courses, ArchiveCourse(c) \/ AdminArchiveCourse(c)
        PROVE  CoursesStay /\ DraftsGrow /\ ApprovalsStay
    <2>1. DraftsGrow
      BY <1>0, <1>a, <1>9 DEF ArchiveCourse, AdminArchiveCourse, DraftsGrow, DraftRows
    <2>2. CoursesStay /\ ApprovalsStay
      BY <1>0, <1>9 DEF ArchiveCourse, AdminArchiveCourse, CoursesStay, ApprovalsStay, Exists
    <2> QED
      BY <2>1, <2>2
  <1>10. ASSUME NEW r \in Reviews, ApproveReview(r) \/ RejectReview(r)
         PROVE  CoursesStay /\ DraftsGrow /\ ApprovalsStay
    <2>1. CASE ApproveReview(r)
      BY <1>0, <1>a, <1>6, <2>1 DEF ApproveReview, CoursesStay, ApprovalsStay, Exists
    <2>2. CASE RejectReview(r)
      <3>1. DraftsGrow
        BY <1>0, <1>a, <2>2 DEF RejectReview, DraftsGrow, DraftRows
      <3> QED
        BY <1>0, <2>2, <3>1 DEF RejectReview, CoursesStay, ApprovalsStay, Exists
    <2> QED
      BY <1>10, <2>1, <2>2
  <1> QED
    BY <1>1, <1>2, <1>3, <1>4, <1>5, <1>7, <1>8, <1>9, <1>10 DEF PublicationStep

LEMMA BehindStays ==
  ASSUME PublicationTypeOK, PublicationTypeOK', DraftsGrow,
         NEW c \in Courses, NEW version \in Nat, NEW content, IsBehind(c, version, content)
  PROVE  IsBehind(c, version, content)'
  <1>1. draft[c].version \in Nat /\ draft'[c].version \in Nat
    BY FirstVersion DEF PublicationTypeOK
  <1> QED
    BY <1>1 DEF IsBehind, DraftsGrow

-----------------------------------------------------------------------------
(* A step of the publication keeps what the invariant says of it.          *)

LEMMA KeepsPlaced ==
  ASSUME PublicationTypeOK, Placed, PublicationStep
  PROVE  Placed'
  <1>0. /\ draft \in [Courses -> DraftRows] /\ call \in [Requests -> CallRows]
        /\ review \in [Reviews -> ReviewRows] /\ archiving \subseteq Courses
        /\ course \in [Courses -> {"absent", "active", "deleted"}]
    BY PublicationAssumption DEF PublicationTypeOK, DraftRows, CallRows, ReviewRows
  <1>1. /\ \A q \in Requests : call[q].course \in Courses
        /\ \A r \in Reviews : review[r].course \in Courses
    BY <1>0 DEF CallRows, ReviewRows
  <1>2. CoursesStay
    BY PublicationStepGrows
  <1>3. ASSUME draft' = draft, call' = call, archiving' = archiving, review' = review
        PROVE  Placed'
    BY <1>0, <1>1, <1>2, <1>3 DEF Placed, CoursesStay, Exists
  <1>4. ASSUME NEW q \in Requests, SaveCall(q)
        PROVE  Placed'
    BY <1>0, <1>4 DEF SaveCall, SaveBegins, Placed, Exists
  <1>5. ASSUME NEW q \in Requests, UpdateDraft(q)
        PROVE  Placed'
    <2>1. Exists(call[q].course) /\ call[q] \in CallRows
      BY <1>0, <1>5 DEF UpdateDraft, Asked, Placed
    <2> QED
      BY <1>0, <1>1, <1>5, <2>1 DEF UpdateDraft, Placed, Exists, CallRows
  <1>6. ASSUME NEW q \in Requests, CallEnds(q)
        PROVE  Placed'
    BY <1>0, <1>6 DEF CallEnds, NoCall, Placed, Exists
  <1>7. ASSUME NEW q \in Requests, NEW c \in Courses, SubmitBegins(q, c)
        PROVE  Placed'
    BY <1>0, <1>7 DEF SubmitBegins, NoCall, Placed, Exists
  <1>8. ASSUME NEW q \in Requests, NEW r \in Reviews, SubmitReview(q, r)
        PROVE  Placed'
    <2>1. Exists(call[q].course) /\ call[q] \in CallRows
      BY <1>0, <1>8 DEF SubmitReview, Asked, Placed
    <2> QED
      BY <1>0, <1>1, <1>8, <2>1 DEF SubmitReview, Placed, Exists, CallRows
  <1>9. ASSUME NEW c \in Courses, CreateCourse(c)
        PROVE  Placed'
    BY <1>0, <1>1, <1>2, <1>9 DEF CreateCourse, Placed, Exists, CoursesStay
  <1>10. ASSUME NEW c \in Courses, PublishCourse(c)
         PROVE  Placed'
    BY <1>0, <1>10 DEF PublishCourse, Publish, Placed, Exists
  <1>11. ASSUME NEW c \in Courses, ArchiveBegins(c)
         PROVE  Placed'
    BY <1>0, <1>11 DEF ArchiveBegins, Placed, Exists
  <1>12. ASSUME NEW c \in Courses, ArchiveCourse(c) \/ AdminArchiveCourse(c)
         PROVE  Placed'
    <2>1. Exists(c) /\ course' = [course EXCEPT ![c] = "deleted"]
      BY <1>0, <1>12 DEF ArchiveCourse, AdminArchiveCourse, Placed, Exists
    <2>2. \A d \in Courses : Exists(d)' <=> Exists(d)
      BY <1>0, <2>1 DEF Exists
    <2>3. /\ \A d \in Courses \ {c} : draft'[d] = draft[d]
          /\ archiving' \subseteq archiving /\ UNCHANGED <<call, review>>
      BY <1>0, <1>12 DEF ArchiveCourse, AdminArchiveCourse
    <2>4. \A d \in Courses : ~Exists(d)' => draft'[d] = NoDraft
      BY <2>1, <2>2, <2>3 DEF Placed
    <2> QED
      BY <1>0, <1>1, <2>2, <2>3, <2>4 DEF Placed, Exists
  <1>13. ASSUME NEW r \in Reviews, ApproveReview(r) \/ RejectReview(r)
         PROVE  Placed'
    <2> DEFINE c == review[r].course
    <2>1. Exists(c) /\ c \in Courses
      BY <1>1, <1>13 DEF ApproveReview, RejectReview, Placed
    <2>2. /\ \A d \in Courses \ {c} : draft'[d] = draft[d]
          /\ \A s \in Reviews : review'[s].course = review[s].course
          /\ \A s \in Reviews \ {r} : review'[s] = review[s]
          /\ UNCHANGED <<course, call, archiving>>
      <3>1. /\ UNCHANGED <<course, call, archiving>>
            /\ \A d \in Courses \ {c} : draft'[d] = draft[d]
        BY <1>0, <1>13 DEF ApproveReview, RejectReview, Publish
      <3>2. /\ \A s \in Reviews \ {r} : review'[s] = review[s]
            /\ review'[r].course = review[r].course
        <4>1. \E verdict : review' = [review EXCEPT ![r].status = verdict]
          BY <1>13 DEF ApproveReview, RejectReview
        <4> QED
          BY <1>0, <4>1 DEF ReviewRows
      <3> QED
        BY <3>1, <3>2
    <2> HIDE DEF c
    <2>3. Exists(review[r].course)
      BY <2>1 DEF c
    <2> QED
      BY <1>0, <1>1, <2>1, <2>2, <2>3 DEF Placed, Exists
  <1> QED
    BY <1>4, <1>5, <1>6, <1>7, <1>8, <1>9, <1>10, <1>11, <1>12, <1>13 DEF PublicationStep

LEMMA KeepsSavesTaken ==
  ASSUME PublicationTypeOK, PublicationTypeOK', Placed, SavesTaken, PublicationStep
  PROVE  SavesTaken'
  <1>a. draft \in [Courses -> DraftRows] /\ call \in [Requests -> CallRows]
    BY DEF PublicationTypeOK, DraftRows, CallRows
  <1>0. /\ draft \in [Courses -> DraftRows] /\ call \in [Requests -> CallRows]
        /\ \A q \in Requests : call[q].course \in Courses /\ call[q].version + 1 \in Nat
        /\ DraftsGrow
    <2>1. ASSUME NEW q \in Requests
          PROVE  call[q].course \in Courses /\ call[q].version \in Nat
      BY <1>a, FirstVersion DEF CallRows
    <2> QED
      BY <1>a, <2>1, PublicationStepGrows
  <1>1. ASSUME NEW q \in Requests, call'[q] = call[q],
               call[q].op = "save", call[q].phase = "done"
        PROVE  IsBehind(call[q].course, call[q].version + 1, call[q].content)'
    <2>1. IsBehind(call[q].course, call[q].version + 1, call[q].content)
      BY <1>1 DEF SavesTaken
    <2> DEFINE c == call[q].course
    <2>2. /\ c \in Courses /\ call[q].version + 1 \in Nat
          /\ draft[c].version \in Nat /\ draft'[c].version \in Nat
      BY <1>0, FirstVersion DEF PublicationTypeOK
    <2> QED
      BY <1>0, <1>1, <2>1, <2>2 DEF IsBehind, DraftsGrow
  <1>2. ASSUME NEW q \in Requests, \A p \in Requests \ {q} : call'[p] = call[p],
               call'[q].phase = "begun" \/ call'[q].op = "none" \/ call'[q].op = "submit"
        PROVE  SavesTaken'
    BY <1>1, <1>2 DEF SavesTaken
  <1>3. ASSUME call' = call
        PROVE  SavesTaken'
    BY <1>1, <1>3 DEF SavesTaken
  <1>4. ASSUME NEW q \in Requests, SaveCall(q) \/ \E c \in Courses : SubmitBegins(q, c)
        PROVE  SavesTaken'
    <2>1. CASE SaveCall(q)
      BY <1>0, <1>2, <2>1 DEF SaveCall, SaveBegins
    <2>2. ASSUME NEW c \in Courses, SubmitBegins(q, c)
          PROVE  SavesTaken'
      <3> DEFINE row == [NoCall EXCEPT !.op = "submit", !.course = c,
                                       !.version = draft[c].version]
      <3>1. row.op = "submit" /\ call' = [call EXCEPT ![q] = row]
        BY <2>2 DEF SubmitBegins, NoCall
      <3> HIDE DEF row
      <3> QED
        BY <1>0, <1>2, <3>1
    <2> QED
      BY <1>4, <2>1, <2>2
  <1>5. ASSUME NEW q \in Requests, CallEnds(q) \/ \E r \in Reviews : SubmitReview(q, r)
        PROVE  SavesTaken'
    <2>1. /\ \A p \in Requests \ {q} : call'[p] = call[p]
          /\ call'[q].op = "none" \/ call'[q].op = "submit"
      BY <1>0, <1>5 DEF CallEnds, NoCall, SubmitReview, Asked, CallRows
    <2> QED
      BY <1>2, <2>1
  <1>6. ASSUME NEW q \in Requests, UpdateDraft(q)
        PROVE  SavesTaken'
    <2> DEFINE c == call[q].course
    <2>1. \A p \in Requests \ {q} : call'[p] = call[p]
      BY <1>0, <1>6 DEF UpdateDraft
    <2>2. /\ call'[q].course = c /\ call'[q].version = call[q].version
          /\ call'[q].content = call[q].content
      BY <1>0, <1>6 DEF UpdateDraft, CallRows
    <2>3. /\ draft'[c].version = call[q].version + 1
          /\ draft'[c].content = call[q].content
      BY <1>0, <1>6 DEF UpdateDraft
    <2>4. IsBehind(call[q].course, call[q].version + 1, call[q].content)'
      BY <1>0, <2>2, <2>3 DEF IsBehind
    <2> QED
      BY <1>1, <2>1, <2>4 DEF SavesTaken
  <1>7. ASSUME NEW c \in Courses,
               \/ CreateCourse(c) \/ PublishCourse(c)
               \/ ArchiveBegins(c) \/ ArchiveCourse(c) \/ AdminArchiveCourse(c)
        PROVE  SavesTaken'
    BY <1>3, <1>7
    DEF CreateCourse, PublishCourse, ArchiveBegins, ArchiveCourse, AdminArchiveCourse
  <1>8. ASSUME NEW r \in Reviews, ApproveReview(r) \/ RejectReview(r)
        PROVE  SavesTaken'
    BY <1>3, <1>8 DEF ApproveReview, RejectReview
  <1> QED
    BY <1>4, <1>5, <1>6, <1>7, <1>8 DEF PublicationStep

LEMMA KeepsOnePending ==
  ASSUME PublicationTypeOK, OnePending, PublicationStep
  PROVE  OnePending'
  <1>0. /\ draft \in [Courses -> DraftRows] /\ call \in [Requests -> CallRows]
        /\ review \in [Reviews -> ReviewRows]
        /\ \A q \in Requests : call[q].course \in Courses
        /\ \A r \in Reviews : review[r].course \in Courses
    BY DEF PublicationTypeOK, DraftRows, CallRows, ReviewRows
  <1>1. ASSUME review' = review,
               \A c \in Courses : draft'[c].workflow = "in_review"
                                    => draft[c].workflow = "in_review"
        PROVE  OnePending'
    BY <1>1 DEF OnePending
  <1>2. ASSUME NEW q \in Requests,
               SaveCall(q) \/ CallEnds(q) \/ \E c \in Courses : SubmitBegins(q, c)
        PROVE  OnePending'
    BY <1>1, <1>2 DEF SaveCall, SaveBegins, CallEnds, SubmitBegins
  <1>3. ASSUME NEW q \in Requests, UpdateDraft(q)
        PROVE  OnePending'
    BY <1>0, <1>1, <1>3 DEF UpdateDraft
  <1>4. ASSUME NEW q \in Requests, NEW r \in Reviews, SubmitReview(q, r)
        PROVE  OnePending'
    <2> DEFINE c == call[q].course
    <2>1. /\ c \in Courses /\ Pending(c) = {}
          /\ review'[r].course = c /\ review'[r].status = "pending"
          /\ \A s \in Reviews \ {r} : review'[s] = review[s]
          /\ \A d \in Courses \ {c} : draft'[d] = draft[d]
          /\ review[r].status = "absent"
      BY <1>0, <1>4 DEF SubmitReview
    <2> HIDE DEF c
    <2>2. ASSUME NEW d \in Courses, draft'[d].workflow = "in_review"
          PROVE  \E s \in Reviews : review'[s].course = d /\ review'[s].status = "pending"
      BY <2>1, <2>2 DEF OnePending, Pending
    <2>3. ASSUME NEW s \in Reviews, NEW t \in Reviews,
                 review'[s].status = "pending", review'[t].status = "pending",
                 review'[s].course = review'[t].course
          PROVE  s = t
      BY <2>1, <2>3 DEF OnePending, Pending
    <2> QED
      BY <2>2, <2>3 DEF OnePending
  <1>5. ASSUME NEW c \in Courses, CreateCourse(c)
        PROVE  OnePending'
    BY <1>0, <1>1, <1>5 DEF CreateCourse, NoDraft
  <1>6. ASSUME NEW c \in Courses, PublishCourse(c)
        PROVE  OnePending'
    BY <1>0, <1>1, <1>6 DEF PublishCourse, Publish, DraftRows
  <1>7. ASSUME NEW c \in Courses, ArchiveBegins(c)
        PROVE  OnePending'
    BY <1>1, <1>7 DEF ArchiveBegins
  <1>8. ASSUME NEW c \in Courses, ArchiveCourse(c) \/ AdminArchiveCourse(c)
        PROVE  OnePending'
    BY <1>0, <1>1, <1>8 DEF ArchiveCourse, AdminArchiveCourse, DraftRows
  <1>9. ASSUME NEW r \in Reviews, ApproveReview(r) \/ RejectReview(r)
        PROVE  OnePending'
    <2> DEFINE c == review[r].course
    <2>1. /\ c \in Courses /\ draft'[c].workflow # "in_review"
          /\ \A d \in Courses \ {c} : draft'[d] = draft[d]
      BY <1>0, <1>9, SMTT(30) DEF ApproveReview, RejectReview, Publish, DraftRows
    <2>2. /\ review'[r].status # "pending" /\ review'[r].course = review[r].course
          /\ \A s \in Reviews \ {r} : review'[s] = review[s]
      <3>1. PICK verdict : /\ review' = [review EXCEPT ![r].status = verdict]
                           /\ verdict # "pending"
        BY <1>9 DEF ApproveReview, RejectReview
      <3> QED
        BY <1>0, <3>1 DEF ReviewRows
    <2> HIDE DEF c
    <2>3. c = review[r].course
      BY DEF c
    <2>4. ASSUME NEW d \in Courses, draft'[d].workflow = "in_review"
          PROVE  \E s \in Reviews : review'[s].course = d /\ review'[s].status = "pending"
      BY <2>1, <2>2, <2>3, <2>4 DEF OnePending
    <2>5. ASSUME NEW s \in Reviews, NEW t \in Reviews,
                 review'[s].status = "pending", review'[t].status = "pending",
                 review'[s].course = review'[t].course
          PROVE  s = t
      BY <2>2, <2>5 DEF OnePending
    <2> QED
      BY <2>4, <2>5 DEF OnePending
  <1> QED
    BY <1>2, <1>3, <1>4, <1>5, <1>6, <1>7, <1>8, <1>9 DEF PublicationStep

LEMMA PublishedLast ==
  ASSUME PublicationTypeOK, NEW c \in Courses, Publish(c)
  PROVE  /\ Len(revisions'[c]) = Len(revisions[c]) + 1
         /\ \A i \in DOMAIN revisions'[c] :
              revisions'[c][i].current <=> i = Len(revisions'[c])
         /\ \A d \in Courses \ {c} : revisions'[d] = revisions[d]
  <1> DEFINE old == [i \in DOMAIN revisions[c] |-> [revisions[c][i] EXCEPT !.current = FALSE]]
             new == [content |-> draft[c].content, version |-> draft[c].version,
                     current |-> TRUE]
             n == Len(revisions[c])
  <1>1. /\ revisions \in [Courses -> Seq(RevisionRows)]
        /\ revisions[c] \in Seq(RevisionRows)
    BY DEF PublicationTypeOK, RevisionRows
  <1>2. /\ n \in Nat /\ DOMAIN revisions[c] = 1..n
        /\ \A i \in 1..n : revisions[c][i] \in RevisionRows
    BY <1>1
  <1>3. \A i \in 1..n : /\ old[i] \in RevisionRows
                        /\ old[i].current = FALSE
    BY <1>2 DEF RevisionRows
  <1>4. old \in [1..n -> RevisionRows] /\ new.current = TRUE
    BY <1>2, <1>3
  <1>5. revisions' = [revisions EXCEPT ![c] = Append(old, new)]
    BY <1>1 DEF Publish
  <1> HIDE DEF old, new, n
  <1>6. old \in Seq(RevisionRows) /\ Len(old) = n
    BY <1>2, <1>4
  <1>7. /\ Len(Append(old, new)) = n + 1 /\ DOMAIN Append(old, new) = 1..(n + 1)
        /\ \A i \in 1..n : Append(old, new)[i] = old[i]
        /\ Append(old, new)[n + 1] = new
    BY <1>2, <1>6
  <1>8. revisions'[c] = Append(old, new) /\ \A d \in Courses \ {c} : revisions'[d] = revisions[d]
    BY <1>1, <1>5
  <1>9. \A i \in 1..(n + 1) : Append(old, new)[i].current <=> i = n + 1
    <2> TAKE i \in 1..(n + 1)
    <2>1. CASE i = n + 1
      BY <1>4, <1>7, <2>1
    <2>2. CASE i \in 1..n
      <3>1. Append(old, new)[i].current = FALSE /\ i # n + 1
        BY <1>2, <1>3, <1>7, <2>2
      <3> QED
        BY <3>1
    <2>3. i = n + 1 \/ i \in 1..n
      BY <1>2
    <2> QED
      BY <2>1, <2>2, <2>3
  <1> QED
    BY <1>7, <1>8, <1>9 DEF n

LEMMA KeepsRevisions ==
  ASSUME PublicationTypeOK, LastIsCurrent, RevisionsCounted, PublicationStep
  PROVE  LastIsCurrent' /\ RevisionsCounted'
  <1>0. /\ review \in [Reviews -> ReviewRows]
        /\ \A r \in Reviews : review[r].course \in Courses
        /\ TeacherCourses \subseteq Courses
    BY PublicationAssumption DEF PublicationTypeOK, ReviewRows
  <1>1. ASSUME revisions' = revisions
        PROVE  LastIsCurrent'
    BY <1>1 DEF LastIsCurrent
  <1>2. ASSUME revisions' = revisions,
               \A c \in TeacherCourses : ApprovedReviews(c)' = ApprovedReviews(c)
        PROVE  RevisionsCounted'
    BY <1>2 DEF RevisionsCounted
  <1>3. ASSUME revisions' = revisions, review' = review
        PROVE  LastIsCurrent' /\ RevisionsCounted'
    BY <1>1, <1>2, <1>3 DEF ApprovedReviews
  <1>4. ASSUME NEW q \in Requests,
               \/ SaveCall(q) \/ UpdateDraft(q) \/ CallEnds(q)
               \/ \E c \in Courses : SubmitBegins(q, c)
        PROVE  LastIsCurrent' /\ RevisionsCounted'
    BY <1>3, <1>4 DEF SaveCall, SaveBegins, UpdateDraft, CallEnds, SubmitBegins
  <1>5. ASSUME NEW q \in Requests, NEW r \in Reviews, SubmitReview(q, r)
        PROVE  LastIsCurrent' /\ RevisionsCounted'
    <2>1. /\ \A s \in Reviews \ {r} : review'[s] = review[s]
          /\ review[r].status = "absent" /\ review'[r].status = "pending"
          /\ revisions' = revisions
      BY <1>0, <1>5 DEF SubmitReview
    <2>2. ASSUME NEW c \in TeacherCourses
          PROVE  ApprovedReviews(c)' = ApprovedReviews(c)
      BY <2>1 DEF ApprovedReviews
    <2> QED
      BY <1>1, <1>2, <2>1, <2>2
  <1>6. ASSUME NEW c \in Courses,
               CreateCourse(c) \/ ArchiveBegins(c) \/ ArchiveCourse(c) \/ AdminArchiveCourse(c)
        PROVE  LastIsCurrent' /\ RevisionsCounted'
    BY <1>3, <1>6 DEF CreateCourse, ArchiveBegins, ArchiveCourse, AdminArchiveCourse
  <1>7. ASSUME NEW c \in Courses, Publish(c)
        PROVE  LastIsCurrent'
    BY <1>7, PublishedLast DEF LastIsCurrent
  <1>8. ASSUME NEW c \in Courses, PublishCourse(c)
        PROVE  LastIsCurrent' /\ RevisionsCounted'
    <2>1. Publish(c) /\ review' = review /\ c \notin TeacherCourses
      BY <1>8 DEF PublishCourse
    <2>2. \A d \in TeacherCourses : revisions'[d] = revisions[d]
      BY <1>0, <2>1, PublishedLast
    <2> QED
      BY <1>7, <2>1, <2>2 DEF RevisionsCounted, ApprovedReviews
  <1>9. ASSUME NEW r \in Reviews, ApproveReview(r)
        PROVE  LastIsCurrent' /\ RevisionsCounted'
    <2> DEFINE c == review[r].course
    <2>1. c \in Courses /\ Publish(c)
      BY <1>0, <1>9 DEF ApproveReview
    <2>2. /\ review[r].status = "pending" /\ review'[r].status = "approved"
          /\ review'[r].course = c
          /\ \A s \in Reviews \ {r} : review'[s] = review[s]
      BY <1>0, <1>9 DEF ApproveReview, ReviewRows
    <2>3. /\ Len(revisions'[c]) = Len(revisions[c]) + 1
          /\ \A d \in Courses \ {c} : revisions'[d] = revisions[d]
      BY <2>1, PublishedLast
    <2>4. ASSUME NEW d \in TeacherCourses, d # c
          PROVE  ApprovedReviews(d)' = ApprovedReviews(d)
      BY <2>2, <2>4 DEF ApprovedReviews
    <2>5. ASSUME NEW d \in TeacherCourses, d = c
          PROVE  /\ ApprovedReviews(d)' = ApprovedReviews(d) \cup {r}
                 /\ r \notin ApprovedReviews(d)
      BY <2>2, <2>5 DEF ApprovedReviews
    <2>6. ASSUME NEW d \in TeacherCourses
          PROVE  /\ IsFiniteSet(ApprovedReviews(d)')
                 /\ Len(revisions'[d]) = Cardinality(ApprovedReviews(d)')
      <3>1. CASE d # c
        BY <1>0, <2>3, <2>4, <3>1 DEF RevisionsCounted
      <3>2. CASE d = c
        <4>1. /\ IsFiniteSet(ApprovedReviews(d))
              /\ Len(revisions[d]) = Cardinality(ApprovedReviews(d))
          BY DEF RevisionsCounted
        <4>2. /\ ApprovedReviews(d)' = ApprovedReviews(d) \cup {r}
              /\ r \notin ApprovedReviews(d)
          BY <2>5, <3>2
        <4>3. /\ IsFiniteSet(ApprovedReviews(d) \cup {r})
              /\ Cardinality(ApprovedReviews(d) \cup {r}) = Cardinality(ApprovedReviews(d)) + 1
          BY <4>1, <4>2, FS_AddElement
        <4> QED
          BY <2>3, <3>2, <4>1, <4>2, <4>3
      <3> QED
        BY <3>1, <3>2
    <2> QED
      BY <1>7, <2>1, <2>6 DEF RevisionsCounted
  <1>10. ASSUME NEW r \in Reviews, RejectReview(r)
         PROVE  LastIsCurrent' /\ RevisionsCounted'
    <2>1. /\ \A s \in Reviews \ {r} : review'[s] = review[s]
          /\ review[r].status = "pending" /\ review'[r].status = "rejected"
          /\ revisions' = revisions
      BY <1>0, <1>10 DEF RejectReview, ReviewRows
    <2>2. ASSUME NEW c \in TeacherCourses
          PROVE  ApprovedReviews(c)' = ApprovedReviews(c)
      BY <2>1 DEF ApprovedReviews
    <2> QED
      BY <1>1, <1>2, <2>1, <2>2
  <1> QED
    BY <1>4, <1>5, <1>6, <1>8, <1>9, <1>10 DEF PublicationStep

-----------------------------------------------------------------------------
(* Access.                                                                 *)

(* A teacher's course has been published only by an approval.              *)
LEMMA PublishedIsApproved ==
  ASSUME PublicationTypeOK, RevisionsCounted, NEW c \in TeacherCourses, Published(c)
  PROVE  Approved(c)
  <1>1. c \in Courses /\ revisions[c] \in Seq(RevisionRows)
    BY PublicationAssumption DEF PublicationTypeOK, RevisionRows
  <1>2. Len(revisions[c]) # 0
    BY <1>1 DEF Published
  <1>3. ApprovedReviews(c) # {}
    BY <1>2, FS_EmptySet DEF RevisionsCounted
  <1> QED
    BY <1>3 DEF ApprovedReviews, Approved

GrantRows == [student : Students, course : TeacherCourses, via : Links \cup {ByAdmin}]

LEMMA GrantKeeps ==
  ASSUME NEW s \in Students, NEW c \in TeacherCourses, NEW via \in Links \cup {ByAdmin},
         grants \subseteq GrantRows, GrantedWasApproved, Approved(c),
         Grant(s, c, via), review' = review
  PROVE  grants' \subseteq GrantRows /\ GrantedWasApproved'
  <1> DEFINE g == [student |-> s, course |-> c, via |-> via]
  <1>1. g \in GrantRows /\ g.course = c
    BY DEF GrantRows
  <1>2. grants' = grants \/ grants' = grants \cup {g}
    BY DEF Grant
  <1> HIDE DEF g
  <1> QED
    BY <1>1, <1>2 DEF GrantedWasApproved, Approved

LEMMA AccessStepKeepsAccess ==
  ASSUME AccessTypeOK, RevisionsCounted, AccessApproved, AccessStep
  PROVE  AccessTypeOK' /\ AccessApproved'
  <1>0. /\ PublicationTypeOK
        /\ link \in [Links -> LinkRows] /\ creating \subseteq TeacherCourses
        /\ granting \subseteq Students \X TeacherCourses /\ grants \subseteq GrantRows
    BY DEF AccessTypeOK, LinkRows, GrantRows
  <1>1. ASSUME UNCHANGED publicationVars,
               link' \in [Links -> LinkRows], creating' \subseteq TeacherCourses,
               granting' \subseteq Students \X TeacherCourses, grants' \subseteq GrantRows
        PROVE  AccessTypeOK'
    <2>1. PublicationTypeOK'
      BY <1>0, <1>1 DEF PublicationTypeOK, publicationVars
    <2> QED
      BY <1>1, <2>1 DEF AccessTypeOK, LinkRows, GrantRows
  <1>2. ASSUME NEW c \in Courses, CreateLinkBegins(c)
        PROVE  AccessTypeOK' /\ AccessApproved'
    <2>1. c \in TeacherCourses /\ Approved(c)
      BY <1>0, <1>2, PublishedIsApproved DEF CreateLinkBegins, Shareable
    <2>2. /\ creating' = creating \cup {c}
          /\ UNCHANGED <<publicationVars, link, granting, grants>>
      BY <1>2 DEF CreateLinkBegins
    <2>3. AccessTypeOK'
      BY <1>0, <1>1, <2>1, <2>2
    <2> QED
      BY <2>1, <2>2, <2>3
      DEF AccessApproved, GrantedWasApproved, Approved, publicationVars
  <1>3. ASSUME NEW l \in Links, RevokeLink(l) \/ LinkGrowsOld(l)
        PROVE  AccessTypeOK' /\ AccessApproved'
    <2>1. UNCHANGED <<publicationVars, creating, granting, grants>>
      BY <1>3 DEF RevokeLink, LinkGrowsOld
    <2>2. PICK row \in LinkRows : link' = [link EXCEPT ![l] = row]
      <3>1. /\ [link[l] EXCEPT !.status = "revoked"] \in LinkRows
            /\ [link[l] EXCEPT !.late = TRUE] \in LinkRows
        BY <1>0 DEF LinkRows
      <3> QED
        BY <1>3, <3>1 DEF RevokeLink, LinkGrowsOld
    <2>3. /\ link'[l].course = link[l].course
          /\ link[l].status = "absent" => link'[l].status = "absent"
          /\ \A k \in Links \ {l} : link'[k] = link[k]
      BY <1>0, <1>3 DEF RevokeLink, LinkGrowsOld, LinkRows
    <2>4. AccessTypeOK'
      BY <1>0, <1>1, <2>1, <2>2
    <2>5. \A k \in Links : link'[k].status # "absent" =>
            link'[k].course \in TeacherCourses /\ Approved(link'[k].course)
      BY <2>3 DEF AccessApproved
    <2>6. review' = review
      BY <2>1 DEF publicationVars
    <2> QED
      BY <2>1, <2>4, <2>5, <2>6 DEF AccessApproved, GrantedWasApproved, Approved
  <1>4. ASSUME NEW l \in Links, NEW c \in Courses, NEW dated \in BOOLEAN,
               CreateLink(l, c, dated)
        PROVE  AccessTypeOK' /\ AccessApproved'
    <2> DEFINE row == [course |-> c, status |-> "active", dated |-> dated, late |-> FALSE]
    <2>1. /\ c \in TeacherCourses /\ Approved(c) /\ creating' \subseteq creating
          /\ UNCHANGED <<publicationVars, granting, grants>>
          /\ link' = [link EXCEPT ![l] = row]
      BY <1>0, <1>4 DEF CreateLink, AccessApproved
    <2>2. row \in LinkRows /\ row.course = c
      BY DEF LinkRows
    <2> HIDE DEF row
    <2>3. AccessTypeOK'
      BY <1>0, <1>1, <2>1, <2>2
    <2>4. \A k \in Links : link'[k].status # "absent" =>
            link'[k].course \in TeacherCourses /\ Approved(link'[k].course)
      BY <1>0, <2>1, <2>2 DEF AccessApproved
    <2>5. review' = review
      BY <2>1 DEF publicationVars
    <2> QED
      BY <2>1, <2>3, <2>4, <2>5 DEF AccessApproved, GrantedWasApproved, Approved
  <1>5. ASSUME NEW s \in Students, NEW c \in TeacherCourses, NEW via \in Links \cup {ByAdmin},
               Approved(c), Grant(s, c, via), granting' \subseteq granting,
               UNCHANGED <<publicationVars, link, creating>>
        PROVE  AccessTypeOK' /\ AccessApproved'
    <2>1. review' = review
      BY <1>5 DEF publicationVars
    <2>2. grants' \subseteq GrantRows /\ GrantedWasApproved'
      BY <1>0, <1>5, <2>1, GrantKeeps DEF AccessApproved
    <2>3. AccessTypeOK'
      BY <1>0, <1>1, <1>5, <2>2
    <2> QED
      BY <1>5, <2>1, <2>2, <2>3 DEF AccessApproved, Approved
  <1>6. ASSUME NEW s \in Students, NEW l \in Links, ClaimLink(s, l)
        PROVE  AccessTypeOK' /\ AccessApproved'
    <2>1. /\ link[l].course \in TeacherCourses /\ Approved(link[l].course)
          /\ Grant(s, link[l].course, l)
          /\ UNCHANGED <<publicationVars, link, creating, granting>>
      BY <1>6 DEF ClaimLink, AccessApproved
    <2> QED
      BY <1>5, <2>1
  <1>7. ASSUME NEW s \in Students, NEW c \in Courses, AdminGrantBegins(s, c)
        PROVE  AccessTypeOK' /\ AccessApproved'
    <2>1. c \in TeacherCourses /\ Approved(c)
      BY <1>0, <1>7, PublishedIsApproved DEF AdminGrantBegins, Shareable
    <2>2. /\ granting' = granting \cup {<<s, c>>}
          /\ UNCHANGED <<publicationVars, link, creating, grants>>
      BY <1>7 DEF AdminGrantBegins
    <2>3. AccessTypeOK'
      BY <1>0, <1>1, <2>1, <2>2
    <2> QED
      BY <2>1, <2>2, <2>3
      DEF AccessApproved, GrantedWasApproved, Approved, publicationVars
  <1>8. ASSUME NEW s \in Students, NEW c \in Courses, AdminGrant(s, c)
        PROVE  AccessTypeOK' /\ AccessApproved'
    <2>1. c \in TeacherCourses /\ Approved(c)
      BY <1>0, <1>8 DEF AdminGrant, AccessApproved
    <2>2. /\ Grant(s, c, ByAdmin) /\ granting' \subseteq granting
          /\ UNCHANGED <<publicationVars, link, creating>>
      BY <1>8 DEF AdminGrant
    <2> QED
      BY <1>5, <2>1, <2>2
  <1> QED
    BY <1>2, <1>3, <1>4, <1>6, <1>7, <1>8 DEF AccessStep, AccessServer

-----------------------------------------------------------------------------
(* The invariant of the server.                                            *)

LEMMA ServerInit ==
  ASSUME Init
  PROVE  ServerInv
  <1>1. AccessTypeOK
    <2>1. PublicationTypeOK
      BY EmptyRows
      DEF Init, PublicationInit, PublicationTypeOK, DraftRows, CallRows, ReviewRows
    <2>2. NoLink \in LinkRows
      <3>1. (CHOOSE c \in Courses : TRUE) \in Courses
        BY PublicationAssumption
      <3> QED
        BY <3>1 DEF NoLink, LinkRows
    <2> QED
      BY <2>1, <2>2 DEF Init, AccessTypeOK, LinkRows
  <1>2. Placed /\ SavesTaken /\ OnePending /\ LastIsCurrent
    BY DEF Init, PublicationInit, Placed, SavesTaken, OnePending, LastIsCurrent,
           NoDraft, NoCall, NoReview, Exists
  <1>3. RevisionsCounted
    <2>1. ASSUME NEW c \in TeacherCourses
          PROVE  ApprovedReviews(c) = {} /\ revisions[c] = <<>>
      BY PublicationAssumption DEF Init, PublicationInit, NoReview, ApprovedReviews
    <2>2. IsFiniteSet({}) /\ Cardinality({}) = 0
      BY FS_EmptySet
    <2>3. ASSUME NEW c \in TeacherCourses
          PROVE  Len(revisions[c]) = 0
      BY <2>1
    <2> QED
      BY <2>1, <2>2, <2>3 DEF RevisionsCounted
  <1>4. AccessApproved
    BY DEF Init, NoLink, AccessApproved, GrantedWasApproved
  <1> QED
    BY <1>1, <1>2, <1>3, <1>4 DEF ServerInv

LEMMA ServerStepKeepsInv ==
  ASSUME ServerInv, [ServerStep]_vars
  PROVE  ServerInv'
  <1>1. ASSUME PublicationStep, UNCHANGED accessVars
        PROVE  ServerInv'
    <2>0. PublicationTypeOK
      BY DEF ServerInv, AccessTypeOK
    <2>1. PublicationTypeOK'
      BY <1>1, <2>0, CallStepTypes, CourseStepTypes, ReviewStepTypes DEF PublicationStep
    <2>2. ApprovalsStay
      BY <1>1, <2>0, PublicationStepGrows DEF ServerInv
    <2>3. Placed' /\ SavesTaken' /\ OnePending' /\ LastIsCurrent' /\ RevisionsCounted'
      BY <1>1, <2>0, <2>1, KeepsPlaced, KeepsSavesTaken, KeepsOnePending, KeepsRevisions
      DEF ServerInv
    <2>4. AccessTypeOK'
      BY <1>1, <2>1 DEF ServerInv, AccessTypeOK, accessVars
    <2>5. AccessApproved'
      BY <1>1, <2>2 DEF ServerInv, AccessApproved, GrantedWasApproved, Approved,
                        ApprovalsStay, accessVars
    <2> QED
      BY <2>3, <2>4, <2>5 DEF ServerInv
  <1>2. ASSUME UNCHANGED publicationVars
        PROVE  Placed' /\ SavesTaken' /\ OnePending' /\ LastIsCurrent' /\ RevisionsCounted'
    BY <1>2 DEF ServerInv, Placed, SavesTaken, OnePending, LastIsCurrent, RevisionsCounted,
                Exists, IsBehind, ApprovedReviews, publicationVars
  <1>3. CASE AccessStep
    <2>1. UNCHANGED publicationVars
      BY <1>3 DEF AccessStep, AccessServer, CreateLinkBegins, RevokeLink, CreateLink,
                  LinkGrowsOld, ClaimLink, AdminGrantBegins, AdminGrant
    <2> QED
      BY <1>2, <1>3, <2>1, AccessStepKeepsAccess DEF ServerInv
  <1>4. CASE UNCHANGED vars
    <2>1. UNCHANGED publicationVars /\ UNCHANGED accessVars
      BY <1>4 DEF vars
    <2>2. AccessTypeOK'
      BY <2>1 DEF ServerInv, AccessTypeOK, PublicationTypeOK, publicationVars, accessVars
    <2>3. AccessApproved'
      BY <2>1 DEF ServerInv, AccessApproved, GrantedWasApproved, Approved,
                  publicationVars, accessVars
    <2> QED
      BY <1>2, <2>1, <2>2, <2>3 DEF ServerInv
  <1> QED
    BY <1>1, <1>3, <1>4 DEF ServerStep

(* The invariant holds of the server, whoever calls it: rows have their    *)
(* types and refer to courses that exist, an accepted save is a version of *)
(* the draft, and revisions and access follow the reviews.                 *)
THEOREM ServerInvariant == ServerSpec => []ServerInv
  <1>1. Init => ServerInv
    BY ServerInit
  <1>2. ServerInv /\ [ServerStep]_vars => ServerInv'
    BY ServerStepKeepsInv
  <1> QED
    BY <1>1, <1>2, PTL DEF ServerSpec

-----------------------------------------------------------------------------
(* What follows from it.                                                   *)

LEMMA OneReviewPending ==
  ASSUME ServerInv
  PROVE  InReviewIsPending
  <1>1. ASSUME NEW c \in Courses, draft[c].workflow = "in_review"
        PROVE  Cardinality(Pending(c)) = 1
    <2>1. PICK r \in Reviews : review[r].course = c /\ review[r].status = "pending"
      BY <1>1 DEF ServerInv, OnePending
    <2>2. Pending(c) = {r}
      BY <2>1 DEF ServerInv, OnePending, Pending
    <2> QED
      BY <2>2, FS_Singleton
  <1> QED
    BY <1>1 DEF InReviewIsPending

LEMMA RevisionsAreReviewed ==
  ASSUME ServerInv
  PROVE  PublishedByReview
  BY DEF ServerInv, LastIsCurrent, RevisionsCounted, ApprovedReviews, PublishedByReview

-----------------------------------------------------------------------------
(* The pages.                                                              *)

PageRows(forms) ==
  [at : {"away", "outline", "lesson"}, course : Courses,
   lesson : LessonIds \cup {NoLesson}, known : BOOLEAN, typed : forms,
   base : Contents, version : Versions, editable : BOOLEAN, shared : BOOLEAN,
   saving : BOOLEAN, submitting : BOOLEAN, fetched : Snapshots \cup {NoFetch}]
AskedRows ==
  [page : Pages, course : Courses, purpose : Purposes,
   lesson : LessonIds \cup {NoLesson}, base : Contents, live : BOOLEAN]

IsPage(row) == row \in PageRows({row.typed})

DeskShape ==
  /\ page = [p \in Pages |-> page[p]]
  /\ \A p \in Pages : IsPage(page[p])
  /\ asked \in [Requests -> AskedRows]

(* What a page holds, and what it is about to show, of the draft.          *)
RowBehind(row) ==
  /\ row.known => IsBehind(row.course, row.version, row.base)
  /\ row.fetched # NoFetch =>
       IsBehind(row.course, row.fetched.version, row.fetched.content)

PagesBehind == \A p \in Pages : RowBehind(page[p])

(* What a save under way was written over.                                 *)
SaveBehind(c, a) ==
  c.op = "save" /\ c.phase = "begun" => IsBehind(c.course, c.version, a.base)

SavesBehind == \A q \in Requests : SaveBehind(call[q], asked[q])

(* A page that waits for an answer shows the course it asked about, unless *)
(* that course is gone.                                                    *)
Attached(a, c, row) ==
  a.live => /\ row.at # "away" /\ a.course = row.course
            /\ c.op # "none" => c.course = a.course
            /\ Exists(a.course)
            /\ row.known \/ course[a.course] = "deleted"

RequestsAttached ==
  \A q \in Requests : Attached(asked[q], call[q], page[asked[q].page])

PagesInv == DeskShape /\ PagesBehind /\ SavesBehind /\ RequestsAttached

-----------------------------------------------------------------------------
(* Rows.                                                                   *)

LEMMA AwayIsPage == IsPage(Away) /\ ~Away.known /\ Away.fetched = NoFetch
  <1>1. (CHOOSE c \in Courses : TRUE) \in Courses
    BY PublicationAssumption
  <1> QED
    BY <1>1, FirstVersion, PublicationAssumption DEF Away, IsPage, PageRows

LEMMA NotAskedIsRow == NotAsked \in AskedRows /\ ~NotAsked.live
  <1>1. (CHOOSE c \in Courses : TRUE) \in Courses /\ (CHOOSE p \in Pages : TRUE) \in Pages
    BY PublicationAssumption, DeskAssumption
  <1> QED
    BY <1>1, PublicationAssumption DEF NotAsked, AskedRows, Purposes

(* What GetDraft answers is the draft as it is.                            *)
LEMMA FetchedIsBehind ==
  ASSUME PublicationTypeOK, NEW c \in Courses
  PROVE  /\ getDraft(c) \in Snapshots \cup {NoFetch}
         /\ getDraft(c) # NoFetch =>
              IsBehind(c, getDraft(c).version, getDraft(c).content)
  <1>1. draft[c] \in DraftRows /\ draft[c].version \in Nat
    BY FirstVersion DEF PublicationTypeOK, DraftRows
  <1>2. CASE ~Found(c)
    BY <1>2 DEF getDraft
  <1>3. CASE Found(c)
    <2> DEFINE shot == [version |-> draft[c].version, content |-> draft[c].content,
                        editable |-> draft[c].workflow \in {"editing", "changes_requested"},
                        shared |-> revisions[c] # <<>>]
    <2>1. getDraft(c) = shot
      BY <1>3 DEF getDraft
    <2>2. shot \in Snapshots
      BY <1>1 DEF Snapshots, DraftRows
    <2>3. IsBehind(c, shot.version, shot.content)
      BY <1>1 DEF IsBehind
    <2> QED
      BY <2>1, <2>2, <2>3
  <1> QED
    BY <1>2, <1>3

LEMMA EnteredIsPage ==
  ASSUME PublicationTypeOK, NEW at \in {"outline", "lesson"}, NEW c \in Courses,
         NEW l \in LessonIds \cup {NoLesson}
  PROVE  /\ IsPage(Entered(at, c, l)) /\ Entered(at, c, l).course = c
         /\ ~Entered(at, c, l).known /\ Entered(at, c, l).fetched = getDraft(c)
  BY AwayIsPage, FetchedIsBehind DEF Entered, IsPage, PageRows, Away

LEMMA PageSet ==
  ASSUME DeskShape, NEW p \in Pages, NEW row, IsPage(row),
         page' = [page EXCEPT ![p] = row]
  PROVE  /\ page' = [o \in Pages |-> page'[o]]
         /\ \A o \in Pages : IsPage(page[o])'
         /\ page'[p] = row
         /\ \A o \in Pages \ {p} : page'[o] = page[o]
  <1>1. /\ page'[p] = row /\ \A o \in Pages \ {p} : page'[o] = page[o]
        /\ page' = [o \in Pages |-> page'[o]]
    BY DEF DeskShape
  <1>2. \A o \in Pages : IsPage(page[o])'
    BY <1>1 DEF DeskShape, IsPage
  <1> QED
    BY <1>1, <1>2

-----------------------------------------------------------------------------
(* A step concerns some pages and requests, and leaves the others alone.   *)

RequestBehind(q) ==
  /\ SaveBehind(call[q], asked[q])
  /\ Attached(asked[q], call[q], page[asked[q].page])

RequestKept(q) ==
  LET p == asked[q].page IN
  /\ call'[q] = call[q]
  /\ asked'[q] \in {asked[q], [asked[q] EXCEPT !.live = FALSE]}
  /\ asked'[q].live =>
       /\ page'[p].course = page[p].course
       /\ page[p].at # "away" => page'[p].at # "away"
       /\ page[p].known => page'[p].known \/ course'[page[p].course] = "deleted"

LEMMA OnlyThese ==
  ASSUME PublicationTypeOK, PublicationTypeOK', DraftsGrow, CoursesStay,
         PagesInv, DeskShape',
         \A p \in Pages : page'[p] = page[p] \/ RowBehind(page[p])',
         \A q \in Requests : RequestKept(q) \/ RequestBehind(q)'
  PROVE  PagesInv'
  <1>0. \A c \in Courses : draft[c].version \in Nat /\ draft'[c].version \in Nat
    BY FirstVersion DEF PublicationTypeOK
  <1>1. PagesBehind'
    <2>1. ASSUME NEW p \in Pages, page'[p] = page[p]
          PROVE  RowBehind(page[p])'
      <3>1. /\ page[p].course \in Courses /\ page[p].version \in Nat
            /\ page[p].fetched # NoFetch => page[p].fetched.version \in Nat
        <4>1. page[p] \in PageRows({page[p].typed})
          BY DEF PagesInv, DeskShape, IsPage
        <4> QED
          BY <4>1, FirstVersion DEF PageRows, Snapshots
      <3>2. RowBehind(page[p]) /\ page'[p] = page[p]
        BY <2>1 DEF PagesInv, PagesBehind
      <3> QED
        BY <1>0, <3>1, <3>2 DEF RowBehind, IsBehind, DraftsGrow
    <2> QED
      BY <2>1 DEF PagesBehind
  <1>2. SavesBehind'
    <2>1. ASSUME NEW q \in Requests, RequestKept(q)
          PROVE  SaveBehind(call[q], asked[q])'
      <3>1. call[q].course \in Courses /\ call[q].version \in Nat
        BY FirstVersion DEF PublicationTypeOK
      <3>2. asked[q] \in AskedRows
        BY DEF PagesInv, DeskShape
      <3>3. asked'[q].base = asked[q].base /\ call'[q] = call[q]
        BY <2>1, <3>2 DEF AskedRows, RequestKept
      <3>4. SaveBehind(call[q], asked[q])
        BY DEF PagesInv, SavesBehind
      <3> QED
        BY <1>0, <3>1, <3>3, <3>4 DEF SaveBehind, IsBehind, DraftsGrow
    <2> QED
      BY <2>1 DEF SavesBehind, RequestBehind
  <1>3. RequestsAttached'
    <2>1. ASSUME NEW q \in Requests, RequestKept(q), asked'[q].live
          PROVE  Attached(asked[q], call[q], page[asked[q].page])'
      <3> DEFINE p == asked[q].page
      <3>1. asked[q] \in AskedRows
        BY DEF PagesInv, DeskShape
      <3>2. asked'[q] = asked[q] /\ call'[q] = call[q] /\ p \in Pages
            /\ asked[q].course \in Courses
        BY <2>1, <3>1 DEF AskedRows, RequestKept
      <3>3. Attached(asked[q], call[q], page[p])
        BY DEF PagesInv, RequestsAttached
      <3>4. /\ page'[p].course = page[p].course
            /\ page[p].at # "away" => page'[p].at # "away"
            /\ page[p].known => page'[p].known \/ course'[page[p].course] = "deleted"
        BY <2>1, <3>2 DEF RequestKept
      <3> HIDE DEF p
      <3>5. /\ asked[q].course = page'[p].course /\ page'[p].at # "away"
            /\ call[q].op # "none" => call[q].course = asked[q].course
            /\ Exists(asked[q].course)
            /\ page'[p].known \/ course'[asked[q].course] = "deleted"
        BY <2>1, <3>2, <3>3, <3>4 DEF Attached, CoursesStay
      <3>6. course'[asked[q].course] # "absent"
        BY <3>2, <3>5 DEF CoursesStay, Exists
      <3> QED
        BY <3>2, <3>5, <3>6 DEF Attached, Exists, p
    <2>2. ASSUME NEW q \in Requests, RequestKept(q)
          PROVE  Attached(asked[q], call[q], page[asked[q].page])'
      BY <2>1, <2>2 DEF Attached
    <2> QED
      BY <2>2 DEF RequestsAttached, RequestBehind
  <1> QED
    BY <1>1, <1>2, <1>3 DEF PagesInv

(* A step of the server alone keeps the pages as they are.                 *)
LEMMA PagesUntouched ==
  ASSUME PublicationTypeOK, PublicationTypeOK', DraftsGrow, CoursesStay,
         PagesInv, UNCHANGED deskVars,
         \A q \in Requests :
           \/ call'[q] = call[q]
           \/ /\ call'[q].op = "save" => call'[q].phase = "done"
              /\ \/ call[q].op # "none" /\ call'[q].course = call[q].course
                 \/ call'[q].course = asked[q].course
  PROVE  PagesInv'
  <1>0. page' = page /\ asked' = asked
    BY DEF deskVars
  <1>1. DeskShape'
    BY <1>0 DEF PagesInv, DeskShape, IsPage
  <1>2. ASSUME NEW q \in Requests, call'[q] # call[q]
        PROVE  RequestBehind(q)'
    <2>1. asked[q] \in AskedRows
      BY DEF PagesInv, DeskShape
    <2>2. Attached(asked[q], call[q], page[asked[q].page])
      BY DEF PagesInv, RequestsAttached
    <2>3. asked[q].live =>
            /\ page[asked[q].page].at # "away"
            /\ asked[q].course = page[asked[q].page].course
            /\ call'[q].op # "none" => call'[q].course = asked[q].course
            /\ course'[asked[q].course] # "absent"
            /\ page[asked[q].page].known \/ course'[asked[q].course] = "deleted"
      BY <1>2, <2>1, <2>2 DEF Attached, AskedRows, CoursesStay, Exists
    <2>4. ~(call'[q].op = "save" /\ call'[q].phase = "begun")
      BY <1>2
    <2> QED
      BY <1>0, <2>3, <2>4 DEF RequestBehind, Attached, SaveBehind, Exists
  <1>3. ASSUME NEW q \in Requests, call'[q] = call[q]
        PROVE  RequestKept(q)
    BY <1>0, <1>3 DEF RequestKept
  <1>4. \A p \in Pages : page'[p] = page[p]
    BY <1>0
  <1> QED
    BY <1>1, <1>2, <1>3, <1>4, OnlyThese

-----------------------------------------------------------------------------
(* Every step is one of the server, or leaves the server alone.            *)

LEMMA SaveIsOfServer ==
  ASSUME DeskShape, NEW p \in Pages, NEW q \in Requests, NEW purpose, NEW l,
         saveCurrentDraft(p, q, purpose, l)
  PROVE  SaveCall(q) /\ UNCHANGED accessVars
  <1>1. page[p].course \in Courses /\ page[p].version \in Versions
    BY DEF DeskShape, IsPage, PageRows
  <1>2. SaveBegins(q, page[p].course, page[p].version, serializeModules(page[p].typed))
    BY DEF saveCurrentDraft
  <1>3. serializeModules(page[p].typed) \in Contents
    BY <1>2 DEF SaveBegins
  <1> QED
    BY <1>1, <1>2, <1>3 DEF SaveCall, saveCurrentDraft

LEMMA PageStepOfServer ==
  ASSUME DeskShape, NEW p \in Pages,
         \/ OutlineScreen(p) \/ Navigation(p) \/ LessonGraphEdited(p)
         \/ \E q \in Requests : handleSave(p, q) \/ handlePreview(p, q)
  PROVE  ServerStep \/ UNCHANGED vars
  <1>0. page[p].course \in Courses
    BY DEF DeskShape, IsPage, PageRows
  <1>1. ASSUME NEW q \in Requests, SaveCall(q), UNCHANGED accessVars
        PROVE  ServerStep
    BY <1>1 DEF ServerStep, PublicationStep
  <1>2. ASSUME NEW q \in Requests,
               handleSave(p, q) \/ handlePreview(p, q) \/ doSubmit(p, q) \/ handlePublish(p, q)
        PROVE  ServerStep
    BY <1>1, <1>2, SaveIsOfServer DEF handleSave, handlePreview, doSubmit, handlePublish
  <1>3. ASSUME NEW q \in Requests, NEW l \in LessonIds, handleEditLesson(p, q, l)
        PROVE  ServerStep \/ UNCHANGED vars
    BY <1>1, <1>3, SaveIsOfServer DEF handleEditLesson
  <1>4. CASE ModuleList(p) \/ LessonList(p) \/ LessonGraphEdited(p)
    <2>1. ASSUME NEW modules, Type(p, modules)
          PROVE  UNCHANGED vars
      BY <2>1 DEF Type
    <2> QED
      BY <1>4, <2>1 DEF ModuleList, LessonList, LessonGraphEdited
  <1>5. CASE doArchive(p)
    BY <1>0, <1>5 DEF doArchive, ServerStep, PublicationStep
  <1>6. CASE ShareModal(p)
    BY <1>0, <1>6 DEF ShareModal, ServerStep, AccessStep
  <1>7. CASE Leave(p) \/ ShowDraft(p)
    BY <1>7 DEF Leave, ShowDraft
  <1>8. ASSUME NEW c \in Courses, handleCreate(p, c)
        PROVE  ServerStep
    BY <1>8 DEF handleCreate, ServerStep, PublicationStep
  <1>9. ASSUME NEW c \in Courses, NEW at, NEW l, Open(p, at, c, l)
        PROVE  UNCHANGED vars
    BY <1>9 DEF Open
  <1> QED
    BY <1>2, <1>3, <1>4, <1>5, <1>6, <1>7, <1>8, <1>9 DEF OutlineScreen, Navigation

LEMMA AnswerOfServer ==
  ASSUME DeskShape, NEW q \in Requests,
         \/ SaveAnswered(q) \/ SaveLeadsOn(q) \/ CallRefused(q) \/ SubmitReaches(q)
         \/ SubmitAnswered(q) \/ PublishAnswered(q) \/ SecondCallFails(q)
  PROVE  ServerStep \/ UNCHANGED vars
  <1>0. asked[q].course \in Courses
    BY DEF DeskShape, AskedRows
  <1>1. CASE SaveAnswered(q) \/ SaveLeadsOn(q) \/ CallRefused(q) \/ SubmitAnswered(q)
    <2>1. Freed(q) /\ UNCHANGED Rest
      BY <1>1 DEF SaveAnswered, SaveLeadsOn, CallRefused, SubmitAnswered
    <2>2. CallEnds(q) /\ UNCHANGED accessVars
      BY <2>1 DEF Freed, Rest, CallEnds
    <2> QED
      BY <2>2 DEF ServerStep, PublicationStep
  <1>2. CASE SubmitReaches(q)
    BY <1>0, <1>2 DEF SubmitReaches, ServerStep, PublicationStep
  <1>3. CASE PublishAnswered(q)
    BY <1>0, <1>3 DEF PublishAnswered, ServerStep, PublicationStep
  <1>4. CASE SecondCallFails(q)
    BY <1>0, <1>4 DEF SecondCallFails, ServerStep, PublicationStep, vars
  <1> QED
    BY <1>1, <1>2, <1>3, <1>4

LEMMA ModeratorOfServer ==
  ASSUME OtherAdministrator \/ \E d \in Decisions : DecisionReaches(d)
  PROVE  ServerStep \/ UNCHANGED vars
  <1>1. ASSUME NEW d \in Decisions, DecisionReaches(d)
        PROVE  ServerStep \/ UNCHANGED vars
    <2>1. d.review \in Reviews /\ UNCHANGED accessVars
      BY <1>1 DEF DecisionReaches, Decisions
    <2> QED
      BY <1>1, <2>1 DEF DecisionReaches, ServerStep, PublicationStep, vars
  <1>2. CASE OtherAdministrator
    BY <1>2 DEF OtherAdministrator, ServerStep, PublicationStep
  <1> QED
    BY <1>1, <1>2

LEMMA StepOfServer ==
  ASSUME DeskShape, [Next]_everything
  PROVE  [ServerStep]_vars
  <1>1. CASE DeskNext
    <2>1. CASE ServerNext /\ UNCHANGED <<accessVars, deskVars>>
      BY <2>1 DEF ServerNext, ServerStep, PublicationStep
    <2>2. CASE AccessServer /\ UNCHANGED deskVars
      BY <2>2 DEF ServerStep, AccessStep
    <2> QED
      BY <1>1, <2>1, <2>2, PageStepOfServer, AnswerOfServer DEF DeskNext, Answers
  <1>2. CASE OtherAdministrator \/ \E d \in Decisions : DecisionReaches(d)
    BY <1>2, ModeratorOfServer
  <1>3. CASE \/ OpenQueue \/ QueueArrives \/ CloseDialog \/ ToggleReject
             \/ handleApprove \/ handleReject
             \/ \E r \in Reviews : SelectReview(r)
             \/ \E f \in Fetches : LessonsArrive(f)
             \/ \E d \in Decisions : DecisionAnswered(d) \/ DecisionFails(d)
    <2>1. UNCHANGED allVars
      BY <1>3 DEF OpenQueue, QueueArrives, CloseDialog, ToggleReject, handleApprove,
                  handleReject, Decide, SelectReview, LessonsArrive, DecisionAnswered, DecisionFails
    <2> QED
      BY <2>1 DEF allVars
  <1>4. CASE UNCHANGED everything
    BY <1>4 DEF everything, allVars
  <1> QED
    BY <1>1, <1>2, <1>3, <1>4 DEF Next

-----------------------------------------------------------------------------
(* What the pages do.                                                      *)

ServerKept == ServerInv /\ ServerInv' /\ DraftsGrow /\ CoursesStay

LEMMA ServerKeeps ==
  ASSUME ServerInv, [ServerStep]_vars
  PROVE  ServerKept
  <1>1. ServerInv'
    BY ServerStepKeepsInv
  <1>2. PublicationTypeOK /\ Placed
    BY DEF ServerInv, AccessTypeOK
  <1>3. ASSUME UNCHANGED publicationVars
        PROVE  DraftsGrow /\ CoursesStay
    <2>1. \A c \in Courses : draft[c].version \in Nat
      BY <1>2, FirstVersion DEF PublicationTypeOK
    <2> QED
      BY <1>3, <2>1 DEF DraftsGrow, CoursesStay, Exists, publicationVars
  <1>4. AccessStep => UNCHANGED publicationVars
    BY DEF AccessStep, AccessServer, CreateLinkBegins, RevokeLink, CreateLink,
           LinkGrowsOld, ClaimLink, AdminGrantBegins, AdminGrant
  <1>5. DraftsGrow /\ CoursesStay
    BY <1>2, <1>3, <1>4, PublicationStepGrows DEF ServerStep, vars
  <1> QED
    BY <1>1, <1>5 DEF ServerKept

LEMMA KeptTypes ==
  ASSUME ServerKept
  PROVE  /\ PublicationTypeOK /\ PublicationTypeOK' /\ DraftsGrow /\ CoursesStay
         /\ \A c \in Courses : draft[c].version \in Nat /\ draft'[c].version \in Nat
  <1>1. PublicationTypeOK /\ PublicationTypeOK' /\ DraftsGrow /\ CoursesStay
    BY DEF ServerKept, ServerInv, AccessTypeOK
  <1> QED
    BY <1>1, FirstVersion DEF PublicationTypeOK

(* What was behind the draft is still behind it.                           *)
LEMMA RowStays ==
  ASSUME ServerKept, NEW p \in Pages, NEW row, IsPage(row), RowBehind(row), page'[p] = row
  PROVE  RowBehind(page[p])'
  <1>1. /\ row.course \in Courses /\ row.version \in Nat
        /\ row.fetched # NoFetch => row.fetched.version \in Nat
    BY FirstVersion DEF IsPage, PageRows, Snapshots
  <1> QED
    BY <1>1, KeptTypes DEF RowBehind, IsBehind, DraftsGrow

LEMMA DetachedRows ==
  ASSUME PagesInv, NEW p \in Pages
  PROVE  /\ Detached(p) \in [Requests -> AskedRows]
         /\ \A q \in Requests :
              /\ Detached(p)[q] \in {asked[q], [asked[q] EXCEPT !.live = FALSE]}
              /\ Detached(p)[q].live => asked[q].page # p
  <1>1. \A q \in Requests : /\ asked[q] \in AskedRows
                            /\ [asked[q] EXCEPT !.live = FALSE] \in AskedRows
                            /\ ~[asked[q] EXCEPT !.live = FALSE].live
    BY DEF PagesInv, DeskShape, AskedRows
  <1> QED
    BY <1>1 DEF Detached

(* A page is entered, left or redrawn.                                     *)
LEMMA PageReplaced ==
  ASSUME ServerKept, PagesInv, NEW p \in Pages,
         NEW row, IsPage(row), RowBehind(row), page' = [page EXCEPT ![p] = row],
         call' = call,
         \/ asked' = Detached(p)
         \/ /\ asked' = asked
            /\ page[p].at # "away" =>
                 /\ row.course = page[p].course /\ row.at = page[p].at
                 /\ page[p].known => row.known
  PROVE  PagesInv'
  <1>1. /\ page' = [o \in Pages |-> page'[o]]
        /\ \A o \in Pages : IsPage(page[o])'
        /\ page'[p] = row
        /\ \A o \in Pages \ {p} : page'[o] = page[o]
    BY PageSet DEF PagesInv
  <1>2. DeskShape'
    <2>1. asked' \in [Requests -> AskedRows]
      BY DetachedRows DEF PagesInv, DeskShape
    <2> QED
      BY <1>1, <2>1 DEF DeskShape
  <1>3. RowBehind(page[p])'
    BY <1>1, RowStays
  <1>4. ASSUME NEW q \in Requests
        PROVE  RequestKept(q)
    <2>1. CASE asked' = Detached(p)
      <3>1. /\ asked'[q] \in {asked[q], [asked[q] EXCEPT !.live = FALSE]}
            /\ asked'[q].live => asked[q].page # p
        BY <2>1, DetachedRows
      <3>2. asked[q].page \in Pages
        BY DEF PagesInv, DeskShape, AskedRows
      <3> QED
        BY <1>1, <3>1, <3>2 DEF RequestKept
    <2>2. CASE /\ asked' = asked
               /\ page[p].at # "away" =>
                    /\ row.course = page[p].course /\ row.at = page[p].at
                    /\ page[p].known => row.known
      <3>1. asked[q].live => page[asked[q].page].at # "away"
        BY DEF PagesInv, RequestsAttached, Attached
      <3>2. asked[q].page \in Pages
        BY DEF PagesInv, DeskShape, AskedRows
      <3>3. CASE asked[q].page # p
        BY <1>1, <2>2, <3>2, <3>3 DEF RequestKept
      <3>4. CASE asked[q].page = p
        BY <1>1, <2>2, <3>1, <3>4 DEF RequestKept
      <3> QED
        BY <3>3, <3>4
    <2> QED
      BY <2>1, <2>2
  <1> QED
    BY <1>1, <1>2, <1>3, <1>4, KeptTypes, OnlyThese

(* A save is asked for.                                                    *)
LEMMA SaveStarts ==
  ASSUME ServerKept, PagesInv, NEW p \in Pages, NEW q \in Requests,
         NEW purpose \in Purposes, NEW l \in LessonIds \cup {NoLesson},
         saveCurrentDraft(p, q, purpose, l), page[p].known, page[p].at # "away",
         NEW row, IsPage(row), row.course = page[p].course, row.version = page[p].version,
         row.known = page[p].known, row.base = page[p].base,
         row.fetched = page[p].fetched, row.at = page[p].at,
         page' = [page EXCEPT ![p] = row]
  PROVE  PagesInv'
  <1> DEFINE a == [page |-> p, course |-> page[p].course, purpose |-> purpose, lesson |-> l,
                   base |-> page[p].base, live |-> TRUE]
  <1>0. page[p] \in PageRows({page[p].typed}) /\ RowBehind(page[p])
    BY DEF PagesInv, DeskShape, IsPage, PagesBehind
  <1>1. /\ page' = [o \in Pages |-> page'[o]]
        /\ \A o \in Pages : IsPage(page[o])'
        /\ page'[p] = row
        /\ \A o \in Pages \ {p} : page'[o] = page[o]
    BY PageSet DEF PagesInv
  <1>2. /\ a \in AskedRows /\ asked' = [asked EXCEPT ![q] = a]
        /\ a.page = p /\ a.course = page[p].course /\ a.base = page[p].base
    BY <1>0 DEF saveCurrentDraft, PageRows, AskedRows
  <1> HIDE DEF a
  <1>3. /\ asked' \in [Requests -> AskedRows] /\ asked'[q] = a
        /\ \A o \in Requests \ {q} : asked'[o] = asked[o]
    BY <1>2 DEF PagesInv, DeskShape
  <1>4. DeskShape'
    BY <1>1, <1>3 DEF DeskShape
  <1>5. RowBehind(row)
    BY <1>0 DEF RowBehind
  <1>6. RowBehind(page[p])'
    BY <1>1, <1>5, RowStays
  <1>7. /\ call'[q].op = "save" /\ call'[q].course = page[p].course
        /\ call'[q].version = page[p].version
        /\ \A o \in Requests \ {q} : call'[o] = call[o]
        /\ course[page[p].course] = "active" /\ course' = course /\ draft' = draft
    <2>1. call \in [Requests -> CallRows]
      BY DEF ServerKept, ServerInv, AccessTypeOK, PublicationTypeOK, CallRows
    <2> QED
      BY <2>1 DEF saveCurrentDraft, SaveBegins
  <1>8. RequestBehind(q)'
    <2>1. IsBehind(page[p].course, page[p].version, page[p].base)
      BY <1>0 DEF RowBehind
    <2>2. SaveBehind(call[q], asked[q])'
      BY <1>2, <1>3, <1>7, <2>1 DEF SaveBehind, IsBehind
    <2>3. Attached(asked[q], call[q], page[asked[q].page])'
      BY <1>1, <1>2, <1>3, <1>7, ZenonT(40) DEF Attached, Exists
    <2> QED
      BY <2>2, <2>3 DEF RequestBehind
  <1>9. ASSUME NEW o \in Requests \ {q}
        PROVE  RequestKept(o)
    <2>1. asked[o].page \in Pages
      BY DEF PagesInv, DeskShape, AskedRows
    <2> QED
      BY <1>1, <1>3, <1>7, <2>1 DEF RequestKept
  <1> QED
    BY <1>1, <1>4, <1>6, <1>8, <1>9, KeptTypes, OnlyThese

(* An answer is there: the page that waits for it, if it still does, takes *)
(* it over.                                                                *)
LEMMA AnswerTaken ==
  ASSUME ServerKept, PagesInv, NEW q \in Requests,
         call'[q].op = "none", \A o \in Requests \ {q} : call'[o] = call[o],
         NEW a \in AskedRows, asked' = [asked EXCEPT ![q] = a],
         a.live => /\ asked[q].live /\ a.page = asked[q].page
                   /\ a.course = asked[q].course,
         NEW row,
         \/ page' = page
         \/ /\ asked[q].live
            /\ IsPage(row) /\ RowBehind(row)
            /\ page' = [page EXCEPT ![asked[q].page] = row]
            /\ row.course = page[asked[q].page].course
            /\ row.at = page[asked[q].page].at
            /\ page[asked[q].page].known =>
                 row.known \/ course'[page[asked[q].page].course] = "deleted"
  PROVE  PagesInv'
  <1>a. asked[q] \in AskedRows
    BY DEF PagesInv, DeskShape
  <1>b. PICK p \in Pages : p = asked[q].page
    BY <1>a DEF AskedRows
  <1>0. asked[q].course \in Courses
    BY <1>a DEF AskedRows
  <1>1. /\ asked' \in [Requests -> AskedRows] /\ asked'[q] = a
        /\ \A o \in Requests \ {q} : asked'[o] = asked[o]
    BY DEF PagesInv, DeskShape
  <1>2. /\ page' = [o \in Pages |-> page'[o]]
        /\ \A o \in Pages : IsPage(page[o])'
        /\ RowBehind(page[p])'
        /\ \A o \in Pages \ {p} : page'[o] = page[o]
        /\ page'[p].course = page[p].course
        /\ page'[p].at = page[p].at
        /\ page[p].known =>
             page'[p].known \/ course'[page[p].course] = "deleted"
    <2>1. CASE page' = page
      <3>1. IsPage(page[p]) /\ RowBehind(page[p])
        BY DEF PagesInv, DeskShape, PagesBehind
      <3>2. RowBehind(page[p])'
        BY <2>1, <3>1, RowStays
      <3>3. /\ page' = [o \in Pages |-> page'[o]]
            /\ \A o \in Pages : IsPage(page[o])'
        BY <2>1 DEF PagesInv, DeskShape, IsPage
      <3> QED
        BY <2>1, <3>2, <3>3
    <2>2. CASE page' # page
      <3>1. /\ IsPage(row) /\ RowBehind(row) /\ page' = [page EXCEPT ![p] = row]
            /\ row.course = page[p].course /\ row.at = page[p].at
            /\ page[p].known => row.known \/ course'[page[p].course] = "deleted"
        BY <1>b, <2>2
      <3>2. /\ page' = [o \in Pages |-> page'[o]]
            /\ \A o \in Pages : IsPage(page[o])'
            /\ page'[p] = row
            /\ \A o \in Pages \ {p} : page'[o] = page[o]
        BY <3>1, PageSet DEF PagesInv
      <3>3. RowBehind(page[p])'
        BY <3>1, <3>2, RowStays
      <3> QED
        BY <3>1, <3>2, <3>3
    <2> QED
      BY <2>1, <2>2
  <1>3. DeskShape'
    BY <1>1, <1>2 DEF DeskShape
  <1>4. RowBehind(page[p])'
    BY <1>2
  <1>5. Attached(asked[q], call[q], page[p])
    BY <1>b DEF PagesInv, RequestsAttached
  <1>6. CoursesStay
    BY KeptTypes
  <1>7. RequestBehind(q)'
    <2>1. SaveBehind(call[q], asked[q])'
      BY DEF SaveBehind
    <2>2. ASSUME a.live
          PROVE  /\ page'[p].at # "away" /\ a.course = page'[p].course
                 /\ course'[a.course] # "absent"
                 /\ page'[p].known \/ course'[a.course] = "deleted"
                 /\ asked[q].live /\ a.page = p
      BY <1>b, <1>0, <1>2, <1>5, <1>6, <2>2 DEF Attached, CoursesStay, Exists
    <2>3. Attached(asked[q], call[q], page[asked[q].page])'
      BY <1>1, <2>2 DEF Attached, Exists
    <2> QED
      BY <2>1, <2>3 DEF RequestBehind
  <1>8. ASSUME NEW o \in Requests \ {q}
        PROVE  RequestKept(o)
    <2>1. asked[o].page \in Pages
      BY DEF PagesInv, DeskShape, AskedRows
    <2>2. asked'[o] = asked[o] /\ call'[o] = call[o]
      BY <1>1
    <2>3. CASE asked[o].page # p
      BY <1>2, <2>1, <2>2, <2>3 DEF RequestKept
    <2>4. CASE asked[o].page = p
      <3>1. page[p].known => page'[p].known \/ course'[page[p].course] = "deleted"
        BY <1>2
      <3> QED
        BY <1>2, <2>2, <2>4, <3>1 DEF RequestKept
    <2> QED
      BY <2>3, <2>4
  <1>9. \A o \in Pages : page'[o] = page[o] \/ RowBehind(page[o])'
    BY <1>2, <1>4
  <1> QED
    BY <1>3, <1>7, <1>8, <1>9, KeptTypes, OnlyThese

(* The page moves on, and its other requests go on without it.             *)
LEMMA PageMovesOn ==
  ASSUME ServerKept, PagesInv, NEW q \in Requests, NEW p \in Pages,
         call'[q].op = "none", \A o \in Requests \ {q} : call'[o] = call[o],
         asked' = [Detached(p) EXCEPT ![q] = NotAsked],
         NEW row, IsPage(row), RowBehind(row), page' = [page EXCEPT ![p] = row]
  PROVE  PagesInv'
  <1>1. /\ page' = [o \in Pages |-> page'[o]]
        /\ \A o \in Pages : IsPage(page[o])'
        /\ page'[p] = row
        /\ \A o \in Pages \ {p} : page'[o] = page[o]
    BY PageSet DEF PagesInv
  <1>2. /\ asked' \in [Requests -> AskedRows] /\ asked'[q] = NotAsked
        /\ \A o \in Requests \ {q} : asked'[o] = Detached(p)[o]
    BY DetachedRows, NotAskedIsRow
  <1>3. DeskShape'
    BY <1>1, <1>2 DEF DeskShape
  <1>4. RowBehind(page[p])'
    BY <1>1, RowStays
  <1>5. RequestBehind(q)'
    <2>1. ~asked'[q].live /\ call'[q].op # "save"
      BY <1>2, NotAskedIsRow
    <2> QED
      BY <2>1 DEF RequestBehind, SaveBehind, Attached
  <1>6. ASSUME NEW o \in Requests \ {q}
        PROVE  RequestKept(o)
    <2>1. /\ asked'[o] \in {asked[o], [asked[o] EXCEPT !.live = FALSE]}
          /\ asked'[o].live => asked[o].page # p
      BY <1>2, DetachedRows
    <2>2. asked[o].page \in Pages
      BY DEF PagesInv, DeskShape, AskedRows
    <2> QED
      BY <1>1, <2>1, <2>2 DEF RequestKept
  <1> QED
    BY <1>1, <1>3, <1>4, <1>5, <1>6, KeptTypes, OnlyThese

LEMMA PageHeld ==
  ASSUME PagesInv, NEW p \in Pages
  PROVE  /\ page[p] \in PageRows({page[p].typed})
         /\ RowBehind(page[p])
         /\ page[p].course \in Courses /\ page[p].lesson \in LessonIds \cup {NoLesson}
  BY DEF PagesInv, DeskShape, IsPage, PagesBehind, PageRows

LEMMA TypeKeeps ==
  ASSUME ServerKept, PagesInv, NEW p \in Pages, NEW modules, Type(p, modules)
  PROVE  PagesInv'
  <1> DEFINE row == [page[p] EXCEPT !.typed = modules]
  <1>1. /\ page' = [page EXCEPT ![p] = row]
        /\ call' = call /\ asked' = asked
    BY DEF Type, vars, publicationVars
  <1>2. IsPage(row)
    BY PageHeld DEF IsPage, PageRows
  <1>3. RowBehind(row) /\ row.course = page[p].course /\ row.at = page[p].at
        /\ row.known = page[p].known
    BY PageHeld DEF RowBehind, PageRows
  <1> HIDE DEF row
  <1> QED
    BY <1>1, <1>2, <1>3, PageReplaced

LEMMA SavingKeeps ==
  ASSUME ServerKept, PagesInv, NEW p \in Pages, NEW q \in Requests,
         \/ handleSave(p, q) \/ handlePreview(p, q) \/ doSubmit(p, q) \/ handlePublish(p, q)
         \/ \E l \in LessonIds : /\ Shown(p) /\ saveCurrentDraft(p, q, "lesson", l)
                                 /\ page' = [page EXCEPT ![p].saving = TRUE]
  PROVE  PagesInv'
  <1>1. /\ page[p].known /\ page[p].at # "away"
        /\ \E purpose \in Purposes, l \in LessonIds \cup {NoLesson} :
             saveCurrentDraft(p, q, purpose, l)
    BY PageHeld
    DEF handleSave, handlePreview, doSubmit, handlePublish, MaySave, Outline, Shown, Purposes
  <1>2. \E row : /\ IsPage(row) /\ page' = [page EXCEPT ![p] = row]
                 /\ row.course = page[p].course /\ row.version = page[p].version
                 /\ row.known = page[p].known /\ row.base = page[p].base
                 /\ row.fetched = page[p].fetched /\ row.at = page[p].at
    <2>0. page[p] \in PageRows({page[p].typed})
      BY PageHeld
    <2>1. CASE page' = [page EXCEPT ![p].saving = TRUE]
      <3> DEFINE row == [page[p] EXCEPT !.saving = TRUE]
      <3>1. IsPage(row) /\ page' = [page EXCEPT ![p] = row]
        BY <2>0, <2>1 DEF IsPage, PageRows
      <3>2. /\ row.course = page[p].course /\ row.version = page[p].version
            /\ row.known = page[p].known /\ row.base = page[p].base
            /\ row.fetched = page[p].fetched /\ row.at = page[p].at
        BY <2>0 DEF PageRows
      <3> HIDE DEF row
      <3> QED
        BY <3>1, <3>2
    <2>2. CASE page' = [page EXCEPT ![p].submitting = TRUE]
      <3> DEFINE row == [page[p] EXCEPT !.submitting = TRUE]
      <3>1. IsPage(row) /\ page' = [page EXCEPT ![p] = row]
        BY <2>0, <2>2 DEF IsPage, PageRows
      <3>2. /\ row.course = page[p].course /\ row.version = page[p].version
            /\ row.known = page[p].known /\ row.base = page[p].base
            /\ row.fetched = page[p].fetched /\ row.at = page[p].at
        BY <2>0 DEF PageRows
      <3> HIDE DEF row
      <3> QED
        BY <3>1, <3>2
    <2>3. CASE page' = [page EXCEPT ![p].submitting = TRUE, ![p].saving = TRUE]
      <3> DEFINE row == [page[p] EXCEPT !.submitting = TRUE, !.saving = TRUE]
      <3>0. page = [o \in Pages |-> page[o]]
        BY DEF PagesInv, DeskShape
      <3>1. IsPage(row) /\ page' = [page EXCEPT ![p] = row]
        BY <2>0, <2>3, <3>0 DEF IsPage, PageRows
      <3>2. /\ row.course = page[p].course /\ row.version = page[p].version
            /\ row.known = page[p].known /\ row.base = page[p].base
            /\ row.fetched = page[p].fetched /\ row.at = page[p].at
        BY <2>0 DEF PageRows
      <3> HIDE DEF row
      <3> QED
        BY <3>1, <3>2
    <2> QED
      BY <2>1, <2>2, <2>3 DEF handleSave, handlePreview, doSubmit, handlePublish
  <1> QED
    BY <1>1, <1>2, SaveStarts

LEMMA ShowDraftKeeps ==
  ASSUME ServerKept, PagesInv, NEW p \in Pages, ShowDraft(p)
  PROVE  PagesInv'
  <1> DEFINE shot == page[p].fetched
             first == ~page[p].known \/ Taught(p)
             row == Filled(p)
  <1>1. /\ shot # NoFetch
        /\ page' = [page EXCEPT ![p] = row]
        /\ call' = call /\ asked' = asked
    BY DEF ShowDraft, vars, publicationVars
  <1>2. page[p] \in PageRows({page[p].typed}) /\ RowBehind(page[p]) /\ shot \in Snapshots
    BY <1>1, PageHeld DEF PageRows
  <1>3. IsPage(row)
    BY <1>2, ZenonT(40) DEF Filled, IsPage, PageRows, Snapshots
  <1>4. /\ row.known /\ row.fetched = NoFetch /\ row.course = page[p].course
        /\ row.at = page[p].at
        /\ first => row.version = shot.version /\ row.base = shot.content
        /\ ~first => row.version = page[p].version /\ row.base = page[p].base
    BY <1>2 DEF Filled, PageRows
  <1>5. RowBehind(row)
    <2>1. CASE first
      BY <1>1, <1>2, <1>4, <2>1 DEF RowBehind
    <2>2. CASE ~first
      BY <1>2, <1>4, <2>2 DEF RowBehind
    <2> QED
      BY <2>1, <2>2
  <1> HIDE DEF row, first, shot
  <1> QED
    BY <1>1, <1>3, <1>4, <1>5, PageReplaced

LEMMA CreateKeeps ==
  ASSUME ServerKept, PagesInv, NEW p \in Pages, NEW c \in Courses, handleCreate(p, c)
  PROVE  PagesInv'
  <1> DEFINE shot == [version |-> 1, content |-> Empty, editable |-> TRUE, shared |-> FALSE]
             row == [Away EXCEPT !.at = "outline", !.course = c, !.fetched = shot]
  <1>1. /\ page[p].at = "away" /\ course[c] = "absent"
        /\ page' = [page EXCEPT ![p] = row] /\ call' = call /\ asked' = asked
    BY DEF handleCreate, CreateCourse
  <1>2. shot \in Snapshots
    BY FirstVersion, PublicationAssumption DEF Snapshots
  <1>3. draft[c] = NoDraft
    BY <1>1 DEF ServerKept, ServerInv, Placed, Exists
  <1>4. IsBehind(c, shot.version, shot.content)
    BY <1>3 DEF IsBehind, NoDraft
  <1> HIDE DEF shot
  <1>5. IsPage(row) /\ ~row.known /\ row.fetched = shot /\ row.course = c
    BY <1>2, AwayIsPage DEF IsPage, PageRows, Away
  <1>6. RowBehind(row)
    BY <1>4, <1>5 DEF RowBehind
  <1> HIDE DEF row
  <1> QED
    BY <1>1, <1>5, <1>6, PageReplaced

LEMMA EnteredBehind ==
  ASSUME PublicationTypeOK, NEW at \in {"outline", "lesson"}, NEW c \in Courses,
         NEW l \in LessonIds \cup {NoLesson}
  PROVE  IsPage(Entered(at, c, l)) /\ RowBehind(Entered(at, c, l))
  BY EnteredIsPage, FetchedIsBehind DEF RowBehind

LEMMA AwayBehind == IsPage(Away) /\ RowBehind(Away)
  BY AwayIsPage DEF RowBehind

LEMMA PageStepKeeps ==
  ASSUME ServerKept, PagesInv, NEW p \in Pages,
         \/ OutlineScreen(p) \/ Navigation(p) \/ LessonGraphEdited(p)
         \/ \E q \in Requests : handleSave(p, q) \/ handlePreview(p, q)
  PROVE  PagesInv'
  <1>1. CASE ModuleList(p) \/ LessonList(p) \/ LessonGraphEdited(p)
    BY <1>1, TypeKeeps DEF ModuleList, LessonList, LessonGraphEdited
  <1>2. CASE doArchive(p) \/ ShareModal(p)
    <2>1. UNCHANGED deskVars /\ call' = call
      BY <1>2 DEF doArchive, ShareModal, ArchiveBegins, AdminArchiveCourse,
                  CreateLinkBegins, RevokeLink, publicationVars
    <2> QED
      BY <2>1, KeptTypes, PagesUntouched
  <1>3. ASSUME NEW q \in Requests,
               handleSave(p, q) \/ handlePreview(p, q) \/ doSubmit(p, q) \/ handlePublish(p, q)
        PROVE  PagesInv'
    BY <1>3, SavingKeeps
  <1>4. ASSUME NEW q \in Requests, NEW l \in LessonIds, handleEditLesson(p, q, l)
        PROVE  PagesInv'
    <2>1. CASE page[p].editable
      BY <1>4, <2>1, SavingKeeps DEF handleEditLesson
    <2>2. CASE ~page[p].editable
      <3>1. /\ page' = [page EXCEPT ![p] = Entered("lesson", page[p].course, l)]
            /\ asked' = Detached(p) /\ call' = call
        BY <1>4, <2>2 DEF handleEditLesson, vars, publicationVars
      <3>2. /\ IsPage(Entered("lesson", page[p].course, l))
            /\ RowBehind(Entered("lesson", page[p].course, l))
        BY PageHeld, KeptTypes, EnteredBehind
      <3> QED
        BY <3>1, <3>2, PageReplaced
    <2> QED
      BY <2>1, <2>2
  <1>5. CASE Leave(p)
    <2>1. page' = [page EXCEPT ![p] = Away] /\ asked' = Detached(p) /\ call' = call
      BY <1>5 DEF Leave, vars, publicationVars
    <2> QED
      BY <2>1, AwayBehind, PageReplaced
  <1>6. CASE ShowDraft(p)
    BY <1>6, ShowDraftKeeps
  <1>7. ASSUME NEW c \in Courses, handleCreate(p, c)
        PROVE  PagesInv'
    BY <1>7, CreateKeeps
  <1>8. ASSUME NEW c \in Courses, NEW at \in {"outline", "lesson"},
               NEW l \in LessonIds \cup {NoLesson}, Open(p, at, c, l)
        PROVE  PagesInv'
    <2>1. /\ page[p].at = "away" /\ page' = [page EXCEPT ![p] = Entered(at, c, l)]
          /\ asked' = asked /\ call' = call
      BY <1>8 DEF Open, vars, publicationVars
    <2>2. IsPage(Entered(at, c, l)) /\ RowBehind(Entered(at, c, l))
      BY KeptTypes, EnteredBehind
    <2> QED
      BY <2>1, <2>2, PageReplaced
  <1> QED
    BY <1>1, <1>2, <1>3, <1>4, <1>5, <1>6, <1>7, <1>8 DEF OutlineScreen, Navigation

-----------------------------------------------------------------------------
(* Answers.                                                                *)

(* What an answer may leave of a request.                                  *)
LEMMA RequestAfter ==
  ASSUME PagesInv, NEW q \in Requests
  PROVE  /\ asked[q] \in AskedRows /\ asked[q].page \in Pages
         /\ asked[q].course \in Courses
         /\ asked[q].live => page[asked[q].page].course = asked[q].course
         /\ asked[q].live /\ call[q].op # "none" => call[q].course = asked[q].course
  BY DEF PagesInv, DeskShape, AskedRows, RequestsAttached, Attached

LEMMA FreedCall ==
  ASSUME ServerKept, NEW q \in Requests, Freed(q)
  PROVE  call'[q].op = "none" /\ \A o \in Requests \ {q} : call'[o] = call[o]
  BY KeptTypes DEF PublicationTypeOK, Freed, NoCall

LEMMA SavedRow ==
  ASSUME ServerKept, PagesInv, NEW q \in Requests, asked[q].live,
         call[q].op = "save", call[q].phase = "done"
  PROVE  LET p == asked[q].page IN
         /\ IsPage(Saved(p, q)) /\ RowBehind(Saved(p, q))
         /\ Saved(p, q).course = page[p].course /\ Saved(p, q).at = page[p].at
         /\ Saved(p, q).known = page[p].known
  <1> DEFINE p == asked[q].page
             row == Saved(p, q)
  <1>1. /\ page[p] \in PageRows({page[p].typed}) /\ RowBehind(page[p])
        /\ page[p].course = call[q].course
    BY RequestAfter, PageHeld
  <1>2. IsBehind(call[q].course, call[q].version + 1, call[q].content)
    BY DEF ServerKept, ServerInv, SavesTaken
  <1>3. call[q].content \in Contents /\ call[q].version + 1 \in Versions
    <2>1. /\ call[q].course \in Courses /\ call[q].version \in Versions
          /\ call[q].content \in Contents
          /\ draft[call[q].course].version \in Versions
      BY KeptTypes DEF PublicationTypeOK
    <2>2. call[q].version + 1 <= draft[call[q].course].version
      BY <1>2 DEF IsBehind
    <2> QED
      BY <2>1, <2>2, PublicationAssumption DEF Versions
  <1>4. IsPage(row)
    BY <1>1, <1>3 DEF Saved, IsPage, PageRows
  <1>5. /\ row.course = page[p].course /\ row.at = page[p].at /\ row.known = page[p].known
        /\ row.version = call[q].version + 1 /\ row.base = call[q].content
        /\ row.fetched = page[p].fetched
    BY <1>1 DEF Saved, PageRows
  <1> HIDE DEF row
  <1>6. RowBehind(row)
    BY <1>1, <1>2, <1>5 DEF RowBehind
  <1> QED
    BY <1>4, <1>5, <1>6 DEF row

LEMMA ReloadedRow ==
  ASSUME ServerKept, PagesInv, NEW q \in Requests, asked[q].live
  PROVE  LET p == asked[q].page
             row == [page[p] EXCEPT !.submitting = FALSE, !.known = Found(asked[q].course),
                                    !.fetched = getDraft(asked[q].course)]
         IN /\ IsPage(row) /\ RowBehind(row)
            /\ row.course = page[p].course /\ row.at = page[p].at
            /\ page[p].known => row.known \/ course'[page[p].course] = "deleted"
  <1> DEFINE p == asked[q].page
             c == asked[q].course
             row == [page[p] EXCEPT !.submitting = FALSE, !.known = Found(c),
                                    !.fetched = getDraft(c)]
  <1>1. /\ page[p] \in PageRows({page[p].typed}) /\ RowBehind(page[p])
        /\ page[p].course = c /\ c \in Courses
    BY RequestAfter, PageHeld
  <1>2. /\ getDraft(c) \in Snapshots \cup {NoFetch}
        /\ getDraft(c) # NoFetch => IsBehind(c, getDraft(c).version, getDraft(c).content)
    BY <1>1, KeptTypes, FetchedIsBehind
  <1>3. Found(c) \in BOOLEAN
    BY DEF Found
  <1>4. IsPage(row)
    BY <1>1, <1>2, <1>3 DEF IsPage, PageRows
  <1>5. /\ row.course = page[p].course /\ row.at = page[p].at
        /\ row.known = Found(c) /\ row.fetched = getDraft(c)
        /\ row.version = page[p].version /\ row.base = page[p].base
    BY <1>1 DEF PageRows
  <1>6. Exists(c) /\ (page[p].known \/ course[c] = "deleted")
    BY DEF PagesInv, RequestsAttached, Attached
  <1>7. course[c] \in {"absent", "active", "deleted"}
    BY <1>1, KeptTypes DEF PublicationTypeOK
  <1>8. Found(c) => page[p].known
    BY <1>6 DEF Found
  <1>9. ~Found(c) => course'[c] = "deleted"
    BY <1>1, <1>6, <1>7, KeptTypes DEF Found, Exists, CoursesStay
  <1> HIDE DEF row
  <1>10. RowBehind(row)
    BY <1>1, <1>2, <1>5, <1>8 DEF RowBehind
  <1> QED
    BY <1>1, <1>4, <1>5, <1>9, <1>10 DEF row

LEMMA RefusedRow ==
  ASSUME PagesInv, NEW p \in Pages, NEW q \in Requests
  PROVE  /\ IsPage(Refused(p, q)) /\ RowBehind(Refused(p, q))
         /\ Refused(p, q).course = page[p].course /\ Refused(p, q).at = page[p].at
         /\ Refused(p, q).known = page[p].known
  <1> DEFINE row == Refused(p, q)
  <1>1. page[p] \in PageRows({page[p].typed}) /\ RowBehind(page[p])
    BY PageHeld
  <1>2. IsPage(row)
    BY <1>1 DEF Refused, IsPage, PageRows
  <1>3. /\ row.course = page[p].course /\ row.at = page[p].at /\ row.known = page[p].known
        /\ row.version = page[p].version /\ row.base = page[p].base
        /\ row.fetched = page[p].fetched
    BY <1>1 DEF Refused, PageRows
  <1> HIDE DEF row
  <1>4. RowBehind(row)
    BY <1>1, <1>3 DEF RowBehind
  <1> QED
    BY <1>2, <1>3, <1>4 DEF row

LEMMA AnswerKeeps ==
  ASSUME ServerKept, PagesInv, NEW q \in Requests,
         \/ SaveAnswered(q) \/ SaveLeadsOn(q) \/ CallRefused(q) \/ SubmitReaches(q)
         \/ SubmitAnswered(q) \/ PublishAnswered(q) \/ SecondCallFails(q)
  PROVE  PagesInv'
  <1> DEFINE p == asked[q].page
  <1>0. /\ asked[q] \in AskedRows /\ p \in Pages /\ asked[q].course \in Courses
        /\ page[p] \in PageRows({page[p].typed}) /\ RowBehind(page[p])
    BY RequestAfter, PageHeld
  <1>1. CASE SaveAnswered(q)
    <2>1. /\ call[q].op = "save" /\ call[q].phase = "done" /\ Freed(q)
          /\ page' = IF asked[q].live THEN [page EXCEPT ![p] = Saved(p, q)] ELSE page
      BY <1>1 DEF SaveAnswered
    <2>2. PICK a \in AskedRows : /\ asked' = [asked EXCEPT ![q] = a]
                                 /\ a.live => /\ asked[q].live /\ a.page = p
                                              /\ a.course = asked[q].course
      <3>1. CASE asked' = Forgotten(q)
        BY <3>1, NotAskedIsRow DEF Forgotten
      <3>2. ASSUME NEW next \in {"review", "publishing"},
                   asked' = [asked EXCEPT ![q].purpose = next]
            PROVE  \E a \in AskedRows : /\ asked' = [asked EXCEPT ![q] = a]
                                        /\ a.live => /\ asked[q].live /\ a.page = p
                                                     /\ a.course = asked[q].course
        <4> DEFINE a == [asked[q] EXCEPT !.purpose = next]
        <4>1. /\ a \in AskedRows /\ asked' = [asked EXCEPT ![q] = a]
              /\ a.live = asked[q].live /\ a.page = p /\ a.course = asked[q].course
          BY <1>0, <3>2 DEF AskedRows, Purposes
        <4> HIDE DEF a
        <4> QED
          BY <4>1
      <3> QED
        BY <1>1, <3>1, <3>2 DEF SaveAnswered
    <2> QED
      BY <2>1, <2>2, FreedCall, SavedRow, AnswerTaken
  <1>2. CASE SaveLeadsOn(q)
    <2>1. Freed(q) /\ asked' = [Detached(p) EXCEPT ![q] = NotAsked]
      BY <1>2 DEF SaveLeadsOn
    <2>2. CASE page' = [page EXCEPT ![p] = Entered("lesson", asked[q].course, asked[q].lesson)]
      <3>1. asked[q].lesson \in LessonIds \cup {NoLesson}
        BY <1>0 DEF AskedRows
      <3>2. /\ IsPage(Entered("lesson", asked[q].course, asked[q].lesson))
            /\ RowBehind(Entered("lesson", asked[q].course, asked[q].lesson))
        BY <1>0, <3>1, KeptTypes, EnteredBehind
      <3> QED
        BY <1>0, <2>1, <2>2, <3>2, FreedCall, PageMovesOn
    <2>3. CASE page' = [page EXCEPT ![p] = Away]
      BY <1>0, <2>1, <2>3, FreedCall, AwayBehind, PageMovesOn
    <2> QED
      BY <1>2, <2>2, <2>3 DEF SaveLeadsOn
  <1>3. CASE CallRefused(q)
    <2>1. /\ Freed(q) /\ asked' = [asked EXCEPT ![q] = NotAsked]
          /\ page' = IF asked[q].live THEN [page EXCEPT ![p] = Refused(p, q)] ELSE page
      BY <1>3 DEF CallRefused, Forgotten
    <2> QED
      BY <1>0, <2>1, FreedCall, NotAskedIsRow, RefusedRow, AnswerTaken
  <1>4. CASE SubmitReaches(q)
    <2>1. UNCHANGED deskVars /\ SubmitBegins(q, asked[q].course)
      BY <1>4 DEF SubmitReaches
    <2>2. /\ call'[q].op = "submit" /\ call'[q].course = asked[q].course
          /\ \A o \in Requests \ {q} : call'[o] = call[o]
      BY <2>1, KeptTypes DEF SubmitBegins, NoCall, PublicationTypeOK
    <2> QED
      BY <2>1, <2>2, KeptTypes, PagesUntouched
  <1>5. ASSUME call'[q].op = "none", \A o \in Requests \ {q} : call'[o] = call[o],
               asked' = [asked EXCEPT ![q] = NotAsked], page' = Reloaded(q)
        PROVE  PagesInv'
    <2>1. CASE ~asked[q].live
      BY <1>5, <2>1, NotAskedIsRow, AnswerTaken DEF Reloaded
    <2>2. CASE asked[q].live
      BY <1>5, <2>2, NotAskedIsRow, ReloadedRow, AnswerTaken DEF Reloaded
    <2> QED
      BY <2>1, <2>2
  <1>6. CASE SubmitAnswered(q)
    <2>1. Freed(q) /\ asked' = [asked EXCEPT ![q] = NotAsked] /\ page' = Reloaded(q)
      BY <1>6 DEF SubmitAnswered, Forgotten
    <2> QED
      BY <1>5, <2>1, FreedCall
  <1>7. CASE PublishAnswered(q)
    <2>1. /\ call' = call /\ call[q].op = "none"
          /\ asked' = [asked EXCEPT ![q] = NotAsked] /\ page' = Reloaded(q)
      BY <1>7 DEF PublishAnswered, PublishCourse, Forgotten
    <2> QED
      BY <1>5, <2>1
  <1>8. CASE SecondCallFails(q)
    <2>1. /\ call' = call /\ call[q].op = "none" /\ asked' = [asked EXCEPT ![q] = NotAsked]
          /\ page' = IF asked[q].live THEN [page EXCEPT ![p].submitting = FALSE] ELSE page
      BY <1>8 DEF SecondCallFails, PublishCourse, Forgotten, publicationVars
    <2> DEFINE row == [page[p] EXCEPT !.submitting = FALSE]
    <2>2. IsPage(row)
      BY <1>0 DEF IsPage, PageRows
    <2>3. /\ row.course = page[p].course /\ row.at = page[p].at /\ row.known = page[p].known
          /\ row.version = page[p].version /\ row.base = page[p].base
          /\ row.fetched = page[p].fetched
      BY <1>0 DEF PageRows
    <2>4. asked[q].live => page' = [page EXCEPT ![p] = row]
      BY <2>1
    <2> HIDE DEF row
    <2>5. RowBehind(row)
      BY <1>0, <2>3 DEF RowBehind
    <2> QED
      BY <1>0, <2>1, <2>2, <2>3, <2>4, <2>5, NotAskedIsRow, AnswerTaken
  <1> QED
    BY <1>1, <1>2, <1>3, <1>4, <1>6, <1>7, <1>8

-----------------------------------------------------------------------------
(* The invariant of the desk.                                              *)

DeskInv == ServerInv /\ PagesInv

LEMMA DeskInitInv ==
  ASSUME DeskInit
  PROVE  DeskInv
  <1>1. ServerInv
    BY ServerInit DEF DeskInit
  <1>2. DeskShape
    BY AwayIsPage, NotAskedIsRow DEF DeskInit, DeskShape
  <1>3. PagesBehind
    BY AwayBehind DEF DeskInit, PagesBehind
  <1>4. SavesBehind /\ RequestsAttached
    BY NotAskedIsRow
    DEF DeskInit, Init, PublicationInit, NoCall, SavesBehind, SaveBehind,
        RequestsAttached, Attached
  <1> QED
    BY <1>1, <1>2, <1>3, <1>4 DEF DeskInv, PagesInv

LEMMA OnlyPublicationKeeps ==
  ASSUME ServerKept, PagesInv, UNCHANGED <<call, deskVars>>
  PROVE  PagesInv'
  BY KeptTypes, PagesUntouched

LEMMA ServerNextKeeps ==
  ASSUME ServerKept, PagesInv, ServerNext, UNCHANGED deskVars
  PROVE  PagesInv'
  <1>0. call \in [Requests -> CallRows]
    BY KeptTypes DEF PublicationTypeOK, CallRows
  <1>1. ASSUME NEW q \in Requests, UpdateDraft(q) \/ \E r \in Reviews : SubmitReview(q, r)
        PROVE  PagesInv'
    <2>1. call[q].op # "none" /\ call' = [call EXCEPT ![q].phase = "done"]
      BY <1>1 DEF UpdateDraft, SubmitReview, Asked
    <2>2. /\ call'[q].op = call[q].op /\ call'[q].course = call[q].course
          /\ call'[q].phase = "done"
          /\ \A o \in Requests \ {q} : call'[o] = call[o]
      BY <1>0, <2>1 DEF CallRows
    <2> QED
      BY <2>1, <2>2, KeptTypes, PagesUntouched
  <1>2. ASSUME NEW c \in Courses, ArchiveCourse(c)
        PROVE  PagesInv'
    BY <1>2, OnlyPublicationKeeps DEF ArchiveCourse
  <1> QED
    BY <1>1, <1>2 DEF ServerNext

LEMMA DeskStepKeepsInv ==
  ASSUME DeskInv, [Next]_everything
  PROVE  DeskInv'
  <1>1. ServerKept
    BY StepOfServer, ServerKeeps DEF DeskInv, PagesInv
  <1>2. CASE DeskNext
    <2>1. ASSUME AccessServer /\ UNCHANGED deskVars
          PROVE  PagesInv'
      <3>1. UNCHANGED publicationVars
        BY <2>1 DEF AccessServer, CreateLink, LinkGrowsOld, ClaimLink, AdminGrantBegins,
                    AdminGrant
      <3>2. UNCHANGED <<call, deskVars>>
        BY <2>1, <3>1 DEF publicationVars
      <3> QED
        BY <1>1, <3>2, OnlyPublicationKeeps DEF DeskInv
    <2>2. ASSUME ServerNext /\ UNCHANGED <<accessVars, deskVars>>
          PROVE  PagesInv'
      BY <1>1, <2>2, ServerNextKeeps DEF DeskInv
    <2>3. PagesInv'
      <3>1. CASE \E p \in Pages :
                   \/ OutlineScreen(p) \/ Navigation(p) \/ LessonGraphEdited(p)
                   \/ \E q \in Requests : handleSave(p, q) \/ handlePreview(p, q)
        BY <1>1, <3>1, PageStepKeeps DEF DeskInv
      <3>2. CASE Answers
        BY <1>1, <3>2, AnswerKeeps DEF DeskInv, Answers
      <3> QED
        BY <1>2, <2>1, <2>2, <3>1, <3>2 DEF DeskNext
    <2> QED
      BY <1>1, <2>3 DEF DeskInv, ServerKept
  <1>3. CASE UNCHANGED <<call, deskVars>>
    BY <1>1, <1>3, OnlyPublicationKeeps DEF DeskInv, ServerKept
  <1>4. CASE OtherAdministrator \/ \E d \in Decisions : DecisionReaches(d)
    <2>1. UNCHANGED <<call, deskVars>>
      BY <1>4 DEF OtherAdministrator, DecisionReaches, ApproveReview, RejectReview,
                  AdminArchiveCourse, publicationVars
    <2> QED
      BY <1>3, <2>1
  <1>5. CASE \/ OpenQueue \/ QueueArrives \/ CloseDialog \/ ToggleReject
             \/ handleApprove \/ handleReject
             \/ \E r \in Reviews : SelectReview(r)
             \/ \E f \in Fetches : LessonsArrive(f)
             \/ \E d \in Decisions : DecisionAnswered(d) \/ DecisionFails(d)
    <2>1. UNCHANGED allVars
      BY <1>5 DEF OpenQueue, QueueArrives, CloseDialog, ToggleReject, handleApprove,
                  handleReject, Decide, SelectReview, LessonsArrive, DecisionAnswered, DecisionFails
    <2> QED
      BY <1>3, <2>1 DEF allVars, vars, publicationVars
  <1>6. CASE UNCHANGED everything
    BY <1>3, <1>6 DEF everything, allVars, vars, publicationVars
  <1> QED
    BY <1>2, <1>4, <1>5, <1>6 DEF Next

(* The pages ask nothing of the server that its handlers do not do, and    *)
(* its invariant and that of the pages hold throughout.                    *)
THEOREM DeskInvariant == Spec => []DeskInv
  <1>1. ModerationInit => DeskInv
    BY DeskInitInv DEF ModerationInit
  <1>2. DeskInv /\ [Next]_everything => DeskInv'
    BY DeskStepKeepsInv
  <1> QED
    BY <1>1, <1>2, PTL DEF Spec

(* What the pages, the moderators and the server do together is something  *)
(* the server alone does for some callers: ServerSpec is an abstraction of *)
(* the whole system.                                                       *)
THEOREM PagesOnlyUseTheServer == Spec => ServerSpec
  <1>1. ModerationInit => Init
    BY DEF ModerationInit, DeskInit
  <1>2. DeskInv /\ [Next]_everything => [ServerStep]_vars
    BY StepOfServer DEF DeskInv, PagesInv
  <1> QED
    BY <1>1, <1>2, DeskInvariant, PTL DEF Spec, ServerSpec

-----------------------------------------------------------------------------
(* What the runs check.                                                    *)

LEMMA NothingLost ==
  ASSUME DeskInv
  PROVE  NoLostEdit
  <1>1. ASSUME NEW p \in Pages, page[p].known,
               page[p].version = draft[page[p].course].version
        PROVE  page[p].base = draft[page[p].course].content
    BY <1>1 DEF DeskInv, PagesInv, PagesBehind, RowBehind, IsBehind
  <1>2. ASSUME NEW q \in Requests, Asked(q, "save"),
               call[q].version = draft[call[q].course].version
        PROVE  asked[q].base = draft[call[q].course].content
    BY <1>2 DEF DeskInv, PagesInv, SavesBehind, SaveBehind, IsBehind, Asked
  <1> QED
    BY <1>1, <1>2 DEF NoLostEdit

(* A save that the server accepts overwrites nothing its author has not    *)
(* seen, however many pages write the draft and whichever answers are      *)
(* late or lost.                                                           *)
THEOREM NoEditIsLost == Spec => []NoLostEdit
  <1>1. DeskInv => NoLostEdit
    BY NothingLost
  <1> QED
    BY <1>1, DeskInvariant, PTL

(* A draft in review has exactly one pending review.                       *)
THEOREM InReviewHasOneReview == Spec => []InReviewIsPending
  <1>1. DeskInv => InReviewIsPending
    BY OneReviewPending DEF DeskInv
  <1> QED
    BY <1>1, DeskInvariant, PTL

(* A teacher's course has as many revisions as approved reviews, and its   *)
(* last revision, and no other, is the current one.                        *)
THEOREM EveryRevisionWasReviewed == Spec => []PublishedByReview
  <1>1. DeskInv => PublishedByReview
    BY RevisionsAreReviewed DEF DeskInv
  <1> QED
    BY <1>1, DeskInvariant, PTL

(* Nobody holds a teacher's course that no administrator has approved.     *)
THEOREM GrantsFollowApprovals == Spec => []GrantedWasApproved
  <1>1. DeskInv => GrantedWasApproved
    BY DEF DeskInv, ServerInv, AccessApproved
  <1> QED
    BY <1>1, DeskInvariant, PTL

-----------------------------------------------------------------------------
(* Forms and answers.                                                      *)

(* What was typed stays, or the page is left or drawn anew.                *)
FormsKept ==
  \A p \in Pages : \/ page'[p].typed = page[p].typed
                   \/ ~page'[p].known /\ page'[p].typed = Empty

LEMMA OneFormKept ==
  ASSUME DeskShape, NEW p \in Pages, NEW row, page' = [page EXCEPT ![p] = row],
         row.typed = page[p].typed \/ (~row.known /\ row.typed = Empty)
  PROVE  FormsKept
  <1>1. page'[p] = row /\ \A o \in Pages \ {p} : page'[o] = page[o]
    BY DEF DeskShape
  <1> QED
    BY <1>1 DEF FormsKept

(* The steps that change what is typed.                                    *)
Writes(p) == ModuleList(p) \/ LessonList(p) \/ LessonGraphEdited(p) \/ ShowDraft(p)

LEMMA WritingCallsNothing ==
  ASSUME NEW p \in Pages, Writes(p)
  PROVE  call' = call
  <1>1. ASSUME NEW modules, Type(p, modules)
        PROVE  call' = call
    BY <1>1 DEF Type, vars, publicationVars
  <1>2. CASE ShowDraft(p)
    BY <1>2 DEF ShowDraft, vars, publicationVars
  <1> QED
    BY <1>1, <1>2 DEF Writes, ModuleList, LessonList, LessonGraphEdited

LEMMA NewPageHasNoForm ==
  /\ ~Away.known /\ Away.typed = Empty
  /\ \A at, c, l : ~Entered(at, c, l).known /\ Entered(at, c, l).typed = Empty
  BY DEF Entered, Away

LEMMA PageStepKeepsForms ==
  ASSUME DeskShape, NEW p \in Pages, ~Writes(p),
         \/ OutlineScreen(p) \/ Navigation(p) \/ LessonGraphEdited(p)
         \/ \E q \in Requests : handleSave(p, q) \/ handlePreview(p, q)
  PROVE  FormsKept
  <1>0. page[p] \in PageRows({page[p].typed})
    BY DEF DeskShape, IsPage
  <1>1. CASE doArchive(p) \/ ShareModal(p)
    BY <1>1 DEF doArchive, ShareModal, deskVars, FormsKept
  <1>2. ASSUME NEW c \in Courses, handleCreate(p, c)
        PROVE  FormsKept
    <2> DEFINE row == [Away EXCEPT !.at = "outline", !.course = c,
                         !.fetched = [version |-> 1, content |-> Empty, editable |-> TRUE,
                                      shared |-> FALSE]]
    <2>1. page' = [page EXCEPT ![p] = row]
      BY <1>2 DEF handleCreate
    <2>2. ~row.known /\ row.typed = Empty
      BY DEF Away
    <2> HIDE DEF row
    <2> QED
      BY <2>1, <2>2, OneFormKept
  <1>3. ASSUME NEW c, NEW at, NEW l, Open(p, at, c, l)
        PROVE  FormsKept
    <2>1. PICK row : row = Entered(at, c, l)
      OBVIOUS
    <2>2. ~row.known /\ row.typed = Empty /\ page' = [page EXCEPT ![p] = row]
      BY <1>3, <2>1, NewPageHasNoForm DEF Open
    <2> QED
      BY <2>2, OneFormKept
  <1>4. CASE Leave(p)
    BY <1>4, NewPageHasNoForm, OneFormKept DEF Leave
  <1>5. ASSUME NEW q \in Requests,
               \/ handleSave(p, q) \/ handlePreview(p, q) \/ doSubmit(p, q)
               \/ handlePublish(p, q) \/ \E l \in LessonIds : handleEditLesson(p, q, l)
        PROVE  FormsKept
    <2>1. \/ page' = [page EXCEPT ![p].saving = TRUE]
          \/ page' = [page EXCEPT ![p].submitting = TRUE]
          \/ page' = [page EXCEPT ![p].submitting = TRUE, ![p].saving = TRUE]
          \/ \E l \in LessonIds :
               page' = [page EXCEPT ![p] = Entered("lesson", page[p].course, l)]
      BY <1>5 DEF handleSave, handlePreview, doSubmit, handlePublish, handleEditLesson
    <2>2. CASE \E l \in LessonIds :
                 page' = [page EXCEPT ![p] = Entered("lesson", page[p].course, l)]
      <3>0. PICK l \in LessonIds : page' = [page EXCEPT ![p] = Entered("lesson", page[p].course, l)]
        BY <2>2
      <3>1. PICK row : /\ page' = [page EXCEPT ![p] = row]
                       /\ row = Entered("lesson", page[p].course, l)
        BY <3>0
      <3>2. ~row.known /\ row.typed = Empty
        BY <3>1, NewPageHasNoForm
      <3> QED
        BY <3>1, <3>2, OneFormKept
    <2>3. CASE \/ page' = [page EXCEPT ![p].saving = TRUE]
               \/ page' = [page EXCEPT ![p].submitting = TRUE]
               \/ page' = [page EXCEPT ![p].submitting = TRUE, ![p].saving = TRUE]
      <3>1. /\ page'[p].typed = page[p].typed
            /\ \A o \in Pages \ {p} : page'[o] = page[o]
        BY <1>0, <2>3 DEF DeskShape, PageRows
      <3> QED
        BY <3>1 DEF FormsKept
    <2> QED
      BY <2>1, <2>2, <2>3
  <1>6. \/ Writes(p) \/ doArchive(p) \/ ShareModal(p) \/ Leave(p)
        \/ \E c \in Courses : handleCreate(p, c)
        \/ \E c, at, l : Open(p, at, c, l)
        \/ \E q \in Requests :
             \/ handleSave(p, q) \/ handlePreview(p, q) \/ doSubmit(p, q)
             \/ handlePublish(p, q) \/ \E l \in LessonIds : handleEditLesson(p, q, l)
    BY DEF OutlineScreen, Navigation, Writes
  <1> QED
    BY <1>1, <1>2, <1>3, <1>4, <1>5, <1>6

LEMMA AnswersKeepForms ==
  ASSUME DeskShape, NEW q \in Requests,
         \/ SaveAnswered(q) \/ SaveLeadsOn(q) \/ CallRefused(q) \/ SubmitReaches(q)
         \/ SubmitAnswered(q) \/ PublishAnswered(q) \/ SecondCallFails(q)
  PROVE  FormsKept
  <1> DEFINE p == asked[q].page
  <1>0. p \in Pages /\ page[p] \in PageRows({page[p].typed})
    BY DEF DeskShape, AskedRows, IsPage
  <1>1. ASSUME page' = page
        PROVE  FormsKept
    BY <1>1 DEF FormsKept
  <1>2. ASSUME page' = [page EXCEPT ![p] = Saved(p, q)]
        PROVE  FormsKept
    <2>1. Saved(p, q).typed = page[p].typed
      BY <1>0 DEF Saved, PageRows
    <2> QED
      BY <1>0, <1>2, <2>1, OneFormKept
  <1>3. ASSUME page' = [page EXCEPT ![p] = Refused(p, q)]
        PROVE  FormsKept
    <2>1. Refused(p, q).typed = page[p].typed
      BY <1>0 DEF Refused, PageRows
    <2> QED
      BY <1>0, <1>3, <2>1, OneFormKept
  <1>4. ASSUME page' = Reloaded(q)
        PROVE  FormsKept
    <2> DEFINE row == [page[p] EXCEPT !.submitting = FALSE, !.known = Found(asked[q].course),
                                      !.fetched = getDraft(asked[q].course)]
    <2>1. page' = page \/ page' = [page EXCEPT ![p] = row]
      BY <1>4 DEF Reloaded
    <2>2. row.typed = page[p].typed
      BY <1>0 DEF PageRows
    <2> HIDE DEF row
    <2> QED
      BY <1>0, <1>1, <2>1, <2>2, OneFormKept
  <1>5. CASE SaveLeadsOn(q)
    <2>1. \/ page' = [page EXCEPT ![p] = Entered("lesson", asked[q].course, asked[q].lesson)]
          \/ page' = [page EXCEPT ![p] = Away]
      BY <1>5 DEF SaveLeadsOn
    <2> QED
      BY <1>0, <2>1, NewPageHasNoForm, OneFormKept
  <1>6. CASE SecondCallFails(q)
    <2>1. page' = page \/ page' = [page EXCEPT ![p].submitting = FALSE]
      BY <1>6 DEF SecondCallFails
    <2>2. /\ page'[p].typed = page[p].typed
          /\ \A o \in Pages \ {p} : page'[o] = page[o]
      BY <1>0, <2>1 DEF DeskShape, PageRows
    <2> QED
      BY <2>2 DEF FormsKept
  <1>7. CASE SaveAnswered(q)
    BY <1>1, <1>2, <1>7 DEF SaveAnswered
  <1>8. CASE CallRefused(q)
    BY <1>1, <1>3, <1>8 DEF CallRefused
  <1>9. CASE SubmitAnswered(q) \/ PublishAnswered(q)
    BY <1>4, <1>9 DEF SubmitAnswered, PublishAnswered
  <1>10. CASE SubmitReaches(q)
    BY <1>1, <1>10 DEF SubmitReaches, deskVars
  <1> QED
    BY <1>5, <1>6, <1>7, <1>8, <1>9, <1>10

LEMMA StepKeepsForms ==
  ASSUME DeskShape, [Next]_everything, \A p \in Pages : ~Writes(p)
  PROVE  FormsKept
  <1>1. ASSUME UNCHANGED deskVars
        PROVE  FormsKept
    BY <1>1 DEF FormsKept, deskVars
  <1>2. CASE DeskNext
    <2>1. CASE \E p \in Pages :
                 \/ OutlineScreen(p) \/ Navigation(p) \/ LessonGraphEdited(p)
                 \/ \E q \in Requests : handleSave(p, q) \/ handlePreview(p, q)
      BY <2>1, PageStepKeepsForms
    <2>2. CASE Answers
      BY <2>2, AnswersKeepForms DEF Answers
    <2>3. CASE ServerNext /\ UNCHANGED <<accessVars, deskVars>>
      BY <1>1, <2>3
    <2>4. CASE AccessServer /\ UNCHANGED deskVars
      BY <1>1, <2>4
    <2> QED
      BY <1>2, <2>1, <2>2, <2>3, <2>4 DEF DeskNext
  <1>3. CASE OtherAdministrator \/ \E d \in Decisions : DecisionReaches(d)
    BY <1>1, <1>3 DEF OtherAdministrator, DecisionReaches
  <1>4. CASE \/ OpenQueue \/ QueueArrives \/ CloseDialog \/ ToggleReject
             \/ handleApprove \/ handleReject
             \/ \E r \in Reviews : SelectReview(r)
             \/ \E f \in Fetches : LessonsArrive(f)
             \/ \E d \in Decisions : DecisionAnswered(d) \/ DecisionFails(d)
    <2>1. UNCHANGED allVars
      BY <1>4 DEF OpenQueue, QueueArrives, CloseDialog, ToggleReject, handleApprove,
                  handleReject, Decide, SelectReview, LessonsArrive, DecisionAnswered, DecisionFails
    <2> QED
      BY <1>1, <2>1 DEF allVars
  <1>5. CASE UNCHANGED everything
    BY <1>1, <1>5 DEF everything, allVars
  <1> QED
    BY <1>2, <1>3, <1>4, <1>5 DEF Next

(* No answer takes away what was typed while it was under way.             *)
THEOREM AnswersKeepTyping == Spec => KeepsTyping
  <1> DEFINE Kept ==
         \A p \in Pages :
           /\ call' # call
           /\ page'[p].at = page[p].at /\ page'[p].known /\ page'[p].fetched = NoFetch
           => page'[p].typed = page[p].typed
  <1>1. DeskInv /\ [Next]_everything => Kept
    BY StepKeepsForms, WritingCallsNothing DEF DeskInv, PagesInv, FormsKept
  <1> HIDE DEF Kept
  <1>2. Spec => [][Kept]_allVars
    BY <1>1, DeskInvariant, PTL DEF Spec
  <1>3. [][Kept]_allVars <=> KeepsTyping
    BY PTL DEF Kept, KeepsTyping
  <1> QED
    BY <1>2, <1>3

-----------------------------------------------------------------------------
(* Outlines.                                                               *)

LessonRows == [id : LessonIds, graph : Graphs]
ModuleRows == [id : ModuleIds, lessons : Seq(LessonRows)]

(* Modules as an editor makes them: no id twice.                           *)
Filed(modules) ==
  /\ modules \in Outlines
  /\ \A i, j \in DOMAIN modules : modules[i].id = modules[j].id => i = j
  /\ \A i, j \in DOMAIN modules :
       \A k \in DOMAIN modules[i].lessons, n \in DOMAIN modules[j].lessons :
         modules[i].lessons[k].id = modules[j].lessons[n].id => i = j /\ k = n

(* Every entry of the one list is an entry of the other, and none twice.   *)
Drawn(new, old) ==
  \E from \in [DOMAIN new -> DOMAIN old] :
    /\ \A k \in DOMAIN new : new[k] = old[from[k]]
    /\ \A k, n \in DOMAIN new : from[k] = from[n] => k = n

LEMMA OutlineRows ==
  /\ Outlines = Seq(ModuleRows)
  /\ \A row \in ModuleRows : row.id \in ModuleIds /\ row.lessons \in Seq(LessonRows)
  <1>1. Outlines = Seq(ModuleRows)
    BY DEF Outlines, ModuleRows, LessonRows
  <1>2. \A row \in ModuleRows : row.id \in ModuleIds /\ row.lessons \in Seq(LessonRows)
    BY DEF ModuleRows
  <1> QED
    BY <1>1, <1>2

LEMMA RemovedIsDrawn ==
  ASSUME NEW S, NEW old \in Seq(S), NEW i \in DOMAIN old
  PROVE  RemoveAt(old, i) \in Seq(S) /\ Drawn(RemoveAt(old, i), old)
  <1> DEFINE before == SubSeq(old, 1, i - 1)
             after == SubSeq(old, i + 1, Len(old))
             new == before \o after
  <1>1. i \in 1..Len(old) /\ Len(old) \in Nat
    OBVIOUS
  <1>2. /\ before \in Seq(S) /\ after \in Seq(S)
        /\ Len(before) = i - 1 /\ Len(after) = Len(old) - i
        /\ \A k \in 1..(i - 1) : before[k] = old[k]
        /\ \A k \in 1..(Len(old) - i) : after[k] = old[i + k]
    BY <1>1
  <1> HIDE DEF before, after
  <1>3. /\ new \in Seq(S) /\ Len(new) = Len(old) - 1
        /\ \A k \in 1..(Len(old) - 1) : new[k] = IF k < i THEN old[k] ELSE old[k + 1]
    <2>1. new \in Seq(S) /\ Len(new) = Len(before) + Len(after)
      BY <1>2, ConcatProperties
    <2>2. ASSUME NEW k \in 1..(Len(old) - 1)
          PROVE  new[k] = IF k < i THEN old[k] ELSE old[k + 1]
      <3>1. CASE k < i
        <4>1. k \in 1..Len(before) /\ k \in 1..(i - 1)
          BY <1>1, <1>2, <3>1
        <4>2. new[k] = before[k]
          BY <1>2, <4>1, ConcatProperties
        <4> QED
          BY <1>2, <3>1, <4>1, <4>2
      <3>2. CASE ~(k < i)
        <4>0. /\ Len(before) = i - 1 /\ Len(after) = Len(old) - i
              /\ i \in Int /\ k \in Int /\ Len(old) \in Int /\ k <= Len(old) - 1
          BY <1>1, <1>2
        <4>1. k - Len(before) \in 1..Len(after) /\ k - Len(before) = k - i + 1
          BY <3>2, <4>0
        <4>2. new[k] = after[k - Len(before)]
          <5>1. k \in 1..(Len(before) + Len(after)) /\ ~(k <= Len(before))
            BY <3>2, <4>0
          <5> QED
            BY <1>2, <5>1, ConcatProperties
        <4>3. k - i + 1 \in 1..(Len(old) - i) /\ i + (k - i + 1) = k + 1
          BY <4>0, <4>1
        <4>4. after[k - i + 1] = old[i + (k - i + 1)]
          BY <1>2, <4>3
        <4> QED
          BY <3>2, <4>1, <4>2, <4>3, <4>4
      <3> QED
        BY <3>1, <3>2
    <2>3. Len(before) + Len(after) = Len(old) - 1
      BY <1>1, <1>2
    <2> QED
      BY <2>1, <2>2, <2>3
  <1>4. RemoveAt(old, i) = new
    BY DEF RemoveAt, before, after
  <1> HIDE DEF new
  <1> DEFINE from == [k \in DOMAIN new |-> IF k < i THEN k ELSE k + 1]
  <1>5. from \in [DOMAIN new -> DOMAIN old]
    BY <1>1, <1>3
  <1>6. \A k \in DOMAIN new : new[k] = old[from[k]]
    BY <1>1, <1>3
  <1>7. \A k, n \in DOMAIN new : from[k] = from[n] => k = n
    BY <1>1, <1>3
  <1> QED
    BY <1>3, <1>4, <1>5, <1>6, <1>7 DEF Drawn

LEMMA SwappedIsDrawn ==
  ASSUME NEW S, NEW old \in Seq(S), NEW i \in DOMAIN old, NEW j
  PROVE  Swapped(old, i, j) \in Seq(S) /\ Drawn(Swapped(old, i, j), old)
  <1>1. CASE j \in DOMAIN old
    <2> DEFINE new == [old EXCEPT ![i] = old[j], ![j] = old[i]]
               from == [k \in DOMAIN new |-> IF k = j THEN i ELSE IF k = i THEN j ELSE k]
    <2>1. /\ new \in Seq(S) /\ DOMAIN new = DOMAIN old
          /\ \A k \in DOMAIN old : new[k] = IF k = j THEN old[i]
                                            ELSE IF k = i THEN old[j] ELSE old[k]
      BY <1>1
    <2> HIDE DEF new
    <2>2. /\ from \in [DOMAIN new -> DOMAIN old]
          /\ \A k \in DOMAIN new : new[k] = old[from[k]]
          /\ \A k, n \in DOMAIN new : from[k] = from[n] => k = n
      BY <1>1, <2>1
    <2>3. Swapped(old, i, j) = new
      BY <1>1 DEF Swapped, new
    <2> QED
      BY <2>1, <2>2, <2>3 DEF Drawn
  <1>2. CASE j \notin DOMAIN old
    <2> DEFINE from == [k \in DOMAIN old |-> k]
    <2>1. /\ from \in [DOMAIN old -> DOMAIN old]
          /\ \A k \in DOMAIN old : old[k] = old[from[k]]
          /\ \A k, n \in DOMAIN old : from[k] = from[n] => k = n
      OBVIOUS
    <2> QED
      BY <1>2, <2>1 DEF Swapped, Drawn
  <1> QED
    BY <1>1, <1>2

LEMMA DrawnIsFiled ==
  ASSUME NEW old, Filed(old), NEW new \in Outlines, Drawn(new, old)
  PROVE  Filed(new)
  <1>1. PICK from \in [DOMAIN new -> DOMAIN old] :
           /\ \A k \in DOMAIN new : new[k] = old[from[k]]
           /\ \A k, n \in DOMAIN new : from[k] = from[n] => k = n
    BY DEF Drawn
  <1>2. \A i, j \in DOMAIN new : new[i].id = new[j].id => i = j
    BY <1>1 DEF Filed
  <1>3. ASSUME NEW i \in DOMAIN new, NEW j \in DOMAIN new,
               NEW k \in DOMAIN new[i].lessons, NEW n \in DOMAIN new[j].lessons,
               new[i].lessons[k].id = new[j].lessons[n].id
        PROVE  i = j /\ k = n
    <2>1. /\ from[i] \in DOMAIN old /\ from[j] \in DOMAIN old
          /\ new[i] = old[from[i]] /\ new[j] = old[from[j]]
      BY <1>1
    <2>2. from[i] = from[j] /\ k = n
      BY <1>3, <2>1 DEF Filed
    <2> QED
      BY <1>1, <2>2
  <1> QED
    BY <1>2, <1>3 DEF Filed

(* Where an entry is found.                                                *)
LEMMA ModuleFound ==
  ASSUME NEW modules \in Outlines, NEW m \in ModuleIdsOf(modules)
  PROVE  /\ ModuleAt(modules, m) \in DOMAIN modules
         /\ modules[ModuleAt(modules, m)].id = m
         /\ LessonsIn(modules, m) \in Seq(LessonRows)
  <1>1. \E i \in DOMAIN modules : modules[i].id = m
    BY DEF ModuleIdsOf
  <1>2. /\ ModuleAt(modules, m) \in DOMAIN modules
        /\ modules[ModuleAt(modules, m)].id = m
    BY <1>1 DEF ModuleAt
  <1>3. modules[ModuleAt(modules, m)] \in ModuleRows
    BY <1>2, OutlineRows
  <1> QED
    BY <1>2, <1>3, OutlineRows DEF LessonsIn

LEMMA LessonFound ==
  ASSUME NEW held \in Seq(LessonRows), NEW lesson \in ToSet(held)
  PROVE  LessonAt(held, lesson.id) \in DOMAIN held
  <1>1. \E k \in DOMAIN held : held[k].id = lesson.id
    BY DEF ToSet
  <1> QED
    BY <1>1 DEF LessonAt

(* A module gets other lessons: ones no other module has.                  *)
LEMMA InModuleIsFiled ==
  ASSUME NEW modules, Filed(modules), NEW m \in ModuleIdsOf(modules),
         NEW held \in Seq(LessonRows),
         \A k, n \in DOMAIN held : held[k].id = held[n].id => k = n,
         \A k \in DOMAIN held, i \in DOMAIN modules :
           \A n \in DOMAIN modules[i].lessons :
             modules[i].lessons[n].id = held[k].id => modules[i].id = m
  PROVE  Filed(InModule(modules, m, held))
  <1> DEFINE new == InModule(modules, m, held)
  <1>1. /\ modules \in Seq(ModuleRows)
        /\ m \in ModuleIds
    <2>1. modules \in Seq(ModuleRows)
      BY OutlineRows DEF Filed
    <2>2. ModuleAt(modules, m) \in DOMAIN modules /\ modules[ModuleAt(modules, m)].id = m
      BY ModuleFound DEF Filed
    <2>3. modules[ModuleAt(modules, m)] \in ModuleRows
      BY <2>1, <2>2
    <2> QED
      BY <2>1, <2>2, <2>3, OutlineRows
  <1>2. Module(m, held) \in ModuleRows /\ Module(m, held).id = m
        /\ Module(m, held).lessons = held
    BY <1>1 DEF Module, ModuleRows
  <1>3. /\ DOMAIN new = DOMAIN modules
        /\ \A i \in DOMAIN modules :
             new[i] = IF modules[i].id = m THEN Module(m, held) ELSE modules[i]
    BY DEF InModule
  <1> HIDE DEF new
  <1>4. new \in Seq(ModuleRows)
    <2>1. new = [i \in 1..Len(modules) |->
                   IF modules[i].id = m THEN Module(m, held) ELSE modules[i]]
      BY <1>1 DEF new, InModule
    <2> QED
      BY <1>1, <1>2, <2>1
  <1>5. \A i \in DOMAIN new : new[i].id = modules[i].id
    BY <1>2, <1>3
  <1>6. ASSUME NEW i \in DOMAIN new, NEW j \in DOMAIN new,
               NEW k \in DOMAIN new[i].lessons, NEW n \in DOMAIN new[j].lessons,
               new[i].lessons[k].id = new[j].lessons[n].id
        PROVE  i = j /\ k = n
    <2>1. CASE modules[i].id = m /\ modules[j].id = m
      BY <1>2, <1>3, <1>6, <2>1 DEF Filed
    <2>2. CASE modules[i].id = m /\ modules[j].id # m
      BY <1>2, <1>3, <1>6, <2>2
    <2>3. CASE modules[i].id # m /\ modules[j].id = m
      BY <1>2, <1>3, <1>6, <2>3
    <2>4. CASE modules[i].id # m /\ modules[j].id # m
      BY <1>3, <1>6, <2>4 DEF Filed
    <2> QED
      BY <2>1, <2>2, <2>3, <2>4
  <1> QED
    BY <1>3, <1>4, <1>5, <1>6, OutlineRows DEF Filed, new

(* A module keeps some of its lessons, in another order.                   *)
LEMMA FewerLessonsFiled ==
  ASSUME NEW modules, Filed(modules), NEW m \in ModuleIdsOf(modules),
         NEW held \in Seq(LessonRows), Drawn(held, LessonsIn(modules, m))
  PROVE  Filed(InModule(modules, m, held))
  <1> DEFINE a == ModuleAt(modules, m)
  <1>0. a \in DOMAIN modules /\ modules[a].id = m /\ modules[a].lessons = LessonsIn(modules, m)
    BY ModuleFound DEF Filed, LessonsIn
  <1> HIDE DEF a
  <1>1. PICK from \in [DOMAIN held -> DOMAIN modules[a].lessons] :
           /\ \A k \in DOMAIN held : held[k] = modules[a].lessons[from[k]]
           /\ \A k, n \in DOMAIN held : from[k] = from[n] => k = n
    BY <1>0 DEF Drawn
  <1>2. \A k, n \in DOMAIN held : held[k].id = held[n].id => k = n
    BY <1>0, <1>1 DEF Filed
  <1>3. ASSUME NEW k \in DOMAIN held, NEW i \in DOMAIN modules,
               NEW n \in DOMAIN modules[i].lessons,
               modules[i].lessons[n].id = held[k].id
        PROVE  modules[i].id = m
    <2>1. i = a
      BY <1>0, <1>1, <1>3 DEF Filed
    <2> QED
      BY <1>0, <2>1
  <1> QED
    BY <1>2, <1>3, InModuleIsFiled

LEMMA AddedLessonFiled ==
  ASSUME NEW modules, Filed(modules), NEW m \in ModuleIdsOf(modules),
         NEW l \in LessonIds, l \notin LessonIdsOf(modules)
  PROVE  Filed(addLesson(modules, m, l))
  <1> DEFINE a == ModuleAt(modules, m)
             row == Lesson(l, emptyGraph)
             old == LessonsIn(modules, m)
             held == Append(old, row)
  <1>0. /\ a \in DOMAIN modules /\ modules[a].id = m /\ modules[a].lessons = old
        /\ old \in Seq(LessonRows)
    BY ModuleFound DEF Filed, LessonsIn
  <1>1. row \in LessonRows /\ row.id = l
    BY DEF Lesson, LessonRows, Graphs
  <1>2. ASSUME NEW i \in DOMAIN modules, NEW n \in DOMAIN modules[i].lessons
        PROVE  modules[i].lessons[n].id # l
    BY DEF LessonIdsOf, LessonsOf, ToSet
  <1> HIDE DEF a, row, old
  <1>3. /\ held \in Seq(LessonRows) /\ DOMAIN held = 1..(Len(old) + 1)
        /\ DOMAIN old = 1..Len(old) /\ Len(old) \in Nat
        /\ held[Len(old) + 1] = row
        /\ \A k \in 1..Len(old) : held[k] = old[k]
    BY <1>0, <1>1
  <1> HIDE DEF held
  <1>4. \A k \in 1..Len(old) : old[k].id # l
    BY <1>0, <1>2, <1>3
  <1>5. \A k, n \in 1..Len(old) : old[k].id = old[n].id => k = n
    <2>1. \A k, n \in DOMAIN modules[a].lessons :
            modules[a].lessons[k].id = modules[a].lessons[n].id => k = n
      BY <1>0 DEF Filed
    <2> QED
      BY <1>0, <1>3, <2>1
  <1>6. \A k, n \in DOMAIN held : held[k].id = held[n].id => k = n
    <2>1. \A k \in DOMAIN held : k \in 1..Len(old) \/ k = Len(old) + 1
      BY <1>3
    <2>2. \A k \in 1..Len(old) : held[k].id # l
      BY <1>3, <1>4
    <2>3. \A k, n \in 1..Len(old) : held[k].id = held[n].id => k = n
      BY <1>3, <1>5
    <2>4. held[Len(old) + 1].id = l
      BY <1>1, <1>3
    <2> QED
      BY <2>1, <2>2, <2>3, <2>4
  <1>7. ASSUME NEW k \in DOMAIN held, NEW i \in DOMAIN modules,
               NEW n \in DOMAIN modules[i].lessons,
               modules[i].lessons[n].id = held[k].id
        PROVE  modules[i].id = m
    <2>1. k # Len(old) + 1
      BY <1>1, <1>2, <1>3, <1>7
    <2>2. k \in 1..Len(old) /\ held[k] = old[k]
      BY <1>3, <2>1
    <2>3. i = a
      BY <1>0, <1>3, <1>7, <2>2 DEF Filed
    <2> QED
      BY <1>0, <2>3
  <1>8. Filed(InModule(modules, m, held))
    BY <1>3, <1>6, <1>7, InModuleIsFiled
  <1> QED
    BY <1>8 DEF addLesson, held, old, row

LEMMA AddedModuleFiled ==
  ASSUME NEW modules, Filed(modules), NEW m \in ModuleIds, m \notin ModuleIdsOf(modules)
  PROVE  Filed(addModule(modules, m))
  <1> DEFINE row == Module(m, <<>>)
             new == Append(modules, row)
  <1>1. row \in ModuleRows /\ row.id = m /\ row.lessons = <<>>
    BY DEF Module, ModuleRows
  <1>2. modules \in Seq(ModuleRows) /\ \A i \in DOMAIN modules : modules[i].id # m
    BY OutlineRows DEF Filed, ModuleIdsOf
  <1> HIDE DEF row
  <1>3. /\ new \in Seq(ModuleRows) /\ Len(modules) \in Nat
        /\ DOMAIN new = 1..(Len(modules) + 1) /\ DOMAIN modules = 1..Len(modules)
        /\ new[Len(modules) + 1] = row
        /\ \A k \in 1..Len(modules) : new[k] = modules[k]
    BY <1>1, <1>2
  <1> HIDE DEF new
  <1>4. \A i \in DOMAIN new : i \in 1..Len(modules) \/ i = Len(modules) + 1
    BY <1>3
  <1>5. \A i, j \in DOMAIN new : new[i].id = new[j].id => i = j
    BY <1>1, <1>2, <1>3, <1>4 DEF Filed
  <1>6. ASSUME NEW i \in DOMAIN new, NEW j \in DOMAIN new,
               NEW k \in DOMAIN new[i].lessons, NEW n \in DOMAIN new[j].lessons,
               new[i].lessons[k].id = new[j].lessons[n].id
        PROVE  i = j /\ k = n
    <2>1. i # Len(modules) + 1 /\ j # Len(modules) + 1
      BY <1>1, <1>3
    <2>2. /\ i \in DOMAIN modules /\ j \in DOMAIN modules
          /\ new[i] = modules[i] /\ new[j] = modules[j]
      BY <1>3, <1>4, <2>1
    <2> QED
      BY <1>6, <2>2 DEF Filed
  <1> QED
    BY <1>3, <1>5, <1>6, OutlineRows DEF Filed, addModule, new, row

LEMMA WithGraphFiled ==
  ASSUME NEW modules, Filed(modules), NEW l \in LessonIds \cup {NoLesson}
  PROVE  Filed(withGraph(modules, l, "written"))
  <1> DEFINE new == withGraph(modules, l, "written")
             graphed(lesson) == IF lesson.id = l THEN Lesson(l, "written") ELSE lesson
  <1>1. modules \in Seq(ModuleRows)
    BY OutlineRows DEF Filed
  <1>2. ASSUME NEW lesson \in LessonRows
        PROVE  graphed(lesson) \in LessonRows /\ graphed(lesson).id = lesson.id
    BY DEF LessonRows, Lesson, Graphs
  <1>3. ASSUME NEW i \in DOMAIN modules
        PROVE  /\ new[i] \in ModuleRows /\ new[i].id = modules[i].id
               /\ DOMAIN new[i].lessons = DOMAIN modules[i].lessons
               /\ \A k \in DOMAIN modules[i].lessons :
                    new[i].lessons[k].id = modules[i].lessons[k].id
    <2>0. modules[i] \in ModuleRows
      BY <1>1
    <2>1. modules[i] \in ModuleRows /\ modules[i].lessons \in Seq(LessonRows)
      BY <2>0, OutlineRows
    <2> DEFINE held == [k \in DOMAIN modules[i].lessons |-> graphed(modules[i].lessons[k])]
    <2>2. \A k \in DOMAIN modules[i].lessons :
            /\ graphed(modules[i].lessons[k]) \in LessonRows
            /\ graphed(modules[i].lessons[k]).id = modules[i].lessons[k].id
      <3>1. \A k \in DOMAIN modules[i].lessons : modules[i].lessons[k] \in LessonRows
        BY <2>1
      <3> QED
        BY <1>2, <3>1
    <2>3. new[i] = [modules[i] EXCEPT !.lessons = held]
      BY DEF withGraph
    <2> HIDE DEF graphed
    <2>4. held \in Seq(LessonRows)
      <3>1. held = [k \in 1..Len(modules[i].lessons) |-> graphed(modules[i].lessons[k])]
        BY <2>1
      <3> QED
        BY <2>1, <2>2, <3>1
    <2>5. \A k \in DOMAIN modules[i].lessons : held[k].id = modules[i].lessons[k].id
      BY <2>2
    <2>6. DOMAIN held = DOMAIN modules[i].lessons
      OBVIOUS
    <2> HIDE DEF held, new
    <2> QED
      BY <2>1, <2>3, <2>4, <2>5, <2>6 DEF ModuleRows
  <1>4. new \in Seq(ModuleRows) /\ DOMAIN new = DOMAIN modules
    <2>1. DOMAIN new = 1..Len(modules) /\ new = [i \in DOMAIN modules |-> new[i]]
      BY <1>1 DEF withGraph
    <2> HIDE DEF new
    <2>2. new = [i \in 1..Len(modules) |-> new[i]] /\ Len(modules) \in Nat
      BY <1>1, <2>1
    <2>3. \A i \in 1..Len(modules) : new[i] \in ModuleRows
      BY <1>1, <1>3
    <2> QED
      BY <1>1, <2>1, <2>2, <2>3
  <1> HIDE DEF new
  <1> QED
    <2>1. \A i, j \in DOMAIN new : new[i].id = new[j].id => i = j
      BY <1>3, <1>4 DEF Filed
    <2>2. \A i, j \in DOMAIN new :
            \A k \in DOMAIN new[i].lessons, n \in DOMAIN new[j].lessons :
              new[i].lessons[k].id = new[j].lessons[n].id => i = j /\ k = n
      BY <1>3, <1>4 DEF Filed
    <2>3. Filed(new)
      BY <1>4, <2>1, <2>2, OutlineRows DEF Filed
    <2> QED
      BY <2>3 DEF new

(* What is sent: the same ids, with graphs in the server's format.         *)
LEMMA FiledIsAccepted ==
  ASSUME NEW modules, Filed(modules)
  PROVE  validateContent(serializeModules(modules))
  <1> DEFINE sent(lesson) == Lesson(lesson.id, IF lesson.graph = emptyGraph THEN "blank"
                                               ELSE lesson.graph)
             new == serializeModules(modules)
  <1>1. modules \in Seq(ModuleRows)
    BY OutlineRows DEF Filed
  <1>2. ASSUME NEW lesson
        PROVE  sent(lesson).id = lesson.id /\ sent(lesson).graph # emptyGraph
    BY DEF Lesson, emptyGraph
  <1>3. ASSUME NEW i \in DOMAIN modules
        PROVE  /\ new[i].id = modules[i].id
               /\ DOMAIN new[i].lessons = DOMAIN modules[i].lessons
               /\ \A k \in DOMAIN modules[i].lessons :
                    new[i].lessons[k] = sent(modules[i].lessons[k])
    <2>0. modules[i] \in ModuleRows
      BY <1>1
    <2> DEFINE held == [k \in DOMAIN modules[i].lessons |-> sent(modules[i].lessons[k])]
    <2>1. new[i] = [modules[i] EXCEPT !.lessons = held]
      BY DEF serializeModules
    <2>2. /\ DOMAIN held = DOMAIN modules[i].lessons
          /\ \A k \in DOMAIN modules[i].lessons : held[k] = sent(modules[i].lessons[k])
      OBVIOUS
    <2> HIDE DEF held, new, sent
    <2>3. new[i].lessons = held /\ new[i].id = modules[i].id
      BY <2>0, <2>1 DEF ModuleRows
    <2> QED
      BY <2>2, <2>3
  <1>4. DOMAIN new = DOMAIN modules
    BY DEF serializeModules
  <1> HIDE DEF new, sent
  <1>5. \A i, j \in DOMAIN new : new[i].id = new[j].id => i = j
    BY <1>3, <1>4 DEF Filed
  <1>6. ASSUME NEW i \in DOMAIN new, NEW j \in DOMAIN new,
               NEW k \in DOMAIN new[i].lessons, NEW n \in DOMAIN new[j].lessons,
               new[i].lessons[k].id = new[j].lessons[n].id
        PROVE  i = j /\ k = n
    <2>1. modules[i].lessons[k].id = modules[j].lessons[n].id
      BY <1>2, <1>3, <1>4, <1>6
    <2> QED
      BY <1>3, <1>4, <2>1 DEF Filed
  <1>7. ASSUME NEW lesson \in LessonsOf(new)
        PROVE  lesson.graph # emptyGraph
    <2>1. PICK i \in DOMAIN new : lesson \in ToSet(new[i].lessons)
      BY <1>7 DEF LessonsOf
    <2>2. PICK k \in DOMAIN new[i].lessons : lesson = new[i].lessons[k]
      BY <2>1 DEF ToSet
    <2> QED
      BY <1>2, <1>3, <1>4, <2>2
  <1> QED
    BY <1>5, <1>6, <1>7 DEF validateContent, new

LEMMA BoundedIsSeq ==
  ASSUME NEW S, NEW T, S \subseteq T, NEW n, NEW s \in SeqOf(S, n)
  PROVE  s \in Seq(T)
  <1>1. PICK m \in 0..n : s \in [1..m -> S]
    BY DEF SeqOf
  <1>2. m \in Nat /\ s \in [1..m -> T]
    BY <1>1
  <1> QED
    BY <1>2

LEMMA StoredIsFiled ==
  ASSUME NEW modules \in Contents
  PROVE  Filed(modules)
  <1>1. modules \in StoredOutlines
    BY DeskAssumption
  <1>2. modules \in ModuleLists /\ validateContent(modules)
    BY <1>1 DEF StoredOutlines
  <1>3. LessonLists \subseteq Seq(LessonRows)
    BY BoundedIsSeq DEF LessonLists, LessonRows
  <1>4. [id : ModuleIds, lessons : LessonLists] \subseteq ModuleRows
    BY <1>3 DEF ModuleRows
  <1>5. modules \in Outlines
    BY <1>2, <1>4, BoundedIsSeq, OutlineRows DEF ModuleLists
  <1> QED
    BY <1>2, <1>5 DEF validateContent, Filed

LEMMA EmptyIsFiled == Filed(Empty)
  BY StoredIsFiled, PublicationAssumption

(* What no form of a page ever holds twice.                                *)
FormsFiled == \A p \in Pages : Filed(page[p].typed)

LEMMA UnusedIds ==
  ASSUME NEW Ids, NEW i \in generateId(Ids), NEW p \in Pages
  PROVE  i \in Ids /\ i \notin UsedIn(page[p].typed)
  <1>1. i \in Ids /\ i \notin Used
    BY DEF generateId
  <1>2. PICK sets : sets = {UsedIn(page[o].typed) \cup UsedIn(page[o].base) : o \in Pages}
                           \cup {UsedIn(draft[c].content) : c \in Courses}
                           \cup {UsedIn(call[q].content) : q \in Requests}
    OBVIOUS
  <1>3. UsedIn(page[p].typed) \cup UsedIn(page[p].base) \in sets
    BY <1>2
  <1>4. Used = UNION sets
    BY <1>2 DEF Used
  <1> QED
    BY <1>1, <1>3, <1>4

LEMMA ModulesWritten ==
  ASSUME NEW p \in Pages, Filed(page[p].typed), ModuleList(p)
  PROVE  \E modules : Filed(modules) /\ Type(p, modules)
  <1> DEFINE typed == page[p].typed
  <1>0. typed \in Seq(ModuleRows)
    BY OutlineRows DEF Filed
  <1>1. ASSUME NEW m \in generateId(ModuleIds)
        PROVE  Filed(addModule(typed, m))
    BY <1>1, UnusedIds, AddedModuleFiled DEF UsedIn
  <1>2. ASSUME NEW m \in ModuleIdsOf(typed)
        PROVE  Filed(removeModule(typed, m))
    <2>1. ModuleAt(typed, m) \in DOMAIN typed
      BY ModuleFound DEF Filed
    <2> HIDE DEF typed
    <2>2. /\ removeModule(typed, m) \in Seq(ModuleRows)
          /\ Drawn(removeModule(typed, m), typed)
      BY <1>0, <2>1, RemovedIsDrawn DEF removeModule
    <2> QED
      BY <2>2, OutlineRows, DrawnIsFiled DEF typed
  <1>3. ASSUME NEW m \in ModuleIdsOf(typed), NEW delta \in {-1, 1}
        PROVE  Filed(moveModule(typed, m, delta))
    <2>1. ModuleAt(typed, m) \in DOMAIN typed
      BY ModuleFound DEF Filed
    <2> HIDE DEF typed
    <2>2. /\ moveModule(typed, m, delta) \in Seq(ModuleRows)
          /\ Drawn(moveModule(typed, m, delta), typed)
      BY <1>0, <2>1, SwappedIsDrawn DEF moveModule
    <2> QED
      BY <2>2, OutlineRows, DrawnIsFiled DEF typed
  <1> QED
    BY <1>1, <1>2, <1>3 DEF ModuleList

LEMMA LessonsWritten ==
  ASSUME NEW p \in Pages, Filed(page[p].typed), LessonList(p)
  PROVE  \E modules : Filed(modules) /\ Type(p, modules)
  <1> DEFINE typed == page[p].typed
  <1>1. ASSUME NEW m \in ModuleIdsOf(typed), NEW l \in generateId(LessonIds)
        PROVE  Filed(addLesson(typed, m, l))
    BY <1>1, UnusedIds, AddedLessonFiled DEF UsedIn
  <1>2. ASSUME NEW m \in ModuleIdsOf(typed), NEW lesson \in ToSet(LessonsIn(typed, m))
        PROVE  /\ Filed(removeLesson(typed, m, lesson.id))
               /\ \A delta \in {-1, 1} : Filed(moveLesson(typed, m, lesson.id, delta))
    <2> DEFINE held == LessonsIn(typed, m)
               i == LessonAt(held, lesson.id)
    <2>1. held \in Seq(LessonRows)
      BY ModuleFound DEF Filed
    <2>2. i \in DOMAIN held
      BY <2>1, LessonFound
    <2> HIDE DEF i
    <2>3. RemoveAt(held, i) \in Seq(LessonRows) /\ Drawn(RemoveAt(held, i), held)
      BY <2>1, <2>2, RemovedIsDrawn
    <2>4. ASSUME NEW delta
          PROVE  /\ Swapped(held, i, i + delta) \in Seq(LessonRows)
                 /\ Drawn(Swapped(held, i, i + delta), held)
      BY <2>1, <2>2, SwappedIsDrawn
    <2>5. /\ removeLesson(typed, m, lesson.id) = InModule(typed, m, RemoveAt(held, i))
          /\ \A delta \in {-1, 1} : moveLesson(typed, m, lesson.id, delta) =
                 InModule(typed, m, Swapped(held, i, i + delta))
      BY DEF removeLesson, moveLesson, i
    <2> QED
      BY <2>3, <2>4, <2>5, FewerLessonsFiled
  <1> QED
    BY <1>1, <1>2 DEF LessonList

LEMMA WritingKeepsFiled ==
  ASSUME DeskShape, FormsFiled, NEW p \in Pages, Writes(p)
  PROVE  FormsFiled'
  <1>0. page[p] \in PageRows({page[p].typed}) /\ Filed(page[p].typed)
    BY DEF DeskShape, IsPage, FormsFiled
  <1>1. ASSUME NEW modules, Filed(modules), Type(p, modules)
        PROVE  FormsFiled'
    <2>1. page'[p].typed = modules /\ \A o \in Pages \ {p} : page'[o] = page[o]
      BY <1>0, <1>1 DEF Type, DeskShape, PageRows
    <2> QED
      BY <1>1, <2>1 DEF FormsFiled
  <1>2. CASE ModuleList(p)
    BY <1>0, <1>1, <1>2, ModulesWritten
  <1>3. CASE LessonList(p)
    BY <1>0, <1>1, <1>3, LessonsWritten
  <1>4. CASE LessonGraphEdited(p)
    <2>1. page[p].lesson \in LessonIds \cup {NoLesson}
      BY <1>0 DEF PageRows
    <2> QED
      BY <1>0, <1>1, <1>4, <2>1, WithGraphFiled DEF LessonGraphEdited
  <1>5. CASE ShowDraft(p)
    <2>1. page[p].fetched \in Snapshots
      BY <1>0, <1>5 DEF ShowDraft, PageRows
    <2>2. page[p].fetched.content \in Contents
      BY <2>1 DEF Snapshots
    <2>3. Filed(Filled(p).typed)
      <3>1. Filled(p).typed \in {page[p].typed, page[p].fetched.content}
        BY <1>0 DEF Filled, PageRows
      <3> QED
        BY <1>0, <2>2, <3>1, StoredIsFiled
    <2>4. page'[p] = Filled(p) /\ \A o \in Pages \ {p} : page'[o] = page[o]
      BY <1>5 DEF ShowDraft, DeskShape
    <2> QED
      BY <2>3, <2>4 DEF FormsFiled
  <1> QED
    BY <1>2, <1>3, <1>4, <1>5 DEF Writes

LEMMA StepKeepsFiled ==
  ASSUME DeskShape, FormsFiled, [Next]_everything
  PROVE  FormsFiled'
  <1>1. CASE \E p \in Pages : Writes(p)
    BY <1>1, WritingKeepsFiled
  <1>2. CASE \A p \in Pages : ~Writes(p)
    BY <1>2, StepKeepsForms, EmptyIsFiled DEF FormsKept, FormsFiled
  <1> QED
    BY <1>1, <1>2

LEMMA FiledIsAcceptable ==
  ASSUME DeskInv, FormsFiled
  PROVE  OutlineAccepted
  <1>1. ASSUME NEW p \in Pages
        PROVE  page[p] \in PageRows(Outlines)
    <2>1. page[p] \in PageRows({page[p].typed}) /\ page[p].typed \in Outlines
      BY DEF DeskInv, PagesInv, DeskShape, IsPage, FormsFiled, Filed
    <2> QED
      BY <2>1 DEF PageRows
  <1>2. page \in [Pages -> PageRows(Outlines)]
    BY <1>1 DEF DeskInv, PagesInv, DeskShape
  <1>3. AccessTypeOK /\ asked \in [Requests -> AskedRows]
    BY DEF DeskInv, ServerInv, PagesInv, DeskShape
  <1>4. DeskTypeOK
    BY <1>2, <1>3 DEF DeskTypeOK, PageRows, AskedRows
  <1> QED
    BY <1>4, FiledIsAccepted DEF OutlineAccepted, FormsFiled

(* Whatever the author does to the modules, they are modules, and the      *)
(* server accepts what the page would send.                                *)
THEOREM OutlinesAreAccepted == Spec => []OutlineAccepted
  <1>1. ModerationInit => FormsFiled
    BY EmptyIsFiled, NewPageHasNoForm DEF ModerationInit, DeskInit, FormsFiled
  <1>2. DeskInv /\ FormsFiled /\ [Next]_everything => FormsFiled'
    BY StepKeepsFiled DEF DeskInv, PagesInv
  <1>3. DeskInv /\ FormsFiled => OutlineAccepted
    BY FiledIsAcceptable
  <1> QED
    BY <1>1, <1>2, <1>3, DeskInvariant, PTL DEF Spec

-----------------------------------------------------------------------------
(* The dialog of the moderator.                                            *)

(* Only the fetch of the review in the dialog is not cancelled.            *)
FetchesOfSelected == \A f \in fetching : ~f.cancelled => f.review = selected

DialogInv == LessonsOfSelected /\ FetchesOfSelected

(* A decision, once made, changes nothing of the dialog but what it shows. *)
LEMMA DecisionsTyped ==
  ASSUME ModerationTypeOK, NEW d \in Decisions, NEW phase \in {"begun", "done", "failed"},
         Becomes(d, phase)
  PROVE  deciding' \subseteq Decisions
  <1>1. [d EXCEPT !.phase = phase] \in Decisions
    BY DEF Decisions
  <1> QED
    BY <1>1 DEF Becomes, ModerationTypeOK

LEMMA CancelledFetches ==
  ASSUME ModerationTypeOK
  PROVE  Cancelled \subseteq Fetches /\ \A f \in Cancelled : f.cancelled
  BY DEF ModerationTypeOK, Cancelled, Fetches

LEMMA ClosingKeepsDialog ==
  ASSUME DialogInv, Deselected, queue' \subseteq Reviews, deciding' \subseteq Decisions,
         actionLoading' \in BOOLEAN, showReject' \in BOOLEAN, loading' \in BOOLEAN,
         previewLoading' = previewLoading
  PROVE  DialogInv'
  <1>1. ModerationTypeOK'
    BY CancelledFetches DEF DialogInv, LessonsOfSelected, ModerationTypeOK, Deselected
  <1>2. FetchesOfSelected'
    BY CancelledFetches DEF DialogInv, LessonsOfSelected, Deselected, FetchesOfSelected
  <1> QED
    BY <1>1, <1>2 DEF DialogInv, LessonsOfSelected, Deselected

(* A step that leaves the dialog and its fetches alone.                    *)
LEMMA DialogUntouched ==
  ASSUME DialogInv, queue' \subseteq Reviews, deciding' \subseteq Decisions,
         actionLoading' \in BOOLEAN, showReject' \in BOOLEAN, loading' \in BOOLEAN,
         UNCHANGED <<selected, lessons, previewLoading, fetching>>
  PROVE  DialogInv'
  BY DEF DialogInv, LessonsOfSelected, ModerationTypeOK, FetchesOfSelected

LEMMA DialogStepKeeps ==
  ASSUME DialogInv, [Next]_everything
  PROVE  DialogInv'
  <1>1. getModerationQueue \subseteq Reviews
    BY DEF getModerationQueue
  <1>2. ModerationTypeOK
    BY DEF DialogInv, LessonsOfSelected
  <1>3. ASSUME UNCHANGED moderationVars
        PROVE  DialogInv'
    BY <1>2, <1>3, DialogUntouched DEF moderationVars, ModerationTypeOK
  <1>4. CASE OpenQueue \/ QueueArrives
    BY <1>1, <1>2, <1>4, DialogUntouched DEF OpenQueue, QueueArrives, ModerationTypeOK
  <1>5. CASE ToggleReject
    BY <1>2, <1>5, DialogUntouched DEF ToggleReject, ModerationTypeOK
  <1>6. CASE CloseDialog
    BY <1>2, <1>6, ClosingKeepsDialog DEF CloseDialog, ModerationTypeOK
  <1>7. ASSUME NEW verdict \in Verdicts, Decide(verdict)
        PROVE  DialogInv'
    <2>1. [review |-> selected, verdict |-> verdict, phase |-> "begun"] \in Decisions
      BY <1>2, <1>7 DEF Decide, ModerationTypeOK, Decisions
    <2> QED
      BY <1>2, <1>7, <2>1, DialogUntouched DEF Decide, ModerationTypeOK
  <1>8. CASE handleApprove \/ handleReject
    BY <1>7, <1>8 DEF handleApprove, handleReject, Verdicts
  <1>9. ASSUME NEW r \in Reviews, SelectReview(r)
        PROVE  DialogInv'
    <2> DEFINE asks == [review |-> r, cancelled |-> FALSE]
    <2>1. asks \in Fetches /\ asks.review = r
      BY DEF Fetches
    <2> HIDE DEF asks
    <2>2. fetching' = Cancelled \cup {asks} /\ selected' = r /\ previewLoading' = TRUE
      BY <1>9 DEF SelectReview, asks
    <2>3. ModerationTypeOK'
      BY <1>2, <1>9, <2>1, <2>2, CancelledFetches DEF SelectReview, ModerationTypeOK
    <2>4. FetchesOfSelected'
      BY <1>2, <2>1, <2>2, CancelledFetches DEF FetchesOfSelected
    <2>5. [review |-> selected, cancelled |-> FALSE]' \in fetching'
      BY <2>2 DEF asks
    <2> QED
      BY <2>2, <2>3, <2>4, <2>5 DEF DialogInv, LessonsOfSelected
  <1>10. ASSUME NEW f \in Fetches, LessonsArrive(f)
         PROVE  DialogInv'
    <2>1. f \in fetching /\ fetching' = fetching \ {f} /\ selected' = selected
      BY <1>10 DEF LessonsArrive
    <2>2. FetchesOfSelected'
      BY <2>1 DEF DialogInv, FetchesOfSelected
    <2>3. CASE f.cancelled
      <3>1. UNCHANGED <<lessons, previewLoading>>
        BY <1>10, <2>3 DEF LessonsArrive
      <3>2. f # [review |-> selected, cancelled |-> FALSE]
        BY <2>3
      <3>3. ModerationTypeOK'
        BY <1>2, <1>10, <3>1 DEF LessonsArrive, ModerationTypeOK
      <3> QED
        BY <2>1, <2>2, <3>1, <3>2, <3>3 DEF DialogInv, LessonsOfSelected
    <2>4. CASE ~f.cancelled
      <3>1. f.review = selected /\ selected \in Reviews
        BY <2>1, <2>4 DEF DialogInv, FetchesOfSelected, Fetches
      <3>2. lessons' \in {selected, Nobody} /\ previewLoading' = FALSE
        BY <1>10, <2>4, <3>1 DEF LessonsArrive
      <3>3. ModerationTypeOK'
        BY <1>2, <1>10, <3>1, <3>2 DEF LessonsArrive, ModerationTypeOK
      <3> QED
        BY <2>1, <2>2, <3>2, <3>3 DEF DialogInv, LessonsOfSelected
    <2> QED
      BY <2>3, <2>4
  <1>11. ASSUME NEW d \in Decisions,
                DecisionReaches(d) \/ DecisionAnswered(d) \/ DecisionFails(d)
         PROVE  DialogInv'
    <2>1. CASE DecisionReaches(d)
      <3>1. deciding' \subseteq Decisions
        BY <1>2, <2>1, DecisionsTyped DEF DecisionReaches
      <3> QED
        BY <1>2, <2>1, <3>1, DialogUntouched DEF DecisionReaches, ModerationTypeOK
    <2>2. CASE DecisionAnswered(d)
      BY <1>1, <1>2, <2>2, ClosingKeepsDialog DEF DecisionAnswered, ModerationTypeOK
    <2>3. CASE DecisionFails(d)
      BY <1>2, <2>3, DialogUntouched DEF DecisionFails, ModerationTypeOK
    <2> QED
      BY <1>11, <2>1, <2>2, <2>3
  <1>12. CASE OtherAdministrator \/ (DeskNext /\ UNCHANGED moderationVars)
    BY <1>3, <1>12 DEF OtherAdministrator
  <1>13. CASE UNCHANGED everything
    BY <1>3, <1>13 DEF everything
  <1> QED
    BY <1>4, <1>5, <1>6, <1>8, <1>9, <1>10, <1>11, <1>12, <1>13 DEF Next

(* The lessons offered are those of the review in the dialog.              *)
THEOREM DialogShowsItsReview == Spec => []LessonsOfSelected
  <1>1. ModerationInit => DialogInv
    BY DEF ModerationInit, DialogInv, LessonsOfSelected, ModerationTypeOK, FetchesOfSelected
  <1>2. DialogInv /\ [Next]_everything => DialogInv'
    BY DialogStepKeeps
  <1>3. DialogInv => LessonsOfSelected
    BY DEF DialogInv
  <1> QED
    BY <1>1, <1>2, <1>3, PTL DEF Spec
=============================================================================
