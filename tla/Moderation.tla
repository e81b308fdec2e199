----------------------------- MODULE Moderation -----------------------------
(***************************************************************************)
(* The page of a moderator (frontend/src/pages/admin/Moderation.tsx), next *)
(* to the pages on which courses are written.                              *)
(*                                                                         *)
(* The page holds the queue as it was read last, the review that is open,  *)
(* and the lessons of it to choose a preview from, which it fetches each   *)
(* time a review is opened.  A fetch whose review is no longer open is     *)
(* cancelled: its answer comes all the same, and is dropped.  Decisions    *)
(* are calls too; the dialog may be closed, and another review opened,     *)
(* while one is under way, and other administrators decide as well.        *)
(***************************************************************************)
EXTENDS CourseDesk

CONSTANT Nobody   \* no review is open

VARIABLES
  queue,     \* the rows of the table
  loading,   \* the queue is being fetched, and the page shows nothing else
  selected,  \* the review in the dialog
  lessons,   \* the review whose lessons are offered, or Nobody
  previewLoading,
  showReject,
  actionLoading,
  fetching,  \* reviews whose lessons are being fetched, and whether it was cancelled
  deciding   \* decisions under way

moderationVars ==
  <<queue, loading, selected, lessons, previewLoading, showReject, actionLoading,
    fetching, deciding>>
everything == <<allVars, moderationVars>>

Verdicts == {"approved", "rejected"}
Fetches == [review : Reviews, cancelled : BOOLEAN]
Decisions == [review : Reviews, verdict : Verdicts, phase : {"begun", "done", "failed"}]

ModerationTypeOK ==
  /\ queue \subseteq Reviews /\ loading \in BOOLEAN
  /\ selected \in Reviews \cup {Nobody}
  /\ lessons \in Reviews \cup {Nobody}
  /\ previewLoading \in BOOLEAN /\ showReject \in BOOLEAN /\ actionLoading \in BOOLEAN
  /\ fetching \subseteq Fetches
  /\ deciding \subseteq Decisions

ModerationInit ==
  /\ DeskInit
  /\ queue = {} /\ loading = TRUE /\ selected = Nobody /\ lessons = Nobody
  /\ previewLoading = FALSE /\ showReject = FALSE /\ actionLoading = FALSE
  /\ fetching = {} /\ deciding = {}

getModerationQueue == {r \in Reviews : review[r].status = "pending"}

(* Mutant: the fetch of a review that was closed goes on.                  *)
NothingCancelled == fetching

(* What the effect of the page leaves behind when another review is open.  *)
Cancelled == {[f EXCEPT !.cancelled = TRUE] : f \in fetching}

-----------------------------------------------------------------------------
(* The table and the dialog.                                               *)

(* The page is opened again, when there is something new to see.           *)
OpenQueue ==
  /\ ~loading /\ selected = Nobody /\ queue # getModerationQueue
  /\ loading' = TRUE
  /\ UNCHANGED <<allVars, queue, selected, lessons, previewLoading, showReject,
                 actionLoading, fetching, deciding>>

(* The queue, or an error.                                                 *)
QueueArrives ==
  /\ loading /\ loading' = FALSE
  /\ queue' \in {getModerationQueue, {}}
  /\ UNCHANGED <<allVars, selected, lessons, previewLoading, showReject, actionLoading,
                 fetching, deciding>>

(* The dialog covers the table: a row is pressed when nothing is open.     *)
SelectReview(r) ==
  /\ ~loading /\ selected = Nobody /\ r \in queue
  /\ selected' = r
  /\ showReject' = FALSE
  /\ previewLoading' = TRUE
  /\ fetching' = Cancelled \cup {[review |-> r, cancelled |-> FALSE]}
  /\ UNCHANGED <<allVars, queue, loading, lessons, actionLoading, deciding>>

Deselected ==
  /\ selected' = Nobody
  /\ lessons' = Nobody
  /\ fetching' = Cancelled

CloseDialog ==
  /\ ~loading /\ selected # Nobody
  /\ Deselected
  /\ showReject' = FALSE
  /\ UNCHANGED <<allVars, queue, loading, previewLoading, actionLoading, deciding>>

ToggleReject ==
  /\ ~loading /\ selected # Nobody
  /\ showReject' = ~showReject
  /\ UNCHANGED <<allVars, queue, loading, selected, lessons, previewLoading, actionLoading,
                 fetching, deciding>>

(* getModerationReviewDraft answers, with lessons or with an error.        *)
LessonsArrive(f) ==
  /\ f \in fetching
  /\ fetching' = fetching \ {f}
  /\ IF f.cancelled THEN UNCHANGED <<lessons, previewLoading>>
     ELSE lessons' \in {f.review, Nobody} /\ previewLoading' = FALSE
  /\ UNCHANGED <<allVars, queue, loading, selected, showReject, actionLoading, deciding>>

-----------------------------------------------------------------------------
(* Decisions.                                                              *)

Decide(verdict) ==
  /\ ~loading /\ selected # Nobody
  /\ actionLoading' = TRUE
  /\ deciding' = deciding \cup {[review |-> selected, verdict |-> verdict, phase |-> "begun"]}
  /\ UNCHANGED <<allVars, queue, loading, selected, lessons, previewLoading, showReject,
                 fetching>>

(* The button is only dead while the other form is closed.                 *)
handleApprove == ~(actionLoading /\ ~showReject) /\ Decide("approved")

handleReject == showReject /\ ~actionLoading /\ Decide("rejected")

Becomes(d, phase) == deciding' = (deciding \ {d}) \cup {[d EXCEPT !.phase = phase]}

DecisionReaches(d) ==
  /\ d \in deciding /\ d.phase = "begun"
  /\ \/ d.verdict = "approved" /\ ApproveReview(d.review) /\ Becomes(d, "done")
     \/ d.verdict = "rejected" /\ RejectReview(d.review) /\ Becomes(d, "done")
     \/ UNCHANGED publicationVars /\ Becomes(d, "failed")
  /\ UNCHANGED <<accessVars, deskVars, queue, loading, selected, lessons, previewLoading,
                 showReject, actionLoading, fetching>>

(* Whatever is open is closed, and the queue is fetched again.             *)
DecisionAnswered(d) ==
  /\ d \in deciding /\ d.phase = "done"
  /\ deciding' = deciding \ {d}
  /\ actionLoading' = FALSE
  /\ Deselected
  /\ showReject' = IF d.verdict = "rejected" THEN FALSE ELSE showReject
  /\ loading' = TRUE
  /\ UNCHANGED <<allVars, queue, previewLoading>>

(* Refused, for instance as decided already, or the answer is lost.        *)
DecisionFails(d) ==
  /\ d \in deciding /\ d.phase \in {"done", "failed"}
  /\ deciding' = deciding \ {d}
  /\ actionLoading' = FALSE
  /\ UNCHANGED <<allVars, queue, loading, selected, lessons, previewLoading, showReject,
                 fetching>>

(* Another administrator decides, or archives a course.                    *)
OtherAdministrator ==
  /\ \/ \E r \in Reviews : ApproveReview(r) \/ RejectReview(r)
     \/ \E c \in Courses : AdminArchiveCourse(c)
  /\ UNCHANGED <<accessVars, deskVars, moderationVars>>

Next ==
  \/ DeskNext /\ UNCHANGED moderationVars
  \/ OpenQueue \/ QueueArrives \/ CloseDialog \/ ToggleReject \/ handleApprove \/ handleReject
  \/ \E r \in Reviews : SelectReview(r)
  \/ \E f \in Fetches : LessonsArrive(f)
  \/ \E d \in Decisions : DecisionReaches(d) \/ DecisionAnswered(d) \/ DecisionFails(d)
  \/ OtherAdministrator

Spec == ModerationInit /\ [][Next]_everything

-----------------------------------------------------------------------------
(* Properties.                                                             *)

(* The lessons a moderator chooses a preview from are those of the review  *)
(* in the dialog, in whatever order the fetches of the reviews opened one  *)
(* after the other are answered; and while they are not there, a fetch for *)
(* this very review is under way, so the spinner ends.                     *)
LessonsOfSelected ==
  /\ ModerationTypeOK
  /\ selected # Nobody =>
       /\ previewLoading => [review |-> selected, cancelled |-> FALSE] \in fetching
       /\ ~previewLoading => lessons \in {selected, Nobody}
=============================================================================
