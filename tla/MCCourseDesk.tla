---------------------------- MODULE MCCourseDesk ----------------------------
(* Two courses of teachers and one of the platform; two pages, two calls   *)
(* under way and two reviews.  Courses share no row and pages no state but *)
(* the draft, so the cases that can interfere are visited one by one.      *)
EXTENDS Moderation, TLC

CONSTANTS taught, other, platform, m1, m2, e1, e2, pA, pB, q1, q2, r1, r2, l1, s1

MCCourses == {taught, other, platform}
MCTaught == {taught, other}
MCModuleIds == {m1, m2}
MCLessonIds == {e1, e2}
MCPages == {pA, pB}
MCRequests == {q1, q2}
MCReviews == {r1, r2}
MCPublishable == {modules \in StoredOutlines : flattenLessons(modules) # <<>>}

Symmetry == Permutations(MCPages) \cup Permutations(MCRequests) \cup Permutations(MCReviews)

Only(c) == \A d \in Courses \ {c} : course[d] = "absent"
Unreviewed == \A r \in Reviews : review[r] = NoReview
Unshared == /\ creating = {} /\ granting = {} /\ grants = {}
            /\ \A l \in Links : link[l].status = "absent"
Unmoderated == loading /\ queue = {} /\ deciding = {} /\ fetching = {}
NoneArchived == archiving = {} /\ \A c \in Courses : course[c] # "deleted"
Purposed(S) == \A q \in Requests : asked[q].purpose \in S
At(S) == \A p \in Pages : page[p].at \in S
OnePage == \E p \in Pages : /\ page[p].at = "away"
                            /\ \A q \in Requests : asked[q].purpose # "none" => asked[q].page # p
OneCall == \E q \in Requests : asked[q].purpose = "none"
Made(S) == \A p \in Pages : UsedIn(page[p].typed) \subseteq S

(* A draft keeps its lesson once it has one.                               *)
Kept ==
  /\ \A c \in Courses : draft[c].content \in {Empty} \cup Publishable
  /\ \A p \in Pages : page[p].base # Empty => LessonIdsOf(page[p].typed) # {}

(* One author arranges modules and lessons.                                *)
Arranging ==
  Unreviewed /\ NoneArchived /\ OnePage /\ Purposed({"none"}) /\ At({"away", "outline"})

Alone == /\ OnePage /\ NoneArchived /\ Unshared
         /\ \E r \in Reviews : review[r].status = "absent"

(* Saves and submissions overtake one another.                             *)
Submitting == Alone /\ Purposed({"none", "stay", "submit", "review"}) /\ At({"away", "outline"})

(* Saves, previews and the way to a lesson overtake one another.           *)
Lessons == Alone /\ Unreviewed /\ Purposed({"none", "stay", "lesson", "preview"})

(* A lesson is written, and saved, while a review is pending or decided.   *)
LessonsInReview == Alone /\ OneCall

(* Two pages on one draft.                                                 *)
TwoAuthors ==
  /\ Unreviewed /\ NoneArchived /\ Purposed({"none", "stay"})
  /\ \A p \in Pages : Cardinality({q \in Requests : asked[q] # NotAsked /\ asked[q].page = p}) <= 1

(* Links, grants and archivals around reviews.                             *)
Sharing ==
  /\ OnePage /\ OneCall /\ draft[taught].version <= 2
  /\ Purposed({"none", "submit", "review"}) /\ At({"away", "outline"})

OfTeacher ==
  /\ Only(taught) /\ Unmoderated
  /\ \/ Arranging
     \/ Made({m1, e1}) /\ Kept /\ \/ Submitting \/ Lessons \/ LessonsInReview
                                   \/ TwoAuthors \/ Sharing

(* Saves and publications overtake one another on a course of the platform, *)
(* or saves and previews do, or lessons are written between publications.  *)
OfPlatform ==
  /\ Only(platform) /\ Unmoderated /\ NoneArchived /\ OnePage /\ Made({m1, e1}) /\ Kept
  /\ \/ Purposed({"none", "stay", "publish", "publishing"}) /\ At({"away", "outline"})
     \/ Purposed({"none", "stay", "lesson", "preview"}) /\ revisions[platform] = <<>>
     \/ OneCall

(* Two courses are submitted, then a moderator and others decide.          *)
Moderating ==
  /\ course[platform] = "absent" /\ NoneArchived /\ Unshared /\ OnePage /\ OneCall
  /\ course[other] # "absent" => \E r \in Reviews : review[r] # NoReview
  /\ \A r \in Reviews : review[r] # NoReview => review[r].version = 2
  /\ \A c \in Courses : /\ draft[c].version <= 2
                        /\ \A lesson \in LessonsOf(draft[c].content) : lesson.graph = "blank"
  /\ \A p \in Pages : UsedIn(page[p].typed) \subseteq
                        IF page[p].course = taught THEN {m1, e1} ELSE {m2, e2}
  /\ Kept
  /\ Purposed({"none", "submit", "review"}) /\ At({"away", "outline"})
  /\ \/ Unmoderated
     \/ Purposed({"none"}) /\ At({"away"}) /\ \A r \in Reviews : review[r] # NoReview
  /\ Cardinality(fetching) <= 2 /\ Cardinality(deciding) <= 1

OneCaseAtATime == OfTeacher \/ OfPlatform \/ Moderating
=============================================================================
