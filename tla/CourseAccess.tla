---------------------------- MODULE CourseAccess ----------------------------
(***************************************************************************)
(* Access to teachers' courses                                             *)
(* (backend/internal/teacheraccess/service.go), next to their publication. *)
(*                                                                         *)
(* A teacher hands out links; a student who claims one is granted the      *)
(* course for good, and an administrator grants it without a link.  A      *)
(* claim locks the link and the course; the creation of a link and the     *)
(* administrator's grant check the course in one statement and insert in   *)
(* another, and the course may be archived in between.                     *)
(***************************************************************************)
EXTENDS Publication

CONSTANTS
  Links,     \* link ids
  Students

VARIABLES
  link,      \* course_access_links
  creating,  \* courses for which CreateLink was let in
  granting,  \* <<student, course>> pairs for which AdminGrant was let in
  grants     \* course_access_grants: who holds which course, by which link

accessVars == <<link, creating, granting, grants>>
vars == <<publicationVars, accessVars>>

NoLink == [course |-> CHOOSE c \in Courses : TRUE, status |-> "absent", late |-> FALSE,
           dated |-> FALSE]
ByAdmin == "admin"

AccessTypeOK ==
  /\ PublicationTypeOK
  /\ link \in [Links -> [course : Courses, status : {"absent", "active", "revoked"},
                         dated : BOOLEAN, late : BOOLEAN]]
  /\ creating \subseteq TeacherCourses
  /\ granting \subseteq Students \X TeacherCourses
  /\ grants \subseteq [student : Students, course : TeacherCourses,
                       via : Links \cup {ByAdmin}]

Init ==
  /\ PublicationInit
  /\ link = [l \in Links |-> NoLink]
  /\ creating = {} /\ granting = {} /\ grants = {}

Holds(s, c) == \E g \in grants : g.student = s /\ g.course = c

(* Mutant: the course need not be published.                               *)
ShareableUnpublished(c) == c \in TeacherCourses /\ course[c] = "active"

(* ensureTeacherPrivateCourse and ensureCourseGrantable.                   *)
Shareable(c) == c \in TeacherCourses /\ course[c] = "active" /\ Published(c)

-----------------------------------------------------------------------------
(* Links.                                                                  *)

CreateLinkBegins(c) ==
  /\ Shareable(c)
  /\ creating' = creating \cup {c}
  /\ UNCHANGED <<publicationVars, link, granting, grants>>

CreateLink(l, c, dated) ==
  /\ c \in creating
  /\ link[l].status = "absent"
  /\ link' = [link EXCEPT ![l] = [course |-> c, status |-> "active", dated |-> dated,
                                  late |-> FALSE]]
  /\ creating' = creating \ {c}
  /\ UNCHANGED <<publicationVars, granting, grants>>

LinkGrowsOld(l) ==
  /\ link[l].dated /\ ~link[l].late
  /\ link' = [link EXCEPT ![l].late = TRUE]
  /\ UNCHANGED <<publicationVars, creating, granting, grants>>

RevokeLink(l) ==
  /\ link[l].status = "active"
  /\ course[link[l].course] = "active"
  /\ link' = [link EXCEPT ![l].status = "revoked"]
  /\ UNCHANGED <<publicationVars, creating, granting, grants>>

-----------------------------------------------------------------------------
(* Grants.                                                                 *)

(* The insert does nothing when the student holds the course already.      *)
Grant(s, c, via) ==
  grants' = IF Holds(s, c) THEN grants
            ELSE grants \cup {[student |-> s, course |-> c, via |-> via]}

(* A late link is refused; that it is marked expired is rolled back.       *)
ClaimLink(s, l) ==
  LET c == link[l].course IN
  /\ link[l].status = "active" /\ ~link[l].late
  /\ course[c] = "active" /\ Published(c)
  /\ Grant(s, c, l)
  /\ UNCHANGED <<publicationVars, link, creating, granting>>

AdminGrantBegins(s, c) ==
  /\ Shareable(c)
  /\ granting' = granting \cup {<<s, c>>}
  /\ UNCHANGED <<publicationVars, link, creating, grants>>

AdminGrant(s, c) ==
  /\ <<s, c>> \in granting
  /\ granting' = granting \ {<<s, c>>}
  /\ Grant(s, c, ByAdmin)
  /\ UNCHANGED <<publicationVars, link, creating>>

(* What does not come from the page of the teacher.                        *)
AccessServer ==
  \/ \E l \in Links, c \in Courses, dated \in BOOLEAN : CreateLink(l, c, dated)
  \/ \E l \in Links : LinkGrowsOld(l)
  \/ \E s \in Students, l \in Links : ClaimLink(s, l)
  \/ \E s \in Students, c \in Courses : AdminGrantBegins(s, c) \/ AdminGrant(s, c)

-----------------------------------------------------------------------------
(* Properties.                                                             *)

(* No student reaches what a teacher wrote before an administrator looked  *)
(* at it: who holds a course, by whatever link or grant and whatever was   *)
(* archived or revoked meanwhile, holds one with an approved review.       *)
GrantedWasApproved ==
  \A g \in grants :
    \E r \in Reviews : review[r].course = g.course /\ review[r].status = "approved"
=============================================================================
