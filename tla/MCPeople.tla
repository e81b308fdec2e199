------------------------------ MODULE MCPeople -----------------------------
(* An administrator and a person who logs in twice at once; and three      *)
(* parents who invite two children, one of the parents twice.  No handler  *)
(* writes rows of both modules, so that each is walked while the other is  *)
(* as it was at the beginning.                                             *)
EXTENDS Accounts, Guardianship, TLC

CONSTANTS root, ann, a1, a2, l1, l2, x1, x2, x3, daughter, son

MCSubjects == {root, ann}
MCAccounts == {root, a1, a2}
MCAdmins == {root}
MCLogins == {l1, l2}
MCSessions == {x1, x2, x3}
MCParents == 1..3
MCChildren == {daughter, son}
MCInvites == 1..4

PeopleInit == Init /\ GuardianshipInit
PeopleNext ==
  \/ GuardianshipInit /\ Next /\ UNCHANGED guardianshipVars
  \/ Init /\ GuardianshipNext /\ UNCHANGED vars
PeopleSpec == PeopleInit /\ [][PeopleNext]_<<vars, guardianshipVars>>

Symmetry == Permutations({a1, a2}) \cup Permutations(MCLogins)
              \cup Permutations(MCSessions)

(* Requests in progress at the same time.                                  *)
TwoRequests == Cardinality(requests) <= 2

(* Invites are numbered as they are made, parents as they first make one.  *)
InOrder ==
  \A i \in Invites : invite[i].status # "absent" =>
    \A j \in 1..i : /\ invite[j].status # "absent"
                    /\ \A p \in 1..(invite[i].parent - 1) :
                         \E k \in 1..i : invite[k].parent = p

(* One invite at most grows old or is revoked.                             *)
OneSpoiled ==
  Cardinality({i \in Invites : invite[i].late \/ invite[i].status = "revoked"}) <= 1
=============================================================================
