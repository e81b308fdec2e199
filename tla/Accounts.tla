------------------------------ MODULE Accounts ------------------------------
(***************************************************************************)
(* Accounts, roles and browser sessions                                    *)
(* (backend/internal/identity/service.go).                                 *)
(*                                                                         *)
(* A login comes back from the provider with the subject it identified; it *)
(* looks the subject up, creates an account if there is none, commits, and *)
(* only then inserts the session.  Another login of the same person, and   *)
(* the administrator's block, run in between.                              *)
(***************************************************************************)
EXTENDS FiniteSets

CONSTANTS
  Subjects,  \* people, as the identity provider knows them
  Accounts,  \* account ids
  Admins,    \* administrators, there from the start (subject and account)
  Logins,    \* callbacks of the provider being handled
  Sessions,  \* session ids
  None

ASSUME AccountsAssumption ==
  /\ Subjects # {}
  /\ Admins \subseteq Accounts \cap Subjects
  /\ None \notin Accounts

VARIABLES
  account,    \* accounts
  identity,   \* external_identities: the account of each subject
  profiles,   \* the roles for which an account has a profile
  login,      \* the progress of each login
  session,    \* sessions
  requests    \* what handlers that let their caller in have yet to do

vars == <<account, identity, profiles, login, session, requests>>

OpenRoles == {"student", "parent", "teacher"}
Roles == OpenRoles \cup {"unselected", "admin"}

(* Operations of an account on itself (to select the role) or on another.  *)
Operations == OpenRoles \cup {"block", "unblock", "impersonate", "act"}

NoAccount == [status |-> "absent", role |-> "unselected"]
Idle == [phase |-> "idle", subject |-> CHOOSE s \in Subjects : TRUE, account |-> None]
NoSession == [status |-> "absent", account |-> None, by |-> None]

AccountsTypeOK ==
  /\ account \in [Accounts -> [status : {"absent", "active", "blocked"}, role : Roles]]
  /\ identity \in [Subjects -> Accounts \cup {None}]
  /\ profiles \in [Accounts -> SUBSET OpenRoles]
  /\ login \in [Logins -> [phase : {"idle", "new", "known"}, subject : Subjects,
                           account : Accounts \cup {None}]]
  /\ session \in [Sessions -> [status : {"absent", "open", "expired", "revoked"},
                               account : Accounts \cup {None},
                               by : Admins \cup {None}]]
  /\ requests \subseteq [by : Accounts, on : Accounts, op : Operations]

Init ==
  /\ account = [a \in Accounts |-> IF a \in Admins
                                   THEN [status |-> "active", role |-> "admin"]
                                   ELSE NoAccount]
  /\ identity = [s \in Subjects |-> IF s \in Admins THEN s ELSE None]
  /\ profiles = [a \in Accounts |-> {}]
  /\ login = [l \in Logins |-> Idle]
  /\ session = [x \in Sessions |-> NoSession]
  /\ requests = {}

(* AuthenticateRequest.                                                    *)
Live(x) == session[x].status = "open" /\ account[session[x].account].status = "active"
LetIn(a) == \E x \in Sessions : session[x].account = a /\ Live(x)

Request(by, on, op) == [by |-> by, on |-> on, op |-> op]

Begin(by, on, op) ==
  /\ LetIn(by)
  /\ requests' = requests \cup {Request(by, on, op)}
  /\ UNCHANGED <<account, identity, profiles, login, session>>

Finish(by, on, op) ==
  /\ Request(by, on, op) \in requests
  /\ requests' = requests \ {Request(by, on, op)}

-----------------------------------------------------------------------------
(* Login: Callback and upsertIdentity.                                     *)

(* The subject is known and its account is not blocked.                    *)
LoginFinds(l, s) ==
  /\ login[l].phase = "idle"
  /\ identity[s] # None
  /\ account[identity[s]].status = "active"
  /\ login' = [login EXCEPT ![l] = [phase |-> "known", subject |-> s,
                                    account |-> identity[s]]]
  /\ UNCHANGED <<account, identity, profiles, session, requests>>

LoginFindsNone(l, s) ==
  /\ login[l].phase = "idle"
  /\ identity[s] = None
  /\ login' = [login EXCEPT ![l] = [phase |-> "new", subject |-> s, account |-> None]]
  /\ UNCHANGED <<account, identity, profiles, session, requests>>

LoginCreates(l, a) ==
  LET s == login[l].subject IN
  /\ login[l].phase = "new"
  /\ identity[s] = None
  /\ account[a].status = "absent"
  /\ account' = [account EXCEPT ![a].status = "active"]
  /\ identity' = [identity EXCEPT ![s] = a]
  /\ login' = [login EXCEPT ![l].phase = "known", ![l].account = a]
  /\ UNCHANGED <<profiles, session, requests>>

(* Mutant: the account made for the conflicting identity is not deleted.   *)
LoginLeavesAccount(l) ==
  LET s == login[l].subject IN
  /\ login[l].phase = "new"
  /\ identity[s] # None
  /\ account[identity[s]].status = "active"
  /\ \E a \in Accounts : /\ account[a].status = "absent"
                         /\ account' = [account EXCEPT ![a].status = "active"]
  /\ login' = [login EXCEPT ![l].phase = "known", ![l].account = identity[s]]
  /\ UNCHANGED <<identity, profiles, session, requests>>

(* Another login has created it meanwhile: the insert does nothing, the    *)
(* new account is deleted and the other one taken, unless it is blocked.   *)
LoginConflicts(l) ==
  LET s == login[l].subject IN
  /\ login[l].phase = "new"
  /\ identity[s] # None
  /\ account[identity[s]].status = "active"
  /\ login' = [login EXCEPT ![l].phase = "known", ![l].account = identity[s]]
  /\ UNCHANGED <<account, identity, profiles, session, requests>>

LoginFails(l) ==
  /\ login[l].phase # "idle"
  /\ login' = [login EXCEPT ![l] = Idle]
  /\ UNCHANGED <<account, identity, profiles, session, requests>>

OpenSession(l, x) ==
  /\ login[l].phase = "known"
  /\ session[x].status = "absent"
  /\ session' = [session EXCEPT ![x] = [status |-> "open", account |-> login[l].account,
                                        by |-> None]]
  /\ login' = [login EXCEPT ![l] = Idle]
  /\ UNCHANGED <<account, identity, profiles, requests>>

-----------------------------------------------------------------------------
(* Sessions.                                                               *)

CloseSession(x, status) ==
  /\ session[x].status = "open"
  /\ session' = [session EXCEPT ![x].status = status]
  /\ UNCHANGED <<account, identity, profiles, login, requests>>

(* AuthenticateRequest, presented with a session of a blocked account,     *)
(* expired or not.                                                         *)
RefuseBlocked(x) ==
  /\ session[x].status \in {"open", "expired"}
  /\ account[session[x].account].status = "blocked"
  /\ session' = [session EXCEPT ![x].status = "revoked"]
  /\ UNCHANGED <<account, identity, profiles, login, requests>>

SessionExpires(x) == CloseSession(x, "expired")
Logout(x) == CloseSession(x, "revoked")
StopImpersonation(x) == session[x].by # None /\ CloseSession(x, "revoked")

-----------------------------------------------------------------------------
(* The choice of a role.                                                   *)

SelectionBegins(a, role) ==
  /\ role \in OpenRoles
  /\ Begin(a, a, role)

(* Mutant: the role that was chosen first is not looked at.                *)
SelectRoleAgain(a, role) ==
  /\ Finish(a, a, role)
  /\ account' = [account EXCEPT ![a].role = role]
  /\ profiles' = [profiles EXCEPT ![a] = @ \cup {role}]
  /\ UNCHANGED <<identity, login, session>>

SelectRole(a, role) ==
  /\ Finish(a, a, role)
  /\ account[a].role = "unselected"
  /\ account' = [account EXCEPT ![a].role = role]
  /\ profiles' = [profiles EXCEPT ![a] = @ \cup {role}]
  /\ UNCHANGED <<identity, login, session>>

(* A role is set already: refused, or confirmed if it is the same.         *)
RoleIsSet(a, role) ==
  /\ Finish(a, a, role)
  /\ account[a].role # "unselected"
  /\ UNCHANGED <<account, identity, profiles, login, session>>

-----------------------------------------------------------------------------
(* Administration.                                                         *)

AdminBegins(admin, a, op) ==
  /\ admin \in Admins
  /\ \/ op \in {"block", "impersonate"} /\ a # admin
     \/ op = "unblock"
  /\ account[a].status # "absent"
  /\ Begin(admin, a, op)

BlockUser(admin, a) ==
  /\ Finish(admin, a, "block")
  /\ account' = [account EXCEPT ![a].status = "blocked"]
  /\ session' = [x \in Sessions |->
       IF session[x].account = a /\ session[x].status \in {"open", "expired"}
       THEN [session[x] EXCEPT !.status = "revoked"] ELSE session[x]]
  /\ UNCHANGED <<identity, profiles, login>>

UnblockUser(admin, a) ==
  /\ Finish(admin, a, "unblock")
  /\ account' = [account EXCEPT ![a].status = "active"]
  /\ UNCHANGED <<identity, profiles, login, session>>

(* Mutant: whoever is not blocked can be impersonated.                     *)
ImpersonatesAnyone(admin, a) ==
  /\ Request(admin, a, "impersonate") \in requests
  /\ account[a].status = "active"
  /\ requests' = (requests \ {Request(admin, a, "impersonate")}) \cup {Request(admin, a, "act")}
  /\ UNCHANGED <<account, identity, profiles, login, session>>

(* The target is looked at in one statement; the session is inserted in    *)
(* another.                                                                *)
ImpersonationChecked(admin, a) ==
  /\ Request(admin, a, "impersonate") \in requests
  /\ account[a].status = "active"
  /\ account[a].role \in OpenRoles
  /\ requests' = (requests \ {Request(admin, a, "impersonate")}) \cup {Request(admin, a, "act")}
  /\ UNCHANGED <<account, identity, profiles, login, session>>

(* Blocked, an administrator, or without a role yet.                       *)
ImpersonationRefused(admin, a) ==
  /\ Finish(admin, a, "impersonate")
  /\ account[a].status = "blocked" \/ account[a].role \notin OpenRoles
  /\ UNCHANGED <<account, identity, profiles, login, session>>

ImpersonateUser(admin, a, x) ==
  /\ Finish(admin, a, "act")
  /\ session[x].status = "absent"
  /\ session' = [session EXCEPT ![x] = [status |-> "open", account |-> a, by |-> admin]]
  /\ UNCHANGED <<account, identity, profiles, login>>

Next ==
  \/ \E l \in Logins : \/ \E s \in Subjects : LoginFinds(l, s) \/ LoginFindsNone(l, s)
                       \/ \E a \in Accounts : LoginCreates(l, a)
                       \/ LoginConflicts(l)
                       \/ LoginFails(l)
                       \/ \E x \in Sessions : OpenSession(l, x)
  \/ \E x \in Sessions : RefuseBlocked(x) \/ SessionExpires(x) \/ Logout(x)
                           \/ StopImpersonation(x)
  \/ \E a \in Accounts, role \in OpenRoles :
       SelectionBegins(a, role) \/ SelectRole(a, role) \/ RoleIsSet(a, role)
  \/ \E admin \in Admins, a \in Accounts :
       \/ \E op \in Operations : AdminBegins(admin, a, op)
       \/ BlockUser(admin, a) \/ UnblockUser(admin, a)
       \/ ImpersonationChecked(admin, a) \/ ImpersonationRefused(admin, a)
       \/ \E x \in Sessions : ImpersonateUser(admin, a, x)

Spec == Init /\ [][Next]_vars

-----------------------------------------------------------------------------
(* Properties.                                                             *)

(* A person has one account however many first logins race, and no account *)
(* is left over that belongs to nobody.                                    *)
OneAccountPerPerson ==
  /\ AccountsTypeOK
  /\ \A a \in Accounts :
       account[a].status # "absent" => Cardinality({s \in Subjects : identity[s] = a}) = 1

(* An account has the profile of its role and no other, though the choice  *)
(* may be made in several tabs at once.                                    *)
ProfileOfTheRole ==
  \A a \in Accounts :
    profiles[a] = IF account[a].role \in OpenRoles THEN {account[a].role} ELSE {}

(* Nobody acts for an administrator or for a person without a role.        *)
ImpersonatesUsersOnly ==
  \A x \in Sessions :
    session[x].by # None => account[session[x].account].role \in OpenRoles

(* "Blocking a user must mark his active sessions as revoked"              *)
(* (DB_SCHEMA.md:120): a blocked account has no session that is open.      *)
BlockedHasNoSession ==
  \A x \in Sessions :
    session[x].status = "open" => account[session[x].account].status # "blocked"
=============================================================================
