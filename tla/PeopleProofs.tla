----------------------------- MODULE PeopleProofs ---------------------------
(***************************************************************************)
(* Proofs about the people who use the school and what ties them together, *)
(* for any number of them.                                                 *)
(*                                                                         *)
(* Accounts, for any logins and sessions.  The invariant ties together     *)
(* what four tables and the requests on their way say of an account:       *)
(* identities and accounts are in bijection (Identified), whatever refers  *)
(* to an account refers to one that exists (Referenced), and an            *)
(* administrator's request to act for somebody was let in for a person     *)
(* with a role, which is never taken away (Chosen).                        *)
(*                                                                         *)
(* Guardianship, for any invites.  The two promises of the module need, to *)
(* be inductive, that the child's slots differ, that an invite which       *)
(* exists has a parent and that a claim in progress holds an invite which  *)
(* is still active.                                                        *)
(***************************************************************************)
EXTENDS Accounts, Guardianship, FiniteSetTheorems, TLAPS

Exists(a) == account[a].status # "absent"

Identified ==
  /\ \A a \in Accounts : Exists(a) => \E s \in Subjects : identity[s] = a
  /\ \A s \in Subjects : identity[s] # None => Exists(identity[s])
  /\ \A s, t \in Subjects : identity[s] # None /\ identity[s] = identity[t] => s = t

Referenced ==
  /\ \A l \in Logins : login[l].phase = "known" =>
       login[l].account \in Accounts /\ Exists(login[l].account)
  /\ \A x \in Sessions : session[x].status # "absent" =>
       session[x].account \in Accounts /\ Exists(session[x].account)
  /\ \A q \in requests : Exists(q.on)

Chosen ==
  \A q \in requests : q.op = "act" => account[q.on].role \in OpenRoles

(* A session that is still absent is nobody's.                             *)
Unused == \A x \in Sessions : session[x].status = "absent" => session[x] = NoSession

AccountsInv ==
  /\ AccountsTypeOK
  /\ Identified
  /\ Referenced
  /\ Chosen
  /\ Unused
  /\ ProfileOfTheRole
  /\ ImpersonatesUsersOnly

AccountRows == [status : {"absent", "active", "blocked"}, role : Roles]
LoginRows == [phase : {"idle", "new", "known"}, subject : Subjects,
              account : Accounts \cup {None}]
SessionRows == [status : {"absent", "open", "expired", "revoked"},
                account : Accounts \cup {None}, by : Admins \cup {None}]

LEMMA IdleIsRow == Idle \in LoginRows
  BY AccountsAssumption DEF Idle, LoginRows

-----------------------------------------------------------------------------
(* What a step may do to the accounts.                                     *)

(* Accounts do not vanish, and a role once chosen stays.                   *)
AccountsStay ==
  \A a \in Accounts :
    /\ Exists(a) => account'[a].status # "absent"
    /\ account[a].role \in OpenRoles => account'[a].role = account[a].role

(* Somebody who is let in has an account, and is not administrator for it. *)
LEMMA LetInExists ==
  ASSUME AccountsInv, NEW a \in Accounts, LetIn(a)
  PROVE  Exists(a)
  BY DEF LetIn, Live, Exists

(* A step that leaves accounts, identities and profiles alone keeps what   *)
(* is said of them.                                                        *)
LEMMA OthersKeepInv ==
  ASSUME AccountsInv, UNCHANGED <<account, identity, profiles>>,
         AccountsTypeOK', Referenced', Chosen', Unused', ImpersonatesUsersOnly'
  PROVE  AccountsInv'
  BY DEF AccountsInv, Identified, Exists, ProfileOfTheRole

LEMMA LoginKeepsInv ==
  ASSUME AccountsInv, NEW l \in Logins, NEW row \in LoginRows,
         login' = [login EXCEPT ![l] = row],
         row.phase = "known" => row.account \in Accounts /\ Exists(row.account),
         UNCHANGED <<account, identity, profiles, session, requests>>
  PROVE  AccountsInv'
  <1>1. AccountsTypeOK'
    BY DEF AccountsInv, AccountsTypeOK, LoginRows
  <1>2. Referenced'
    BY DEF AccountsInv, AccountsTypeOK, Referenced, Exists
  <1>3. Chosen' /\ Unused' /\ ImpersonatesUsersOnly'
    BY DEF AccountsInv, Chosen, Unused, ImpersonatesUsersOnly
  <1> QED
    BY <1>1, <1>2, <1>3, OthersKeepInv

LEMMA LoginCreatesKeepsInv ==
  ASSUME AccountsInv, NEW l \in Logins, NEW a \in Accounts, LoginCreates(l, a)
  PROVE  AccountsInv'
  <1> DEFINE s == login[l].subject
  <1>1. /\ s \in Subjects /\ identity[s] = None
        /\ account[a].status = "absent"
        /\ account' = [account EXCEPT ![a].status = "active"]
        /\ identity' = [identity EXCEPT ![s] = a]
        /\ login' = [login EXCEPT ![l].phase = "known", ![l].account = a]
        /\ UNCHANGED <<profiles, session, requests>>
    BY DEF LoginCreates, AccountsInv, AccountsTypeOK
  <1> HIDE DEF s
  <1>2. /\ account'[a].status = "active" /\ account'[a].role = account[a].role
        /\ \A b \in Accounts \ {a} : account'[b] = account[b]
        /\ identity'[s] = a
        /\ \A t \in Subjects \ {s} : identity'[t] = identity[t]
        /\ login'[l].phase = "known" /\ login'[l].account = a
        /\ \A k \in Logins \ {l} : login'[k] = login[k]
    BY <1>1 DEF AccountsInv, AccountsTypeOK
  <1>3. AccountsTypeOK'
    <2>1. account' \in [Accounts -> AccountRows]
      BY <1>1 DEF AccountsInv, AccountsTypeOK, AccountRows
    <2>2. login' \in [Logins -> LoginRows]
      <3>1. login[l] \in LoginRows /\ login \in [Logins -> LoginRows]
        BY DEF AccountsInv, AccountsTypeOK, LoginRows
      <3>2. [login[l] EXCEPT !.phase = "known", !.account = a] \in LoginRows
        BY <3>1 DEF LoginRows
      <3> QED
        BY <1>1, <3>1, <3>2
    <2> QED
      BY <1>1, <2>1, <2>2 DEF AccountsInv, AccountsTypeOK, AccountRows, LoginRows
  <1>4. \A t \in Subjects : identity[t] # a
    BY <1>1, AccountsAssumption DEF AccountsInv, Identified, Exists
  <1>5. Identified'
    <2>1. \A b \in Accounts : account'[b].status # "absent" =>
            \E t \in Subjects : identity'[t] = b
      <3> SUFFICES ASSUME NEW b \in Accounts, account'[b].status # "absent"
                   PROVE  \E t \in Subjects : identity'[t] = b
        OBVIOUS
      <3>1. CASE b = a
        BY <1>1, <1>2, <3>1
      <3>2. CASE b # a
        <4>1. PICK t \in Subjects : identity[t] = b
          BY <1>2, <3>2 DEF AccountsInv, Identified, Exists
        <4>2. t # s
          BY <1>1, <4>1, AccountsAssumption
        <4> QED
          BY <1>2, <4>1, <4>2
      <3> QED
        BY <3>1, <3>2
    <2>2. \A t \in Subjects : identity'[t] # None => account'[identity'[t]].status # "absent"
      <3> SUFFICES ASSUME NEW t \in Subjects, identity'[t] # None
                   PROVE  account'[identity'[t]].status # "absent"
        OBVIOUS
      <3>1. CASE t = s
        BY <1>2, <3>1
      <3>2. CASE t # s
        <4>1. identity'[t] \in Accounts /\ Exists(identity'[t])
          BY <1>2, <3>2 DEF AccountsInv, AccountsTypeOK, Identified
        <4> QED
          BY <1>2, <4>1 DEF Exists
      <3> QED
        BY <3>1, <3>2
    <2>3. \A t, u \in Subjects : identity'[t] # None /\ identity'[t] = identity'[u] => t = u
      BY <1>2, <1>4 DEF AccountsInv, Identified
    <2> QED
      BY <2>1, <2>2, <2>3 DEF Identified, Exists
  <1>6. Referenced'
    BY <1>1, <1>2 DEF AccountsInv, AccountsTypeOK, Referenced, Exists
  <1>7. Chosen' /\ Unused' /\ ProfileOfTheRole' /\ ImpersonatesUsersOnly'
    <2>1. \A b \in Accounts : account'[b].role = account[b].role
      BY <1>2
    <2>2. \A q \in requests : q.on \in Accounts
      BY DEF AccountsInv, AccountsTypeOK
    <2>3. \A x \in Sessions : session[x].by # None => session[x].account \in Accounts
      BY DEF AccountsInv, Unused, Referenced, NoSession
    <2>4. Chosen'
      BY <1>1, <2>1, <2>2 DEF AccountsInv, Chosen
    <2>5. Unused' /\ ProfileOfTheRole'
      BY <1>1, <2>1 DEF AccountsInv, Unused, ProfileOfTheRole
    <2>6. ImpersonatesUsersOnly'
      BY <1>1, <2>1, <2>3 DEF AccountsInv, ImpersonatesUsersOnly
    <2> QED
      BY <2>4, <2>5, <2>6
  <1> QED
    BY <1>3, <1>5, <1>6, <1>7 DEF AccountsInv

LEMMA LoginStepKeepsInv ==
  ASSUME AccountsInv, NEW l \in Logins,
         \/ \E s \in Subjects : LoginFinds(l, s) \/ LoginFindsNone(l, s)
         \/ \E a \in Accounts : LoginCreates(l, a)
         \/ LoginConflicts(l)
         \/ LoginFails(l)
  PROVE  AccountsInv'
  <1>1. ASSUME NEW s \in Subjects, LoginFinds(l, s)
        PROVE  AccountsInv'
    <2> DEFINE row == [phase |-> "known", subject |-> s, account |-> identity[s]]
    <2>1. identity[s] \in Accounts /\ Exists(identity[s])
      BY <1>1 DEF LoginFinds, AccountsInv, AccountsTypeOK, Exists
    <2>2. row \in LoginRows /\ row.account = identity[s]
      BY <2>1 DEF LoginRows
    <2>3. /\ login' = [login EXCEPT ![l] = row]
          /\ UNCHANGED <<account, identity, profiles, session, requests>>
      BY <1>1 DEF LoginFinds
    <2> QED
      BY <2>1, <2>2, <2>3, LoginKeepsInv
  <1>2. ASSUME NEW s \in Subjects, LoginFindsNone(l, s)
        PROVE  AccountsInv'
    <2> DEFINE row == [phase |-> "new", subject |-> s, account |-> None]
    <2>1. row \in LoginRows /\ row.phase = "new"
      BY DEF LoginRows
    <2>2. /\ login' = [login EXCEPT ![l] = row]
          /\ UNCHANGED <<account, identity, profiles, session, requests>>
      BY <1>2 DEF LoginFindsNone
    <2> QED
      BY <2>1, <2>2, LoginKeepsInv
  <1>3. CASE LoginConflicts(l)
    <2> DEFINE s == login[l].subject
               row == [login[l] EXCEPT !.phase = "known", !.account = identity[s]]
    <2>1. s \in Subjects /\ login[l] \in LoginRows
      BY DEF AccountsInv, AccountsTypeOK, LoginRows
    <2>2. identity[s] \in Accounts /\ Exists(identity[s])
      BY <1>3, <2>1 DEF LoginConflicts, AccountsInv, AccountsTypeOK, Exists
    <2>3. row \in LoginRows /\ row.account = identity[s]
      BY <2>1, <2>2 DEF LoginRows
    <2>4. /\ login' = [login EXCEPT ![l] = row]
          /\ UNCHANGED <<account, identity, profiles, session, requests>>
      BY <1>3 DEF LoginConflicts
    <2> QED
      BY <2>2, <2>3, <2>4, LoginKeepsInv
  <1>4. CASE LoginFails(l)
    <2>1. /\ login' = [login EXCEPT ![l] = Idle] /\ Idle.phase = "idle"
          /\ UNCHANGED <<account, identity, profiles, session, requests>>
      BY <1>4 DEF LoginFails, Idle
    <2> QED
      BY <2>1, IdleIsRow, LoginKeepsInv
  <1> QED
    BY <1>1, <1>2, <1>3, <1>4, LoginCreatesKeepsInv

-----------------------------------------------------------------------------
(* Sessions.                                                               *)

LEMMA SessionKeepsInv ==
  ASSUME AccountsInv, NEW x \in Sessions, NEW row \in SessionRows,
         session' = [session EXCEPT ![x] = row],
         row.status # "absent", row.account \in Accounts, Exists(row.account),
         row.by # None => account[row.account].role \in OpenRoles,
         login' \in [Logins -> LoginRows],
         \A l \in Logins : login'[l] = login[l] \/ login'[l].phase = "idle",
         requests' \subseteq requests,
         UNCHANGED <<account, identity, profiles>>
  PROVE  AccountsInv'
  <1>1. AccountsTypeOK'
    BY DEF AccountsInv, AccountsTypeOK, LoginRows, SessionRows
  <1>2. session'[x] = row /\ \A y \in Sessions \ {x} : session'[y] = session[y]
    BY DEF AccountsInv, AccountsTypeOK
  <1>3. Referenced'
    BY <1>2 DEF AccountsInv, Referenced, Exists
  <1>4. Chosen' /\ Unused' /\ ImpersonatesUsersOnly'
    BY <1>2 DEF AccountsInv, Chosen, Unused, ImpersonatesUsersOnly
  <1> QED
    BY <1>1, <1>3, <1>4, OthersKeepInv

LEMMA OpenSessionKeepsInv ==
  ASSUME AccountsInv, NEW l \in Logins, NEW x \in Sessions, OpenSession(l, x)
  PROVE  AccountsInv'
  <1> DEFINE row == [status |-> "open", account |-> login[l].account, by |-> None]
  <1>1. login[l].account \in Accounts /\ Exists(login[l].account)
    BY DEF OpenSession, AccountsInv, Referenced
  <1>2. /\ row \in SessionRows /\ row.status = "open" /\ row.by = None
        /\ row.account = login[l].account
    BY <1>1 DEF SessionRows
  <1>3. /\ session' = [session EXCEPT ![x] = row]
        /\ login' = [login EXCEPT ![l] = Idle]
        /\ UNCHANGED <<account, identity, profiles, requests>>
    BY DEF OpenSession
  <1>4. /\ login' \in [Logins -> LoginRows]
        /\ \A k \in Logins : login'[k] = login[k] \/ login'[k].phase = "idle"
    <2>1. Idle.phase = "idle"
      BY DEF Idle
    <2> QED
      BY <1>3, <2>1, IdleIsRow DEF AccountsInv, AccountsTypeOK, LoginRows
  <1> HIDE DEF row
  <1> QED
    BY <1>1, <1>2, <1>3, <1>4, SessionKeepsInv

MarkSession(x, status) ==
  /\ session[x].status # "absent"
  /\ session' = [session EXCEPT ![x].status = status]
  /\ UNCHANGED <<account, identity, profiles, login, requests>>

LEMMA MarkSessionKeepsInv ==
  ASSUME AccountsInv, NEW x \in Sessions, NEW status \in {"expired", "revoked"},
         MarkSession(x, status)
  PROVE  AccountsInv'
  <1> DEFINE row == [session[x] EXCEPT !.status = status]
  <1>1. session[x] \in SessionRows /\ session[x].status # "absent"
    BY DEF AccountsInv, AccountsTypeOK, SessionRows, MarkSession
  <1>2. /\ row \in SessionRows /\ row.status = status
        /\ row.account = session[x].account /\ row.by = session[x].by
    BY <1>1 DEF SessionRows
  <1>3. session[x].account \in Accounts /\ Exists(session[x].account)
    BY <1>1 DEF AccountsInv, Referenced
  <1>4. /\ session' = [session EXCEPT ![x] = row]
        /\ UNCHANGED <<account, identity, profiles, login, requests>>
    BY DEF MarkSession
  <1>5. login' \in [Logins -> LoginRows]
    BY <1>4 DEF AccountsInv, AccountsTypeOK, LoginRows
  <1>6. session[x].by # None => account[session[x].account].role \in OpenRoles
    BY DEF AccountsInv, ImpersonatesUsersOnly
  <1> HIDE DEF row
  <1> QED
    BY <1>2, <1>3, <1>4, <1>5, <1>6, SessionKeepsInv

LEMMA ImpersonateUserKeepsInv ==
  ASSUME AccountsInv, NEW admin \in Admins, NEW a \in Accounts, NEW x \in Sessions,
         ImpersonateUser(admin, a, x)
  PROVE  AccountsInv'
  <1> DEFINE row == [status |-> "open", account |-> a, by |-> admin]
             q == Request(admin, a, "act")
  <1>1. q \in requests /\ q.on = a /\ q.op = "act"
    BY DEF ImpersonateUser, Finish, Request
  <1>2. Exists(a) /\ account[a].role \in OpenRoles
    BY <1>1 DEF AccountsInv, Referenced, Chosen
  <1>3. row \in SessionRows /\ row.status = "open" /\ row.account = a
    BY DEF SessionRows
  <1>4. /\ session' = [session EXCEPT ![x] = row]
        /\ requests' \subseteq requests
        /\ UNCHANGED <<account, identity, profiles, login>>
    BY DEF ImpersonateUser, Finish
  <1>5. login' \in [Logins -> LoginRows]
    BY <1>4 DEF AccountsInv, AccountsTypeOK, LoginRows
  <1> HIDE DEF row, q
  <1> QED
    BY <1>2, <1>3, <1>4, <1>5, SessionKeepsInv

-----------------------------------------------------------------------------
(* Requests that are let in, and what they do.                             *)

LEMMA RequestKeepsInv ==
  ASSUME AccountsInv, NEW by \in Accounts, NEW on \in Accounts, NEW op \in Operations,
         requests' \subseteq requests \cup {Request(by, on, op)}, Exists(on),
         op = "act" => account[on].role \in OpenRoles,
         UNCHANGED <<account, identity, profiles, login, session>>
  PROVE  AccountsInv'
  <1> DEFINE q == Request(by, on, op)
  <1>1. /\ q \in [by : Accounts, on : Accounts, op : Operations]
        /\ q.on = on /\ q.op = op
    BY DEF Request
  <1>2. requests' \subseteq requests \cup {q}
    OBVIOUS
  <1> HIDE DEF q
  <1>3. AccountsTypeOK'
    BY <1>1, <1>2 DEF AccountsInv, AccountsTypeOK
  <1>4. Referenced' /\ Chosen' /\ Unused' /\ ImpersonatesUsersOnly'
    BY <1>1, <1>2
    DEF AccountsInv, Referenced, Chosen, Unused, ImpersonatesUsersOnly, Exists
  <1> QED
    BY <1>2, <1>3, <1>4, OthersKeepInv

LEMMA BeginKeepsInv ==
  ASSUME AccountsInv, NEW by \in Accounts, NEW on \in Accounts, NEW op \in Operations,
         Begin(by, on, op), Exists(on),
         op = "act" => account[on].role \in OpenRoles
  PROVE  AccountsInv'
  <1>1. /\ requests' \subseteq requests \cup {Request(by, on, op)}
        /\ UNCHANGED <<account, identity, profiles, login, session>>
    BY DEF Begin
  <1> QED
    BY <1>1, RequestKeepsInv

(* The target has been looked at: it exists and has an open role.          *)
LEMMA ImpersonationCheckedKeepsInv ==
  ASSUME AccountsInv, NEW admin \in Accounts, NEW a \in Accounts,
         ImpersonationChecked(admin, a)
  PROVE  AccountsInv'
  <1>1. /\ requests' \subseteq requests \cup {Request(admin, a, "act")}
        /\ Exists(a) /\ account[a].role \in OpenRoles
        /\ UNCHANGED <<account, identity, profiles, login, session>>
    BY DEF ImpersonationChecked, Exists
  <1>2. "act" \in Operations
    BY DEF Operations
  <1> QED
    BY <1>1, <1>2, RequestKeepsInv

(* A request is over that has changed nothing.                             *)
LEMMA DroppedKeepsInv ==
  ASSUME AccountsInv, requests' \subseteq requests,
         UNCHANGED <<account, identity, profiles, login, session>>
  PROVE  AccountsInv'
  <1>1. AccountsTypeOK'
    BY DEF AccountsInv, AccountsTypeOK
  <1> QED
    BY <1>1, OthersKeepInv
    DEF AccountsInv, Referenced, Chosen, Unused, ImpersonatesUsersOnly, Exists

(* Statuses and roles change only as they may, and sessions are closed.    *)
LEMMA ChangesKeepInv ==
  ASSUME AccountsInv, AccountsStay, AccountsTypeOK', ProfileOfTheRole', Unused',
         \A a \in Accounts : account'[a].status # "absent" => Exists(a),
         \A x \in Sessions : /\ session'[x].account = session[x].account
                             /\ session'[x].by = session[x].by
                             /\ session'[x].status # "absent" =>
                                  session[x].status # "absent",
         requests' \subseteq requests,
         UNCHANGED <<identity, login>>
  PROVE  AccountsInv'
  <1>1. Identified'
    BY DEF AccountsInv, AccountsTypeOK, AccountsStay, Identified, Exists
  <1>2. \A q \in requests : q.on \in Accounts
    BY DEF AccountsInv, AccountsTypeOK
  <1>3. Referenced'
    BY <1>2 DEF AccountsInv, AccountsStay, Referenced, Exists
  <1>4. Chosen'
    BY <1>2 DEF AccountsInv, AccountsStay, Chosen
  <1>5. ImpersonatesUsersOnly'
    <2>1. \A x \in Sessions : session[x].by # None => session[x].account \in Accounts
      BY DEF AccountsInv, Unused, Referenced, NoSession
    <2> QED
      BY <2>1 DEF AccountsInv, AccountsStay, ImpersonatesUsersOnly
  <1> QED
    BY <1>1, <1>3, <1>4, <1>5 DEF AccountsInv

LEMMA SelectRoleKeepsInv ==
  ASSUME AccountsInv, NEW a \in Accounts, NEW role \in OpenRoles, SelectRole(a, role)
  PROVE  AccountsInv'
  <1>1. /\ account[a].role = "unselected"
        /\ account' = [account EXCEPT ![a].role = role]
        /\ profiles' = [profiles EXCEPT ![a] = @ \cup {role}]
        /\ requests' \subseteq requests
        /\ UNCHANGED <<identity, login, session>>
    BY DEF SelectRole, Finish
  <1>2. /\ account'[a].role = role /\ account'[a].status = account[a].status
        /\ \A b \in Accounts \ {a} : account'[b] = account[b]
        /\ profiles'[a] = profiles[a] \cup {role}
        /\ \A b \in Accounts \ {a} : profiles'[b] = profiles[b]
    BY <1>1 DEF AccountsInv, AccountsTypeOK
  <1>3. AccountsTypeOK'
    BY <1>1 DEF AccountsInv, AccountsTypeOK, Roles
  <1>4. ProfileOfTheRole'
    <2>1. profiles[a] = {}
      BY <1>1 DEF AccountsInv, ProfileOfTheRole, OpenRoles
    <2> QED
      BY <1>2, <2>1 DEF AccountsInv, ProfileOfTheRole
  <1>5. AccountsStay
    BY <1>1, <1>2 DEF AccountsStay, Exists, OpenRoles
  <1>6. Unused' /\ \A b \in Accounts : account'[b].status # "absent" => Exists(b)
    BY <1>1, <1>2 DEF AccountsInv, Unused, Exists
  <1> QED
    BY <1>1, <1>3, <1>4, <1>5, <1>6, ChangesKeepInv

LEMMA StatusKeepsInv ==
  ASSUME AccountsInv, NEW admin \in Admins, NEW a \in Accounts,
         BlockUser(admin, a) \/ UnblockUser(admin, a)
  PROVE  AccountsInv'
  <1> DEFINE closed == [x \in Sessions |->
               IF session[x].account = a /\ session[x].status \in {"open", "expired"}
               THEN [session[x] EXCEPT !.status = "revoked"] ELSE session[x]]
  <1>1. PICK status \in {"active", "blocked"} :
          /\ account' = [account EXCEPT ![a].status = status]
          /\ session' = session \/ session' = closed
          /\ requests' \subseteq requests
          /\ UNCHANGED <<identity, profiles, login>>
    BY DEF BlockUser, UnblockUser, Finish
  <1>2. Exists(a)
    <2>1. \E q \in requests : q.on = a
      BY DEF BlockUser, UnblockUser, Finish, Request
    <2> QED
      BY <2>1 DEF AccountsInv, Referenced
  <1>3. /\ account'[a].status = status /\ account'[a].role = account[a].role
        /\ \A b \in Accounts \ {a} : account'[b] = account[b]
    BY <1>1 DEF AccountsInv, AccountsTypeOK
  <1>4. ASSUME NEW x \in Sessions
        PROVE  /\ session'[x] \in SessionRows
               /\ session'[x] = session[x] \/ session[x].status # "absent"
               /\ session'[x].account = session[x].account
               /\ session'[x].by = session[x].by
               /\ session'[x].status \in {session[x].status, "revoked"}
    <2>1. session[x] \in SessionRows
      BY DEF AccountsInv, AccountsTypeOK, SessionRows
    <2>2. \/ session'[x] = session[x]
          \/ /\ session'[x] = [session[x] EXCEPT !.status = "revoked"]
             /\ session[x].status \in {"open", "expired"}
      BY <1>1
    <2>3. CASE session'[x] = session[x]
      BY <2>1, <2>3
    <2>4. CASE /\ session'[x] = [session[x] EXCEPT !.status = "revoked"]
               /\ session[x].status \in {"open", "expired"}
      <3> DEFINE row == [session[x] EXCEPT !.status = "revoked"]
      <3>1. /\ row \in SessionRows /\ row.status = "revoked"
            /\ row.account = session[x].account /\ row.by = session[x].by
        BY <2>1 DEF SessionRows
      <3> HIDE DEF row
      <3>2. session'[x] = row /\ session[x].status # "absent"
        BY <2>4 DEF row
      <3> QED
        BY <3>1, <3>2
    <2> QED
      BY <2>2, <2>3, <2>4
  <1>5. AccountsTypeOK'
    <2>1. account' \in [Accounts -> AccountRows]
      BY <1>1 DEF AccountsInv, AccountsTypeOK, AccountRows
    <2>2. session' \in [Sessions -> SessionRows]
      BY <1>1, <1>4 DEF AccountsInv, AccountsTypeOK
    <2> QED
      BY <1>1, <2>1, <2>2 DEF AccountsInv, AccountsTypeOK, AccountRows, SessionRows
  <1>6. ProfileOfTheRole'
    BY <1>1, <1>3 DEF AccountsInv, ProfileOfTheRole
  <1>7. Unused'
    BY <1>4 DEF AccountsInv, Unused
  <1>8. AccountsStay /\ \A b \in Accounts : account'[b].status # "absent" => Exists(b)
    BY <1>2, <1>3 DEF AccountsStay, Exists
  <1> QED
    BY <1>1, <1>4, <1>5, <1>6, <1>7, <1>8, ChangesKeepInv

-----------------------------------------------------------------------------
LEMMA InitAccountsInv == Init => AccountsInv
  <1> SUFFICES ASSUME Init PROVE AccountsInv
    OBVIOUS
  <1>1. AccountsTypeOK
    BY IdleIsRow, AccountsAssumption
    DEF Init, AccountsTypeOK, NoAccount, NoSession, LoginRows, Roles
  <1>2. Identified
    BY AccountsAssumption DEF Init, Identified, Exists, NoAccount
  <1>3. Referenced /\ Chosen /\ Unused
    BY DEF Init, Referenced, Chosen, Unused, Idle, NoSession
  <1>4. ProfileOfTheRole /\ ImpersonatesUsersOnly
    BY DEF Init, ProfileOfTheRole, ImpersonatesUsersOnly, NoAccount, NoSession, OpenRoles
  <1> QED
    BY <1>1, <1>2, <1>3, <1>4 DEF AccountsInv

LEMMA NextKeepsAccountsInv ==
  ASSUME AccountsInv, [Next]_vars
  PROVE  AccountsInv'
  <1>1. ASSUME NEW l \in Logins,
               \/ \E s \in Subjects : LoginFinds(l, s) \/ LoginFindsNone(l, s)
               \/ \E a \in Accounts : LoginCreates(l, a)
               \/ LoginConflicts(l)
               \/ LoginFails(l)
               \/ \E x \in Sessions : OpenSession(l, x)
        PROVE  AccountsInv'
    BY <1>1, LoginStepKeepsInv, OpenSessionKeepsInv
  <1>2. ASSUME NEW x \in Sessions,
               RefuseBlocked(x) \/ SessionExpires(x) \/ Logout(x) \/ StopImpersonation(x)
        PROVE  AccountsInv'
    <2>1. PICK status \in {"expired", "revoked"} : MarkSession(x, status)
      BY <1>2 DEF MarkSession, CloseSession, RefuseBlocked, SessionExpires, Logout,
         StopImpersonation
    <2> QED
      BY <2>1, MarkSessionKeepsInv
  <1>3. ASSUME NEW a \in Accounts, NEW role \in OpenRoles, SelectionBegins(a, role)
        PROVE  AccountsInv'
    <2>1. Begin(a, a, role) /\ role \in Operations /\ role # "act"
      BY <1>3 DEF SelectionBegins, Operations, OpenRoles
    <2>2. Exists(a)
      BY <2>1, LetInExists DEF Begin
    <2> QED
      BY <2>1, <2>2, BeginKeepsInv
  <1>4. ASSUME NEW a \in Accounts, NEW role \in OpenRoles, RoleIsSet(a, role)
        PROVE  AccountsInv'
    BY <1>4, DroppedKeepsInv DEF RoleIsSet, Finish
  <1>5. ASSUME NEW admin \in Admins, NEW a \in Accounts,
               \/ \E op \in Operations : AdminBegins(admin, a, op)
               \/ ImpersonationChecked(admin, a)
               \/ ImpersonationRefused(admin, a)
        PROVE  AccountsInv'
    <2>1. admin \in Accounts
      BY AccountsAssumption
    <2>2. CASE ImpersonationChecked(admin, a)
      BY <2>1, <2>2, ImpersonationCheckedKeepsInv
    <2>3. ASSUME NEW op \in Operations, AdminBegins(admin, a, op)
          PROVE  AccountsInv'
      <3>1. Begin(admin, a, op) /\ Exists(a) /\ op # "act"
        BY <2>3 DEF AdminBegins, Exists
      <3> QED
        BY <2>1, <3>1, BeginKeepsInv
    <2>4. CASE ImpersonationRefused(admin, a)
      BY <2>4, DroppedKeepsInv DEF ImpersonationRefused, Finish
    <2> QED
      BY <1>5, <2>2, <2>3, <2>4
  <1>6. CASE UNCHANGED vars
    <2>1. UNCHANGED <<account, identity, profiles, login, session, requests>>
      BY <1>6 DEF vars
    <2>2. AccountsTypeOK'
      BY <2>1 DEF AccountsInv, AccountsTypeOK
    <2> QED
      BY <2>1, <2>2, OthersKeepInv
      DEF AccountsInv, Referenced, Chosen, Unused, ImpersonatesUsersOnly, Exists
  <1> QED
    BY <1>1, <1>2, <1>3, <1>4, <1>5, <1>6, SelectRoleKeepsInv, StatusKeepsInv,
       ImpersonateUserKeepsInv DEF Next

THEOREM AccountsInvariant == Spec => []AccountsInv
  <1>1. Init => AccountsInv
    BY InitAccountsInv
  <1>2. AccountsInv /\ [Next]_vars => AccountsInv'
    BY NextKeepsAccountsInv
  <1> QED
    BY <1>1, <1>2, PTL DEF Spec

(* Every account is of exactly one person, however many first logins race, *)
(* and no account is left over.                                            *)
THEOREM EveryoneHasOneAccount == Spec => []OneAccountPerPerson
  <1>1. AccountsInv => OneAccountPerPerson
    <2> SUFFICES ASSUME AccountsInv, NEW a \in Accounts, account[a].status # "absent"
                 PROVE  Cardinality({s \in Subjects : identity[s] = a}) = 1
      BY DEF AccountsInv, OneAccountPerPerson
    <2>1. PICK s \in Subjects : identity[s] = a
      BY DEF AccountsInv, Identified, Exists
    <2>2. {t \in Subjects : identity[t] = a} = {s}
      BY <2>1, AccountsAssumption DEF AccountsInv, Identified
    <2> QED
      BY <2>2, FS_Singleton
  <1> QED
    BY <1>1, AccountsInvariant, PTL

(* An account has the profile of its role and no other.                    *)
THEOREM ProfilesFollowRoles == Spec => []ProfileOfTheRole
  <1>1. AccountsInv => ProfileOfTheRole
    BY DEF AccountsInv
  <1> QED
    BY <1>1, AccountsInvariant, PTL

(* Administrators act for people with a role only, never for each other.   *)
THEOREM OnlyUsersAreImpersonated == Spec => []ImpersonatesUsersOnly
  <1>1. AccountsInv => ImpersonatesUsersOnly
    BY DEF AccountsInv
  <1> QED
    BY <1>1, AccountsInvariant, PTL

-----------------------------------------------------------------------------
(* Guardianship.                                                           *)

(* uq_guardian_links_active_slot and unique (parent_id, student_id).       *)
LinksDiffer ==
  \A k, m \in links :
    k.child = m.child /\ (k.slot = m.slot \/ k.parent = m.parent) => k = m

(* The row lock of a claim keeps its invite active.                        *)
InvitesKept ==
  \A i \in Invites : /\ invite[i].status # "absent" => invite[i].parent \in Parents
                     /\ Held(i) => invite[i].status = "active"

GuardianshipInv == GuardianshipTypeOK /\ InvitesKept /\ LinksDiffer /\ LinkedByInvite

LEMMA InitGuardianshipInv == GuardianshipInit => GuardianshipInv
  BY DEF GuardianshipInit, GuardianshipInv, GuardianshipTypeOK, InvitesKept, LinksDiffer,
         LinkedByInvite, NoInvite, NoClaim, Slots, Held

(* The four ways in which the tables change: an invite that is no claimed  *)
(* one changes its status, a claim begins, an invite is used up, and a     *)
(* link is inserted.                                                       *)
LEMMA InviteChangesKeepInv ==
  ASSUME GuardianshipInv, NEW i \in Invites, ~Held(i),
         invite[i].status \in {"absent", "active"}, GuardianshipTypeOK',
         invite'[i].status \in {"active", "revoked"}, invite'[i].parent \in Parents,
         \A j \in Invites \ {i} : invite'[j] = invite[j],
         UNCHANGED <<links, claim>>
  PROVE  GuardianshipInv'
  <1>2. InvitesKept'
    BY DEF GuardianshipInv, InvitesKept, Held
  <1>3. LinksDiffer'
    BY DEF GuardianshipInv, LinksDiffer
  <1>4. LinkedByInvite'
    BY DEF GuardianshipInv, GuardianshipTypeOK, LinkedByInvite, Linked, LinksOf
  <1> QED
    BY <1>2, <1>3, <1>4 DEF GuardianshipInv

LEMMA ClaimsEndKeepInv ==
  ASSUME GuardianshipInv, NEW i \in Invites, ClaimFails(i)
  PROVE  GuardianshipInv'
  <1>1. GuardianshipTypeOK'
    BY DEF GuardianshipInv, GuardianshipTypeOK, ClaimFails, NoClaim, Slots
  <1>2. InvitesKept'
    BY DEF GuardianshipInv, GuardianshipTypeOK, InvitesKept, ClaimFails, Held, NoClaim
  <1>3. LinksDiffer' /\ LinkedByInvite'
    BY DEF GuardianshipInv, LinksDiffer, LinkedByInvite, ClaimFails, Linked, LinksOf
  <1> QED
    BY <1>1, <1>2, <1>3 DEF GuardianshipInv

LEMMA ClaimReadsKeepsInv ==
  ASSUME GuardianshipInv, NEW i \in Invites, NEW child \in Children,
         ClaimReads(i, child)
  PROVE  GuardianshipInv'
  <1>1. GuardianshipTypeOK'
    BY DEF GuardianshipInv, GuardianshipTypeOK, ClaimReads, Slots
  <1>2. InvitesKept'
    BY DEF GuardianshipInv, GuardianshipTypeOK, InvitesKept, ClaimReads, Held
  <1>3. LinksDiffer' /\ LinkedByInvite'
    BY DEF GuardianshipInv, LinksDiffer, LinkedByInvite, ClaimReads, Linked, LinksOf
  <1> QED
    BY <1>1, <1>2, <1>3 DEF GuardianshipInv

LEMMA ClaimAgainKeepsInv ==
  ASSUME GuardianshipInv, NEW i \in Invites, NEW child \in Children,
         ClaimAgain(i, child)
  PROVE  GuardianshipInv'
  <1>1. GuardianshipTypeOK'
    BY ZenonT(40) DEF GuardianshipInv, GuardianshipTypeOK, ClaimAgain, Claimed
  <1>2. InvitesKept'
    BY DEF GuardianshipInv, GuardianshipTypeOK, InvitesKept, ClaimAgain, Claimed, Held
  <1>3. LinksDiffer'
    BY DEF GuardianshipInv, LinksDiffer, ClaimAgain
  <1>4. /\ invite'[i].status = "claimed" /\ invite'[i].child = child
        /\ invite'[i].parent = invite[i].parent
        /\ \A j \in Invites : j # i => invite'[j] = invite[j]
        /\ invite[i].status = "active" /\ links' = links
    BY DEF ClaimAgain, Claimed, GuardianshipInv, GuardianshipTypeOK
  <1>6. \E k \in links : k.child = child /\ k.parent = invite[i].parent
    BY DEF ClaimAgain, Linked, LinksOf
  <1>7. \A k \in links : k.invite \in Invites /\ k.invite # i
    BY <1>4 DEF GuardianshipInv, GuardianshipTypeOK, LinkedByInvite
  <1>8. LinkedByInvite'
    <2>1. ASSUME NEW j \in Invites, invite'[j].status = "claimed"
          PROVE  \E k \in links : /\ k.child = invite'[j].child
                                 /\ k.parent = invite'[j].parent
      <3>1. CASE j = i
        BY <3>1, <1>4, <1>6
      <3>2. CASE j # i
        BY <3>2, <2>1, <1>4 DEF GuardianshipInv, LinkedByInvite, Linked, LinksOf
      <3> QED
        BY <3>1, <3>2
    <2>2. \A k \in links : /\ invite'[k.invite].status = "claimed"
                           /\ invite'[k.invite].parent = k.parent
                           /\ invite'[k.invite].child = k.child
      BY <1>4, <1>7 DEF GuardianshipInv, LinkedByInvite
    <2> QED
      BY <1>4, <2>1, <2>2 DEF GuardianshipInv, LinkedByInvite, Linked, LinksOf
  <1> QED
    BY <1>1, <1>2, <1>3, <1>8 DEF GuardianshipInv

LEMMA ClaimLinksKeepsInv ==
  ASSUME GuardianshipInv, NEW i \in Invites, ClaimLinks(i)
  PROVE  GuardianshipInv'
  <1> DEFINE new == [parent |-> invite[i].parent, child |-> claim[i].child,
                     slot |-> claim[i].slot, invite |-> i]
  <1>1. /\ links' = links \cup {new}
        /\ invite[i].status = "active" /\ invite[i].parent \in Parents
        /\ claim[i].child \in Children /\ claim[i].slot \in Slots
    BY DEF ClaimLinks, GuardianshipInv, GuardianshipTypeOK, InvitesKept, Held
  <1>2. GuardianshipTypeOK'
    <2>1. invite' \in [Invites -> [status : {"absent", "active", "claimed", "revoked"},
                                   parent : Parents \cup {Nobody},
                                   child : Children \cup {Nobody}, late : BOOLEAN]]
      <3>1. invite' = [invite EXCEPT ![i].status = "claimed", ![i].child = claim[i].child]
        BY DEF ClaimLinks, Claimed
      <3>2. [invite[i] EXCEPT !.status = "claimed", !.child = claim[i].child]
              \in [status : {"absent", "active", "claimed", "revoked"},
                   parent : Parents \cup {Nobody},
                   child : Children \cup {Nobody}, late : BOOLEAN]
        BY <1>1 DEF GuardianshipInv, GuardianshipTypeOK
      <3> QED
        BY <3>1, <3>2 DEF GuardianshipInv, GuardianshipTypeOK
    <2>2. claim' \in [Invites -> [child : Children \cup {Nobody}, slot : Slots]]
      BY DEF GuardianshipInv, GuardianshipTypeOK, ClaimLinks, NoClaim, Slots
    <2>3. new \in [parent : Parents, child : Children, slot : Slots, invite : Invites]
      BY <1>1
    <2> QED
      BY <1>1, <2>1, <2>2, <2>3 DEF GuardianshipInv, GuardianshipTypeOK
  <1>3. InvitesKept'
    BY <1>1 DEF GuardianshipInv, GuardianshipTypeOK, InvitesKept, ClaimLinks, Claimed,
                Held, NoClaim
  <1>4. LinksDiffer'
    <2>1. \A k \in links : k.child = new.child =>
            k.slot # new.slot /\ k.parent # new.parent
      BY DEF ClaimLinks, Taken, LinksOf
    <2> QED
      BY <1>1, <2>1 DEF GuardianshipInv, LinksDiffer
  <1>5. LinkedByInvite'
    <2>1. \A k \in links : k.invite # i
      BY <1>1 DEF GuardianshipInv, LinkedByInvite
    <2>2. /\ invite'[i].status = "claimed" /\ invite'[i].parent = new.parent
          /\ invite'[i].child = new.child
          /\ \A j \in Invites : j # i => invite'[j] = invite[j]
      BY DEF ClaimLinks, Claimed, GuardianshipInv, GuardianshipTypeOK
    <2>5. \A k \in links' : /\ invite'[k.invite].status = "claimed"
                            /\ invite'[k.invite].parent = k.parent
                            /\ invite'[k.invite].child = k.child
      BY <1>1, <2>1, <2>2 DEF GuardianshipInv, GuardianshipTypeOK, LinkedByInvite
    <2>6. \A k, m \in links' : k.invite = m.invite => k = m
      BY <1>1, <2>1 DEF GuardianshipInv, LinkedByInvite
    <2>7. ASSUME NEW j \in Invites, invite'[j].status = "claimed"
          PROVE  \E k \in links' : /\ k.child = invite'[j].child
                                  /\ k.parent = invite'[j].parent
      <3>1. CASE j = i
        BY <3>1, <1>1, <2>2
      <3>2. CASE j # i
        BY <3>2, <2>7, <1>1, <2>2 DEF GuardianshipInv, LinkedByInvite, Linked, LinksOf
      <3> QED
        BY <3>1, <3>2
    <2> QED
      BY <2>5, <2>6, <2>7 DEF LinkedByInvite, Linked, LinksOf
  <1> QED
    BY <1>2, <1>3, <1>4, <1>5 DEF GuardianshipInv

LEMMA NextKeepsGuardianshipInv ==
  ASSUME GuardianshipInv, [GuardianshipNext]_guardianshipVars
  PROVE  GuardianshipInv'
  <1> USE DEF GuardianshipInv
  <1>1. ASSUME NEW i \in Invites, NEW p \in Parents, CreateInvite(i, p)
        PROVE  GuardianshipInv'
    <2>1. invite[i].status = "absent" /\ ~Held(i)
      BY <1>1 DEF CreateInvite, InvitesKept
    <2>2. GuardianshipTypeOK'
      BY <1>1, ZenonT(40) DEF CreateInvite, GuardianshipTypeOK
    <2>3. /\ invite'[i].status = "active" /\ invite'[i].parent = p
          /\ \A j \in Invites \ {i} : invite'[j] = invite[j]
          /\ UNCHANGED <<links, claim>>
      BY <1>1 DEF CreateInvite, GuardianshipTypeOK
    <2> QED
      BY <2>1, <2>2, <2>3, InviteChangesKeepInv
  <1>2. ASSUME NEW i \in Invites, InviteGrowsOld(i)
        PROVE  GuardianshipInv'
    <2>1. GuardianshipTypeOK'
      BY <1>2 DEF InviteGrowsOld, GuardianshipTypeOK
    <2>2. InvitesKept' /\ LinksDiffer' /\ LinkedByInvite'
      BY <1>2 DEF InviteGrowsOld, GuardianshipTypeOK, InvitesKept, LinksDiffer,
                  LinkedByInvite, Held, Linked, LinksOf
    <2> QED
      BY <2>1, <2>2
  <1>3. ASSUME NEW i \in Invites, RevokeInvite(i)
        PROVE  GuardianshipInv'
    <2>1. /\ invite[i].status = "active" /\ ~Held(i)
          /\ invite[i].parent \in Parents
      BY <1>3 DEF RevokeInvite, InvitesKept
    <2>2. GuardianshipTypeOK'
      BY <1>3 DEF RevokeInvite, GuardianshipTypeOK
    <2>3. /\ invite'[i].status = "revoked" /\ invite'[i].parent = invite[i].parent
          /\ \A j \in Invites \ {i} : invite'[j] = invite[j]
          /\ UNCHANGED <<links, claim>>
      BY <1>3 DEF RevokeInvite, GuardianshipTypeOK
    <2> QED
      BY <2>1, <2>2, <2>3, InviteChangesKeepInv
  <1>4. CASE UNCHANGED guardianshipVars
    BY <1>4 DEF guardianshipVars, GuardianshipTypeOK, InvitesKept, LinksDiffer, LinkedByInvite,
                Held, Linked, LinksOf
  <1> QED
    BY <1>1, <1>2, <1>3, <1>4, ClaimAgainKeepsInv, ClaimReadsKeepsInv,
       ClaimLinksKeepsInv, ClaimsEndKeepInv DEF GuardianshipNext

(* Two slots and no two links of a child in one of them.                   *)
LEMMA SlotsBoundLinks ==
  ASSUME GuardianshipTypeOK, LinksDiffer, NEW child \in Children
  PROVE  Cardinality(LinksOf(child)) <= 2
  <1> DEFINE slotOf == [k \in LinksOf(child) |-> k.slot]
  <1>1. slotOf \in Injection(LinksOf(child), 1..2)
    BY DEF GuardianshipTypeOK, LinksDiffer, LinksOf, Slots, Injection, IsInjective
  <1>2. IsFiniteSet(1..2) /\ Cardinality(1..2) = 2
    <2>1. \A a, b \in Int : /\ IsFiniteSet(a..b)
                            /\ Cardinality(a..b) = IF a > b THEN 0 ELSE b - a + 1
      BY FS_Interval
    <2>2. 1 \in Int /\ 2 \in Int
      OBVIOUS
    <2>3. IsFiniteSet(1..2) /\ Cardinality(1..2) = IF 1 > 2 THEN 0 ELSE 2 - 1 + 1
      BY <2>1, <2>2, Zenon
    <2> QED
      BY <2>3
  <1> QED
    BY <1>1, <1>2, FS_Injection

-----------------------------------------------------------------------------
(* What holds of every family.                                             *)

(* The inductive invariant of guardianship holds in every state that       *)
(* invitations, revocations and claims in any order can reach.             *)
THEOREM GuardianshipInvariant == GuardianshipSpec => []GuardianshipInv
  <1>1. GuardianshipInit => GuardianshipInv
    BY InitGuardianshipInv
  <1>2. GuardianshipInv /\ [GuardianshipNext]_guardianshipVars => GuardianshipInv'
    BY NextKeepsGuardianshipInv
  <1> QED
    BY <1>1, <1>2, PTL DEF GuardianshipSpec

(* A child never has more than two parents, nor one of them twice, though  *)
(* claims choose their slot before they insert (ClaimInvite).              *)
THEOREM NoThirdParent == GuardianshipSpec => []AtMostTwoParents
  <1>1. GuardianshipInv => AtMostTwoParents
    BY SlotsBoundLinks DEF GuardianshipInv, AtMostTwoParents, LinksDiffer, LinksOf
  <1> QED
    BY <1>1, GuardianshipInvariant, PTL

(* Every link is owed to one claimed invite, and every claimed invite led  *)
(* to a link, however claims repeat and fail (ClaimInvite, finishClaim).   *)
THEOREM LinksAreOwedToInvites == GuardianshipSpec => []LinkedByInvite
  <1>1. GuardianshipInv => LinkedByInvite
    BY DEF GuardianshipInv
  <1> QED
    BY <1>1, GuardianshipInvariant, PTL

(* The tables and the claims in progress keep their types.                 *)
THEOREM GuardianshipTypesKept == GuardianshipSpec => []GuardianshipTypeOK
  <1>1. GuardianshipInv => GuardianshipTypeOK
    BY DEF GuardianshipInv
  <1> QED
    BY <1>1, GuardianshipInvariant, PTL
=============================================================================
