---------------------------- MODULE Guardianship ----------------------------
(***************************************************************************)
(* Invitations that link parents to their children                         *)
(* (backend/internal/guardianship/service.go).                             *)
(*                                                                         *)
(* A claim is one transaction that holds the invite's row lock.  It reads  *)
(* the student's links and chooses a slot (ClaimReads), then inserts a     *)
(* link with that slot (ClaimLinks); claims with the student's other       *)
(* invites run in between, and two unique indexes have the last word.  The *)
(* locks it takes on the links it finds only order such claims: here they  *)
(* go on in any order.                                                     *)
(***************************************************************************)
EXTENDS Integers, FiniteSets

CONSTANTS
  Parents,
  Children,  \* accounts of students
  Invites,   \* invite ids
  Nobody

ASSUME GuardianshipAssumption == Nobody \notin Children \cup Parents

VARIABLES
  invite,  \* guardian_link_invites
  links,   \* guardian_links
  claim    \* the claim that holds an invite: its student and the slot it chose

guardianshipVars == <<invite, links, claim>>

Slots == {1, 2}
NoInvite == [status |-> "absent", parent |-> Nobody, child |-> Nobody, late |-> FALSE]
NoClaim == [child |-> Nobody, slot |-> 1]

GuardianshipTypeOK ==
  /\ invite \in [Invites -> [status : {"absent", "active", "claimed", "revoked"},
                             parent : Parents \cup {Nobody},
                             child : Children \cup {Nobody}, late : BOOLEAN]]
  /\ links \subseteq [parent : Parents, child : Children, slot : Slots, invite : Invites]
  /\ claim \in [Invites -> [child : Children \cup {Nobody}, slot : Slots]]

GuardianshipInit ==
  /\ invite = [i \in Invites |-> NoInvite]
  /\ links = {}
  /\ claim = [i \in Invites |-> NoClaim]

LinksOf(child) == {k \in links : k.child = child}
Linked(p, child) == \E k \in LinksOf(child) : k.parent = p
Held(i) == claim[i].child # Nobody

-----------------------------------------------------------------------------
(* Invites.                                                                *)

CreateInvite(i, p) ==
  /\ invite[i].status = "absent"
  /\ invite' = [invite EXCEPT ![i].status = "active", ![i].parent = p]
  /\ UNCHANGED <<links, claim>>

(* Seven days have passed.                                                 *)
InviteGrowsOld(i) ==
  /\ invite[i].status = "active" /\ ~invite[i].late
  /\ invite' = [invite EXCEPT ![i].late = TRUE]
  /\ UNCHANGED <<links, claim>>

RevokeInvite(i) ==
  /\ ~Held(i)
  /\ invite[i].status = "active"
  /\ invite' = [invite EXCEPT ![i].status = "revoked"]
  /\ UNCHANGED <<links, claim>>

-----------------------------------------------------------------------------
(* Claims.                                                                 *)

Claimed(i, child) ==
  invite' = [invite EXCEPT ![i].status = "claimed", ![i].child = child]

(* The parent is linked to the student already: the invite is used up.     *)
ClaimAgain(i, child) ==
  /\ ~Held(i)
  /\ invite[i].status = "active" /\ ~invite[i].late
  /\ Linked(invite[i].parent, child)
  /\ Claimed(i, child)
  /\ UNCHANGED <<links, claim>>

(* A claim that finds two parents is refused.                              *)
ClaimReads(i, child) ==
  /\ ~Held(i)
  /\ invite[i].status = "active" /\ ~invite[i].late
  /\ ~Linked(invite[i].parent, child)
  /\ Cardinality({k.slot : k \in LinksOf(child)}) < 2
  /\ claim' = [claim EXCEPT ![i] =
       [child |-> child, slot |-> IF \E k \in LinksOf(child) : k.slot = 1 THEN 2 ELSE 1]]
  /\ UNCHANGED <<invite, links>>

(* Mutant: without uq_guardian_links_active_slot.                          *)
TakenByParent(i) ==
  \E k \in LinksOf(claim[i].child) : k.parent = invite[i].parent

(* uq_guardian_links_active_slot and unique (parent_id, student_id).       *)
Taken(i) ==
  \E k \in LinksOf(claim[i].child) :
    k.slot = claim[i].slot \/ k.parent = invite[i].parent

(* Mutant: the invite stays active.                                        *)
ClaimLinksOnly(i) ==
  /\ Held(i)
  /\ ~Taken(i)
  /\ links' = links \cup {[parent |-> invite[i].parent, child |-> claim[i].child,
                           slot |-> claim[i].slot, invite |-> i]}
  /\ claim' = [claim EXCEPT ![i] = NoClaim]
  /\ UNCHANGED invite

ClaimLinks(i) ==
  /\ Held(i)
  /\ ~Taken(i)
  /\ links' = links \cup {[parent |-> invite[i].parent, child |-> claim[i].child,
                           slot |-> claim[i].slot, invite |-> i]}
  /\ Claimed(i, claim[i].child)
  /\ claim' = [claim EXCEPT ![i] = NoClaim]

(* ErrGuardianLimitReached, though a slot may be free, or another error.   *)
ClaimFails(i) ==
  /\ Held(i)
  /\ claim' = [claim EXCEPT ![i] = NoClaim]
  /\ UNCHANGED <<invite, links>>

GuardianshipNext ==
  \E i \in Invites :
    \/ \E p \in Parents : CreateInvite(i, p)
    \/ InviteGrowsOld(i)
    \/ RevokeInvite(i)
    \/ \E child \in Children : ClaimAgain(i, child) \/ ClaimReads(i, child)
    \/ ClaimLinks(i)
    \/ ClaimFails(i)

GuardianshipSpec == GuardianshipInit /\ [][GuardianshipNext]_guardianshipVars

-----------------------------------------------------------------------------
(* Properties.                                                             *)

(* A child has two parents at most, different ones, whatever claims with   *)
(* different invites read before the others inserted.                      *)
AtMostTwoParents ==
  \A child \in Children :
    /\ Cardinality(LinksOf(child)) <= 2
    /\ \A k, m \in LinksOf(child) : k.parent = m.parent => k = m

(* A link is owed to an invite of that parent which that child claimed,    *)
(* and an invite makes one link at most: revoking, claiming again and      *)
(* claims that fail halfway leave the two tables agreeing.                 *)
LinkedByInvite ==
  /\ \A k \in links : /\ invite[k.invite].status = "claimed"
                      /\ invite[k.invite].parent = k.parent
                      /\ invite[k.invite].child = k.child
  /\ \A k, m \in links : k.invite = m.invite => k = m
  /\ \A i \in Invites : invite[i].status = "claimed"
                          => Linked(invite[i].parent, invite[i].child)
=============================================================================
