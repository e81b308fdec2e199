--------------------------- MODULE MCOnlineBilling --------------------------
(* Online billing on small instances with one student.                     *)
EXTENDS OnlineBilling, TLC

CONSTANTS s1, f1, o1, o2, a1, p1, p2, c1, c2

PlatformOnly == {"platform"}
PlatformCourseOf == [t \in PlatformOnly |-> t]
PlatformOffer == f1 :> "platform"

MCSymmetry == Permutations({o1, o2}) \cup Permutations({p1, p2})
                \cup Permutations({c1, c2})

(* The offers are on sale from the start.                                  *)
OnSale == [f \in Offers |-> [status |-> "active", price |-> CHOOSE p \in Prices : TRUE]]

MCInit ==
  /\ live = Targets /\ vetted = {} /\ offer = OnSale /\ openReqs = {}
  /\ order = [o \in Orders |-> NoOrderRow]
  /\ payments = {} /\ log = {} /\ ents = {}
  /\ BillingInit

MCSpec == MCInit /\ [][Next]_vars
MCFairSpec == MCInit /\ [][Next]_vars /\ Fairness

(* Bounds on what the back office does in a run.                           *)
FewEntitlements == Cardinality(ents) <= 2

Listed == {o \in Orders : order[o].status # "absent"}
Asked == {p \in PaymentIds : provider[p].status # "absent"}
Busy == {c \in Callers : checkout[c].phase # "idle"}
Amounts == {offer[f].price : f \in Offers} \cup {order[o].amount : o \in Listed}
             \cup {provider[p].amount : p \in Asked} \cup {r.amount : r \in payments}

(* Two checkouts of one order: the administrator changes prices, or orders *)
(* grow old, but nothing is granted and no offer is closed.                *)
CheckoutsOnly ==
  /\ openReqs = {} /\ vetted = {}
  /\ Cardinality(Listed) <= 1
  /\ \A r \in payments : r.ref \notin AdminRefs
  /\ \A e \in ents : e.order # NoOrder
  /\ \A f \in Offers : offer[f].status = "active"
  /\ overdue = {} \/ Amounts = {1}

(* One checkout at a time, of one price and with one payment, among all    *)
(* that the back office can do.                                            *)
BackOfficeRaces ==
  /\ FewEntitlements
  /\ Cardinality(Asked) <= 1 /\ Cardinality(Busy) <= 1 /\ Amounts = {1}
  /\ openReqs = {} /\ \A f \in Offers : offer[f].status \in {"active", "archived"}

CheckoutsOrRaces == CheckoutsOnly \/ BackOfficeRaces
=============================================================================
