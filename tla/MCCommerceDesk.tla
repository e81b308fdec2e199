--------------------------- MODULE MCCommerceDesk ---------------------------
(* The platform product and a course, an offer of the course, one student; *)
(* two orders and two references.  A tab works on its own table, so the    *)
(* tabs are visited one by one, and the back office without the page.      *)
EXTENDS CommerceDesk, TLC

CONSTANTS s1, f1, o1, o2, a1, a2, platform, algebra, l1, l2

MCTargets == {platform, algebra}
MCCourseOf == [t \in MCTargets |-> t]
MCOfferTarget == f1 :> algebra
MCFreeCounts == {-1, 0, 1}
Symmetry == Permutations({o1, o2}) \cup Permutations({l1, l2})

Idle == /\ rows = Loading /\ form = Nothing /\ calls = {} /\ tab = "offers"
        /\ Cardinality(fetching) = 1 /\ \A l \in fetching : l.rows = Loading
On(t, ops) == Idle \/ (tab = t /\ \A c \in calls : c.ask.op \in ops)
FewCalls == Cardinality(calls) <= 2
OneCall == Cardinality(calls) <= 1
NoOrders == \A o \in Orders : order[o].status = "absent"
OnePrice(p) == /\ \A f \in Offers : offer[f].price = p
               /\ \A o \in Orders : order[o].amount = p
NoOffers == \A f \in Offers : offer[f].status = "absent"

BackOffice == Idle /\ live = Targets /\ \A f \in Offers : offer[f].status # "reopening"

SellingOffers ==
  /\ On("offers", {"createOffer", "updateOffer", "archiveOffer"})
  /\ NoOrders /\ openReqs = {} /\ ents = {} /\ OneCall

AnsweringRequests ==
  /\ On("requests", {"decline", "orderRequest"})
  /\ OnePrice(1) /\ ents = {} /\ live = Targets /\ FewCalls
  /\ \A f \in Offers : offer[f].status \in {"absent", "active", "draft"}

Confirming ==
  /\ On("orders", {"orderManually", "confirm"})
  /\ OnePrice(1) /\ openReqs = {} /\ live = Targets
  /\ FewCalls /\ Cardinality({c \in calls : c.live}) <= 1
  /\ \A c \in calls : ~c.live => c.ask.op = "confirm" /\ ~c.ask.override
  /\ \A f \in Offers : /\ offer[f].status \in {"absent", "draft", "active"}
                       /\ offer[f].status # "absent" => vetted = {}
                       /\ offer[f].status = "active" \/ NoOrders
  /\ \A e \in ents : e.order # NoOrder

Granting ==
  /\ On("entitlements", {"grant", "revoke"})
  /\ NoOffers /\ OneCall /\ live = Targets
  /\ \A e \in ents : e.target = algebra

FreeLessons == On("free", {"free"}) /\ NoOffers /\ ents = {} /\ FewCalls

OneTabAtATime ==
  BackOffice \/ SellingOffers \/ AnsweringRequests \/ Confirming \/ Granting \/ FreeLessons
=============================================================================
