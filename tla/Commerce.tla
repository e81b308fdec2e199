------------------------------ MODULE Commerce ------------------------------
(***************************************************************************)
(* The commerce back office: offers, purchase requests, orders, payment    *)
(* records and entitlements (backend/internal/commerce/service.go).        *)
(*                                                                         *)
(* Every handler runs one PostgreSQL transaction that locks the rows it    *)
(* decides on (SELECT ... FOR UPDATE) and relies on partial unique indexes *)
(* for the rest, so one action is one committed transaction; a transaction *)
(* that returns an error is rolled back and is a stuttering step.          *)
(*                                                                         *)
(* A target is what is sold: the whole platform, a course, or a lesson.    *)
(* Titles, descriptions and currencies are abstracted away; an amount is a *)
(* member of Prices.                                                       *)
(***************************************************************************)
EXTENDS Integers, FiniteSets

CONSTANTS
  Students,     \* student accounts
  Offers,       \* offer ids
  Orders,       \* order ids
  Targets,      \* things that can be sold
  Platform,     \* the platform-wide product
  CourseOf,     \* the course of a lesson; a course or the platform itself
  OfferTarget,  \* what an offer sells
  Prices,       \* amounts in minor units
  AdminRefs,    \* external references an administrator types in
  PaymentIds,   \* references that come from the payment provider
  NoOrder       \* the order of a complimentary entitlement

ASSUME TargetAssumption ==
  /\ Platform \in Targets
  /\ CourseOf \in [Targets -> Targets]
  /\ CourseOf[Platform] = Platform
  /\ OfferTarget \in [Offers -> Targets]

ASSUME IdAssumption ==
  /\ Students # {}
  /\ Prices \subseteq Nat \ {0}
  /\ Prices # {}
  /\ AdminRefs \cap PaymentIds = {}
  /\ NoOrder \notin Orders

VARIABLES
  live,       \* targets that are published and not deleted (courses)
  vetted,     \* targets some running handler has validated
  offer,      \* commercial_offers
  openReqs,   \* open purchase_requests, as <<student, offer>>
  order,      \* commercial_orders
  payments,   \* payment_records
  log,        \* entitlement_fulfillment_log
  ents        \* entitlements

commerceVars == <<live, vetted, offer, openReqs, order, payments, log, ents>>

Refs == AdminRefs \cup PaymentIds

Entitlements == [student : Students, target : Targets,
                 order : Orders \cup {NoOrder}, status : {"active", "revoked"}]

TypeOK ==
  /\ live \subseteq Targets
  /\ vetted \subseteq Targets
  /\ offer \in [Offers -> [status : {"absent", "draft", "active", "archived",
                                     "reopening"}, price : Prices]]
  /\ openReqs \subseteq Students \X Offers
  /\ order \in [Orders -> [status : {"absent", "awaiting", "fulfilled", "canceled"},
                           student : Students, target : Targets, amount : Prices]]
  /\ payments \subseteq [order : Orders, ref : Refs, amount : Prices]
  /\ log \subseteq Orders \X Refs
  /\ ents \subseteq Entitlements

(* What the fields of a row that is not there yet hold does not matter.    *)
NoOfferRow == [status |-> "absent", price |-> CHOOSE p \in Prices : TRUE]
NoOrderRow == [status |-> "absent", student |-> CHOOSE s \in Students : TRUE,
               target |-> Platform, amount |-> CHOOSE p \in Prices : TRUE]

CommerceInit ==
  /\ live = Targets
  /\ vetted = {}
  /\ offer = [f \in Offers |-> NoOfferRow]
  /\ openReqs = {}
  /\ order = [o \in Orders |-> NoOrderRow]
  /\ payments = {}
  /\ log = {}
  /\ ents = {}

-----------------------------------------------------------------------------
(* Reading the tables.                                                     *)

(* Access to u gives access to t.                                          *)
Covers(u, t) == u \in {Platform, t, CourseOf[t]}

ActiveEnt(s, t) ==
  \E e \in ents : e.student = s /\ e.target = t /\ e.status = "active"

HasAccess(s, t) ==
  \E e \in ents : e.student = s /\ e.status = "active" /\ Covers(e.target, t)

Awaiting(o, s, t) ==
  order[o].status = "awaiting" /\ order[o].student = s /\ order[o].target = t

OtherActiveOffer(f) ==
  \E g \in Offers \ {f} : offer[g].status = "active" /\ OfferTarget[g] = OfferTarget[f]

-----------------------------------------------------------------------------
(* Offers and requests.                                                    *)

(* validateOfferTarget runs in a transaction of its own, so the course may *)
(* be archived before the handler's second transaction uses the result.    *)
(* The platform product has nothing to validate.                           *)
Validated(t) == t = Platform \/ t \in vetted

ValidateOfferTarget(t) ==
  /\ t \in live \ {Platform}
  /\ vetted' = vetted \cup {t}
  /\ UNCHANGED <<live, offer, openReqs, order, payments, log, ents>>

CreateOffer(f, price) ==
  /\ offer[f].status = "absent"
  /\ Validated(OfferTarget[f])
  /\ vetted' = vetted \ {OfferTarget[f]}
  /\ offer' = [offer EXCEPT ![f] = [status |-> "draft", price |-> price]]
  /\ UNCHANGED <<live, openReqs, order, payments, log, ents>>

(* Any status may follow any other; only an activation looks at the target *)
(* again, and one active offer per target is a unique index.  The offer's  *)
(* row is locked, and an archiving course waits for the lock, unless the   *)
(* offer is archived already: then the target may go between the look and  *)
(* the commit (BeginReactivation, Reactivate).                             *)
UpdateOffer(f, status, price) ==
  /\ offer[f].status \in {"draft", "active", "archived"}
  /\ status = "active" => /\ offer[f].status # "archived"
                         /\ ~OtherActiveOffer(f)
  /\ status = "active" /\ offer[f].status = "draft" => OfferTarget[f] \in live
  /\ offer' = [offer EXCEPT ![f] = [status |-> status, price |-> price]]
  /\ UNCHANGED <<live, vetted, openReqs, order, payments, log, ents>>

(* "reopening" is an archived offer for everyone but its UpdateOffer, which *)
(* holds the row lock and has found the target valid.                      *)
BeginReactivation(f) ==
  /\ offer[f].status = "archived"
  /\ OfferTarget[f] \in live
  /\ offer' = [offer EXCEPT ![f].status = "reopening"]
  /\ UNCHANGED <<live, vetted, openReqs, order, payments, log, ents>>

Reactivate(f, price) ==
  /\ offer[f].status = "reopening"
  /\ ~OtherActiveOffer(f)
  /\ offer' = [offer EXCEPT ![f] = [status |-> "active", price |-> price]]
  /\ UNCHANGED <<live, vetted, openReqs, order, payments, log, ents>>

(* The unique index refuses it, or the connection is lost.                 *)
ReactivationFails(f) ==
  /\ offer[f].status = "reopening"
  /\ offer' = [offer EXCEPT ![f].status = "archived"]
  /\ UNCHANGED <<live, vetted, openReqs, order, payments, log, ents>>

(* courses.AdminArchiveCourse: the course goes and, of its offers, those   *)
(* whose last committed status is not archived.                            *)
AdminArchiveCourse(k) ==
  /\ k \in live \ {Platform}
  /\ CourseOf[k] = k
  /\ live' = {t \in live : CourseOf[t] # k}
  /\ offer' = [f \in Offers |->
       IF CourseOf[OfferTarget[f]] = k /\ offer[f].status \in {"draft", "active"}
       THEN [offer[f] EXCEPT !.status = "archived"] ELSE offer[f]]
  /\ UNCHANGED <<vetted, openReqs, order, payments, log, ents>>

CreatePurchaseRequest(s, f) ==
  /\ offer[f].status = "active"
  /\ <<s, f>> \notin openReqs
  /\ openReqs' = openReqs \cup {<<s, f>>}
  /\ UNCHANGED <<live, vetted, offer, order, payments, log, ents>>

DeclinePurchaseRequest(s, f) ==
  /\ <<s, f>> \in openReqs
  /\ openReqs' = openReqs \ {<<s, f>>}
  /\ UNCHANGED <<live, vetted, offer, order, payments, log, ents>>

-----------------------------------------------------------------------------
(* Orders.                                                                 *)

(* The order row the handlers insert: target and price are a snapshot of   *)
(* the offer.  At most one awaiting order per student and target.          *)
InsertOrder(o, s, f) ==
  /\ order[o].status = "absent"
  /\ \A q \in Orders : ~Awaiting(q, s, OfferTarget[f])
  /\ order' = [order EXCEPT ![o] = [status |-> "awaiting", student |-> s,
                 target |-> OfferTarget[f], amount |-> offer[f].price]]

(* With or without the purchase request it answers.                        *)
CreateManualOrder(o, s, f, fromRequest) ==
  /\ offer[f].status = "active"
  /\ fromRequest => <<s, f>> \in openReqs
  /\ InsertOrder(o, s, f)
  /\ openReqs' = IF fromRequest THEN openReqs \ {<<s, f>>} ELSE openReqs
  /\ UNCHANGED <<live, vetted, offer, payments, log, ents>>

(* Mutant: the order takes over the amount that was paid.                  *)
FulfilAtPaidAmount(o, ref, amount) ==
  /\ \A r \in payments : r.ref # ref
  /\ ~ActiveEnt(order[o].student, order[o].target)
  /\ payments' = payments \cup {[order |-> o, ref |-> ref, amount |-> amount]}
  /\ ents' = ents \cup {[student |-> order[o].student, target |-> order[o].target,
                         order |-> o, status |-> "active"]}
  /\ log' = log \cup {<<o, ref>>}
  /\ order' = [order EXCEPT ![o].status = "fulfilled", ![o].amount = amount]

(* fulfillPurchaseEntitlementTx and the statements around it: the payment  *)
(* record, the purchase entitlement, the log entry and the order status    *)
(* are written in one transaction.                                         *)
Fulfil(o, ref, amount) ==
  /\ \A r \in payments : r.ref # ref
  /\ ~ActiveEnt(order[o].student, order[o].target)
  /\ payments' = payments \cup {[order |-> o, ref |-> ref, amount |-> amount]}
  /\ ents' = ents \cup {[student |-> order[o].student, target |-> order[o].target,
                         order |-> o, status |-> "active"]}
  /\ log' = log \cup {<<o, ref>>}
  /\ order' = [order EXCEPT ![o].status = "fulfilled"]

(* A confirmation of a fulfilled order only reads (existingConfirmResult). *)
ManualConfirm(o, ref, amount, override) ==
  /\ order[o].status = "awaiting"
  /\ amount = order[o].amount \/ override
  /\ Fulfil(o, ref, amount)
  /\ UNCHANGED <<live, vetted, offer, openReqs>>

-----------------------------------------------------------------------------
(* Entitlements.                                                           *)

(* Mutant: the target may be granted already.                              *)
ComplimentaryGrantAgain(s, t) ==
  /\ Validated(t)
  /\ ents' = ents \cup {[student |-> s, target |-> t, order |-> NoOrder,
                         status |-> "active"]}
  /\ UNCHANGED <<live, vetted, offer, openReqs, order, payments, log>>

(* Mutant: every order of the student for the target is canceled.          *)
ComplimentaryGrantCancelsAll(s, t) ==
  /\ Validated(t)
  /\ ~ActiveEnt(s, t)
  /\ ents' = ents \cup {[student |-> s, target |-> t, order |-> NoOrder,
                         status |-> "active"]}
  /\ order' = [o \in Orders |-> IF order[o].student = s /\ order[o].target = t
                 THEN [order[o] EXCEPT !.status = "canceled"] ELSE order[o]]
  /\ UNCHANGED <<live, vetted, offer, openReqs, payments, log>>

ComplimentaryGrant(s, t) ==
  /\ Validated(t)
  /\ ~ActiveEnt(s, t)
  /\ vetted' = vetted \ {t}
  /\ ents' = ents \cup {[student |-> s, target |-> t, order |-> NoOrder,
                         status |-> "active"]}
  /\ order' = [o \in Orders |-> IF Awaiting(o, s, t)
                 THEN [order[o] EXCEPT !.status = "canceled"] ELSE order[o]]
  /\ openReqs' = {q \in openReqs : ~(q[1] = s /\ OfferTarget[q[2]] = t)}
  /\ UNCHANGED <<live, offer, payments, log>>

RevokeEntitlement(e) ==
  /\ e \in ents
  /\ e.status = "active"
  /\ ents' = (ents \ {e}) \cup {[e EXCEPT !.status = "revoked"]}
  /\ UNCHANGED <<live, vetted, offer, openReqs, order, payments, log>>

-----------------------------------------------------------------------------
OfferStep ==
  \E f \in Offers, price \in Prices :
    \/ CreateOffer(f, price)
    \/ BeginReactivation(f)
    \/ Reactivate(f, price)
    \/ ReactivationFails(f)
    \/ \E status \in {"draft", "active", "archived"} : UpdateOffer(f, status, price)

RequestStep ==
  \E s \in Students, f \in Offers :
    \/ CreatePurchaseRequest(s, f)
    \/ DeclinePurchaseRequest(s, f)
    \/ \E o \in Orders, fromRequest \in BOOLEAN :
         CreateManualOrder(o, s, f, fromRequest)

ConfirmStep ==
  \E o \in Orders, ref \in AdminRefs, amount \in Prices, override \in BOOLEAN :
    ManualConfirm(o, ref, amount, override)

AccessStep ==
  \/ \E k \in Targets : AdminArchiveCourse(k) \/ ValidateOfferTarget(k)
  \/ \E s \in Students, t \in Targets : ComplimentaryGrant(s, t)
  \/ \E e \in ents : RevokeEntitlement(e)

CommerceNext == OfferStep \/ RequestStep \/ ConfirmStep \/ AccessStep

CommerceSpec == CommerceInit /\ [][CommerceNext]_commerceVars

-----------------------------------------------------------------------------
(* Properties.                                                             *)

PaymentsOf(o)  == {r \in payments : r.order = o}
LogOf(o)       == {l \in log : l[1] = o}
PurchasesOf(o) == {e \in ents : e.order = o}

(* An order, its payment record, its log entry and its purchase            *)
(* entitlement appear together or not at all, and each exactly once,       *)
(* whatever confirmations, webhooks and retries raced (ManualConfirm,      *)
(* ProcessTBankNotification): no fulfilled order without evidence of       *)
(* payment, no payment fulfilled twice, no purchased access without an     *)
(* order for that student and that target.                                 *)
FulfilledOnce ==
  \A o \in Orders :
    IF order[o].status = "fulfilled"
    THEN /\ \E r \in payments : PaymentsOf(o) = {r} /\ LogOf(o) = {<<o, r.ref>>}
         /\ \E e \in ents : /\ PurchasesOf(o) = {e}
                            /\ e.student = order[o].student
                            /\ e.target = order[o].target
    ELSE PaymentsOf(o) = {} /\ LogOf(o) = {} /\ PurchasesOf(o) = {}

(* No external payment pays for two orders, and no student holds two       *)
(* active entitlements to one target, however grants, purchases and        *)
(* revocations interleave.                                                 *)
NoDoubleUse ==
  /\ \A r1, r2 \in payments : r1.ref = r2.ref => r1 = r2
  /\ \A e1, e2 \in ents :
       /\ e1.status = "active" /\ e2.status = "active"
       /\ e1.student = e2.student /\ e1.target = e2.target
       => e1 = e2

(* A payment that differs from the order's price snapshot is only ever     *)
(* recorded with an override of the administrator: the snapshot itself is  *)
(* never adjusted, and a settled or canceled order never moves again, so   *)
(* past sales do not follow later changes of an offer.                     *)
SalesAreFinal ==
  [][\A o \in Orders :
       /\ order[o].status # "absent" =>
            order'[o] = [order[o] EXCEPT !.status = order'[o].status]
       /\ order[o].status \in {"fulfilled", "canceled"} => order'[o] = order[o]
       /\ order[o].status = "awaiting" => order'[o].status # "absent"
    ]_commerceVars

(* The tables implement the abstract sale.                                 *)
StageOf == [absent |-> "none", awaiting |-> "open", fulfilled |-> "settled",
            canceled |-> "closed"]

Stage == [o \in Orders |-> StageOf[order[o].status]]

Sale == INSTANCE Sales WITH stage <- Stage,
                            funded <- {r.order : r \in payments},
                            granted <- {e.order : e \in ents} \ {NoOrder}

(* Every transaction of every handler is a step of the abstract sale:      *)
(* orders are placed, closed for good or settled once, and payment and     *)
(* access come into being together with the settlement and never without.  *)
SaleProtocol == Sale!Spec
=============================================================================
