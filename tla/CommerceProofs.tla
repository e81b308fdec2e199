--------------------------- MODULE CommerceProofs ---------------------------
(***************************************************************************)
(* Proofs about the commerce tables, for any number of students, offers,   *)
(* orders, targets and references.  The inductive invariant is the         *)
(* conjunction of the type invariant with the two safety invariants: the   *)
(* evidence of a fulfilled order (FulfilledOnce) needs the uniqueness of   *)
(* references and active entitlements only for the next fulfilment, and    *)
(* uniqueness needs nothing but itself.                                    *)
(*                                                                         *)
(* The handlers change the tables in few ways.  Each way has a lemma; an   *)
(* action is then an instance of one of them.                              *)
(***************************************************************************)
EXTENDS Commerce, TLAPS

CommerceInv == TypeOK /\ FulfilledOnce /\ NoDoubleUse

(* Only orders that are not, and do not become, fulfilled change, and the  *)
(* evidence stays as it is: closing, expiring and placing orders.          *)
Unsettled ==
  /\ UNCHANGED <<payments, log, ents>>
  /\ \A o \in Orders : order'[o].status = "fulfilled" \/ order[o].status = "fulfilled"
                         => order'[o] = order[o]

LEMMA InitCommerceInv == CommerceInit => CommerceInv
  <1> SUFFICES ASSUME CommerceInit PROVE CommerceInv
    OBVIOUS
  <1>1. NoOfferRow.price \in Prices /\ NoOrderRow.student \in Students
        /\ NoOrderRow.amount \in Prices
    BY IdAssumption DEF NoOfferRow, NoOrderRow
  <1>2. TypeOK
    BY <1>1, TargetAssumption DEF CommerceInit, TypeOK, NoOfferRow, NoOrderRow
  <1>3. FulfilledOnce
    BY DEF CommerceInit, FulfilledOnce, NoOrderRow, PaymentsOf, LogOf, PurchasesOf
  <1>4. NoDoubleUse
    BY DEF CommerceInit, NoDoubleUse
  <1> QED
    BY <1>2, <1>3, <1>4 DEF CommerceInv

LEMMA UnsettledKeepsEvidence ==
  ASSUME CommerceInv, Unsettled
  PROVE  FulfilledOnce' /\ NoDoubleUse'
  <1>1. FulfilledOnce'
    BY DEF CommerceInv, Unsettled, FulfilledOnce, PaymentsOf, LogOf, PurchasesOf
  <1>2. NoDoubleUse'
    BY DEF CommerceInv, Unsettled, NoDoubleUse
  <1> QED
    BY <1>1, <1>2

LEMMA FulfilKeepsInv ==
  ASSUME CommerceInv, NEW o \in Orders, NEW ref \in Refs, NEW amount \in Prices,
         order[o].status = "awaiting", Fulfil(o, ref, amount),
         UNCHANGED <<live, vetted, offer, openReqs>>
  PROVE  CommerceInv'
  <1> DEFINE r == [order |-> o, ref |-> ref, amount |-> amount]
             e == [student |-> order[o].student, target |-> order[o].target,
                   order |-> o, status |-> "active"]
  <1>1. /\ payments' = payments \cup {r}
        /\ ents' = ents \cup {e}
        /\ log' = log \cup {<<o, ref>>}
        /\ order' = [order EXCEPT ![o].status = "fulfilled"]
    BY DEF Fulfil
  <1>2. TypeOK'
    BY <1>1 DEF CommerceInv, TypeOK, Entitlements
  <1>3. FulfilledOnce'
    <2>1. PaymentsOf(o) = {} /\ LogOf(o) = {} /\ PurchasesOf(o) = {}
      BY DEF CommerceInv, FulfilledOnce
    <2>2. PaymentsOf(o)' = {r} /\ LogOf(o)' = {<<o, ref>>} /\ PurchasesOf(o)' = {e}
      BY <1>1, <2>1 DEF PaymentsOf, LogOf, PurchasesOf
    <2>3. /\ order'[o].status = "fulfilled"
          /\ order'[o].student = order[o].student
          /\ order'[o].target = order[o].target
      BY <1>1 DEF CommerceInv, TypeOK
    <2>4. ASSUME NEW q \in Orders \ {o}
          PROVE  /\ order'[q] = order[q]
                 /\ PaymentsOf(q)' = PaymentsOf(q)
                 /\ LogOf(q)' = LogOf(q)
                 /\ PurchasesOf(q)' = PurchasesOf(q)
      BY <1>1 DEF CommerceInv, TypeOK, PaymentsOf, LogOf, PurchasesOf
    <2>5. payments \subseteq payments' /\ ents \subseteq ents'
      BY <1>1
    <2> SUFFICES ASSUME NEW q \in Orders
                 PROVE  FulfilledOnce!(q)'
      BY DEF FulfilledOnce
    <2>6. CASE q = o
      <3>1. r \in payments' /\ e \in ents'
        BY <1>1
      <3>2. e.student = order'[o].student /\ e.target = order'[o].target
        BY <2>3
      <3> QED
        BY <2>2, <2>3, <2>6, <3>1, <3>2
    <2>7. CASE q # o
      <3>1. FulfilledOnce!(q)
        BY DEF CommerceInv, FulfilledOnce
      <3> QED
        BY <2>4, <2>5, <2>7, <3>1
    <2> QED
      BY <2>6, <2>7
  <1>4. NoDoubleUse'
    BY <1>1 DEF CommerceInv, TypeOK, Entitlements, NoDoubleUse, Fulfil, ActiveEnt
  <1> QED
    BY <1>2, <1>3, <1>4 DEF CommerceInv

(* A grant adds one complimentary entitlement and cancels awaiting orders. *)
LEMMA GrantKeepsInv ==
  ASSUME CommerceInv, NEW s \in Students, NEW t \in Targets, ComplimentaryGrant(s, t)
  PROVE  CommerceInv'
  <1> DEFINE e == [student |-> s, target |-> t, order |-> NoOrder, status |-> "active"]
  <1>1. /\ ents' = ents \cup {e}
        /\ payments' = payments /\ log' = log
        /\ ~ActiveEnt(s, t)
    BY DEF ComplimentaryGrant
  <1>2. \A o \in Orders :
          /\ order'[o].status = "fulfilled" <=> order[o].status = "fulfilled"
          /\ order[o].status = "fulfilled" => order'[o] = order[o]
    BY DEF CommerceInv, TypeOK, ComplimentaryGrant, Awaiting
  <1>3. TypeOK'
    <2>1. order' \in [Orders -> [status : {"absent", "awaiting", "fulfilled", "canceled"},
                                 student : Students, target : Targets, amount : Prices]]
      BY DEF CommerceInv, TypeOK, ComplimentaryGrant
    <2>2. ents' \subseteq Entitlements
      BY <1>1 DEF CommerceInv, TypeOK, Entitlements
    <2>3. /\ live' = live /\ vetted' \subseteq vetted /\ offer' = offer
          /\ openReqs' \subseteq openReqs
      BY DEF ComplimentaryGrant
    <2> QED
      BY <1>1, <2>1, <2>2, <2>3 DEF CommerceInv, TypeOK
  <1>4. FulfilledOnce'
    <2> SUFFICES ASSUME NEW q \in Orders
                 PROVE  FulfilledOnce!(q)'
      BY DEF FulfilledOnce
    <2>1. /\ PaymentsOf(q)' = PaymentsOf(q)
          /\ LogOf(q)' = LogOf(q)
          /\ PurchasesOf(q)' = PurchasesOf(q)
      BY <1>1, IdAssumption DEF PaymentsOf, LogOf, PurchasesOf
    <2>2. FulfilledOnce!(q) /\ ents \subseteq ents'
      BY <1>1 DEF CommerceInv, FulfilledOnce
    <2> QED
      BY <1>1, <1>2, <2>1, <2>2
  <1>5. NoDoubleUse'
    BY <1>1 DEF CommerceInv, NoDoubleUse, ActiveEnt
  <1> QED
    BY <1>3, <1>4, <1>5 DEF CommerceInv

(* A revocation leaves every purchase entitlement where it was, in another *)
(* status.                                                                 *)
LEMMA RevokeKeepsInv ==
  ASSUME CommerceInv, NEW e \in ents, RevokeEntitlement(e)
  PROVE  CommerceInv'
  <1> DEFINE d == [e EXCEPT !.status = "revoked"]
  <1>1. /\ ents' = (ents \ {e}) \cup {d}
        /\ UNCHANGED <<live, vetted, offer, openReqs, order, payments, log>>
    BY DEF RevokeEntitlement
  <1>2. /\ e \in Entitlements /\ d \in Entitlements
        /\ d.student = e.student /\ d.target = e.target /\ d.order = e.order
        /\ d.status = "revoked"
    BY DEF CommerceInv, TypeOK, Entitlements
  <1>3. TypeOK'
    BY <1>1, <1>2 DEF CommerceInv, TypeOK
  <1>4. FulfilledOnce'
    <2> SUFFICES ASSUME NEW q \in Orders
                 PROVE  FulfilledOnce!(q)'
      BY DEF FulfilledOnce
    <2>1. FulfilledOnce!(q)
      BY DEF CommerceInv, FulfilledOnce
    <2>2. PaymentsOf(q)' = PaymentsOf(q) /\ LogOf(q)' = LogOf(q)
      BY <1>1 DEF PaymentsOf, LogOf
    <2>3. CASE order[q].status # "fulfilled"
      <3>1. PurchasesOf(q)' = {}
        BY <1>1, <1>2, <2>1, <2>3 DEF PurchasesOf
      <3> QED
        BY <1>1, <2>1, <2>2, <2>3, <3>1
    <2>4. CASE order[q].status = "fulfilled"
      <3>1. PICK x \in ents : /\ PurchasesOf(q) = {x}
                              /\ x.student = order[q].student
                              /\ x.target = order[q].target
        BY <2>1, <2>4
      <3>2. CASE x = e
        <4>1. PurchasesOf(q)' = {d}
          BY <1>1, <1>2, <3>1, <3>2 DEF PurchasesOf
        <4> QED
          BY <1>1, <1>2, <2>1, <2>2, <2>4, <3>1, <3>2, <4>1
      <3>3. CASE x # e
        <4>1. e.order # q /\ d.order # q
          BY <1>2, <3>1, <3>3 DEF PurchasesOf
        <4>2. PurchasesOf(q)' = {x} /\ x \in ents'
          BY <1>1, <3>1, <3>3, <4>1 DEF PurchasesOf
        <4> QED
          BY <1>1, <2>1, <2>2, <2>4, <3>1, <4>2
      <3> QED
        BY <3>2, <3>3
    <2> QED
      BY <2>3, <2>4
  <1>5. NoDoubleUse'
    BY <1>1, <1>2 DEF CommerceInv, NoDoubleUse
  <1> QED
    BY <1>3, <1>4, <1>5 DEF CommerceInv

(* Offers, requests, courses and new orders.                               *)
LEMMA OfferStepKeepsInv ==
  ASSUME CommerceInv, OfferStep
  PROVE  CommerceInv'
  <1>1. PICK f \in Offers, price \in Prices : OfferStep!(f, price)
    BY DEF OfferStep
  <1>2. /\ UNCHANGED <<live, openReqs, order, payments, log, ents>>
        /\ vetted' \subseteq vetted
    BY <1>1 DEF CreateOffer, UpdateOffer, BeginReactivation, Reactivate, ReactivationFails
  <1>3. offer' \in [Offers -> [status : {"absent", "draft", "active", "archived",
                                        "reopening"}, price : Prices]]
    BY <1>1 DEF CommerceInv, TypeOK, CreateOffer, UpdateOffer, BeginReactivation,
                Reactivate, ReactivationFails
  <1>4. TypeOK'
    BY <1>2, <1>3 DEF CommerceInv, TypeOK
  <1>5. Unsettled
    BY <1>2 DEF Unsettled
  <1> QED
    BY <1>4, <1>5, UnsettledKeepsEvidence DEF CommerceInv

LEMMA RequestStepKeepsInv ==
  ASSUME CommerceInv, RequestStep
  PROVE  CommerceInv'
  <1>1. PICK s \in Students, f \in Offers : RequestStep!(s, f)
    BY DEF RequestStep
  <1>2. CASE CreatePurchaseRequest(s, f) \/ DeclinePurchaseRequest(s, f)
    <2>1. /\ UNCHANGED <<live, vetted, offer, order, payments, log, ents>>
          /\ openReqs' \subseteq Students \X Offers
      BY <1>2 DEF CreatePurchaseRequest, DeclinePurchaseRequest, CommerceInv, TypeOK
    <2>2. TypeOK' /\ Unsettled
      BY <2>1 DEF CommerceInv, TypeOK, Unsettled
    <2> QED
      BY <2>2, UnsettledKeepsEvidence DEF CommerceInv
  <1>3. ASSUME NEW o \in Orders, NEW fromRequest \in BOOLEAN,
               CreateManualOrder(o, s, f, fromRequest)
        PROVE  CommerceInv'
    <2>1. /\ order[o].status = "absent"
          /\ order' = [order EXCEPT ![o] = [status |-> "awaiting", student |-> s,
                         target |-> OfferTarget[f], amount |-> offer[f].price]]
          /\ openReqs' \subseteq openReqs
          /\ UNCHANGED <<live, vetted, offer, payments, log, ents>>
      BY <1>3 DEF CreateManualOrder, InsertOrder
    <2>2. TypeOK'
      BY <2>1, TargetAssumption DEF CommerceInv, TypeOK
    <2>3. Unsettled
      BY <2>1 DEF CommerceInv, TypeOK, Unsettled
    <2> QED
      BY <2>2, <2>3, UnsettledKeepsEvidence DEF CommerceInv
  <1> QED
    BY <1>1, <1>2, <1>3

LEMMA ConfirmStepKeepsInv ==
  ASSUME CommerceInv, ConfirmStep
  PROVE  CommerceInv'
  <1>1. PICK o \in Orders, ref \in AdminRefs, amount \in Prices, override \in BOOLEAN :
          ManualConfirm(o, ref, amount, override)
    BY DEF ConfirmStep
  <1>2. /\ order[o].status = "awaiting" /\ Fulfil(o, ref, amount)
        /\ UNCHANGED <<live, vetted, offer, openReqs>>
        /\ ref \in Refs
    BY <1>1 DEF ManualConfirm, Refs
  <1> QED
    BY <1>2, FulfilKeepsInv

LEMMA AccessStepKeepsInv ==
  ASSUME CommerceInv, AccessStep
  PROVE  CommerceInv'
  <1>1. ASSUME NEW k \in Targets, AdminArchiveCourse(k) \/ ValidateOfferTarget(k)
        PROVE  CommerceInv'
    <2>1. UNCHANGED <<openReqs, order, payments, log, ents>>
      BY <1>1 DEF AdminArchiveCourse, ValidateOfferTarget
    <2>2. /\ live' \subseteq Targets /\ vetted' \subseteq Targets
          /\ offer' \in [Offers -> [status : {"absent", "draft", "active", "archived",
                                             "reopening"}, price : Prices]]
      BY <1>1 DEF CommerceInv, TypeOK, AdminArchiveCourse, ValidateOfferTarget
    <2>3. TypeOK' /\ Unsettled
      BY <2>1, <2>2 DEF CommerceInv, TypeOK, Unsettled
    <2> QED
      BY <2>3, UnsettledKeepsEvidence DEF CommerceInv
  <1>2. ASSUME NEW s \in Students, NEW t \in Targets, ComplimentaryGrant(s, t)
        PROVE  CommerceInv'
    BY <1>2, GrantKeepsInv
  <1>3. ASSUME NEW e \in ents, RevokeEntitlement(e)
        PROVE  CommerceInv'
    BY <1>3, RevokeKeepsInv
  <1> QED
    BY <1>1, <1>2, <1>3 DEF AccessStep

LEMMA CommerceNextKeepsInv ==
  CommerceInv /\ [CommerceNext]_commerceVars => CommerceInv'
  <1> SUFFICES ASSUME CommerceInv, [CommerceNext]_commerceVars
               PROVE  CommerceInv'
    OBVIOUS
  <1>1. CASE CommerceNext
    BY <1>1, OfferStepKeepsInv, RequestStepKeepsInv, ConfirmStepKeepsInv,
       AccessStepKeepsInv DEF CommerceNext
  <1>2. CASE UNCHANGED commerceVars
    <2>1. TypeOK' /\ Unsettled
      BY <1>2 DEF CommerceInv, TypeOK, Unsettled, commerceVars
    <2> QED
      BY <2>1, UnsettledKeepsEvidence DEF CommerceInv
  <1> QED
    BY <1>1, <1>2

-----------------------------------------------------------------------------
(* The tables keep their types, an order and the evidence of its payment   *)
(* appear together and exactly once (ManualConfirm and the back office),   *)
(* and no reference and no active entitlement is used twice.               *)
THEOREM CommerceInvariant == CommerceSpec => []CommerceInv
  <1>1. CommerceInit => CommerceInv
    BY InitCommerceInv
  <1>2. CommerceInv /\ [CommerceNext]_commerceVars => CommerceInv'
    BY CommerceNextKeepsInv
  <1> QED
    BY <1>1, <1>2, PTL DEF CommerceSpec

(* The row types of the back office tables.                                *)
THEOREM CommerceTypeOK == CommerceSpec => []TypeOK
  <1>1. CommerceInv => TypeOK
    BY DEF CommerceInv
  <1> QED
    BY <1>1, CommerceInvariant, PTL

(* Every fulfilled order has exactly one payment, one log entry and one    *)
(* entitlement, and no other order has any.                                *)
THEOREM OrdersFulfilledOnce == CommerceSpec => []FulfilledOnce
  <1>1. CommerceInv => FulfilledOnce
    BY DEF CommerceInv
  <1> QED
    BY <1>1, CommerceInvariant, PTL

(* No external payment reference serves two records, and no student holds  *)
(* two active entitlements to a target.                                    *)
THEOREM NothingUsedTwice == CommerceSpec => []NoDoubleUse
  <1>1. CommerceInv => NoDoubleUse
    BY DEF CommerceInv
  <1> QED
    BY <1>1, CommerceInvariant, PTL

-----------------------------------------------------------------------------
(* The abstract sale.  A transaction that settles nothing may only place   *)
(* orders, close awaiting ones and add or revoke access that no order      *)
(* bought.                                                                 *)
Orderly ==
  /\ UNCHANGED payments
  /\ {e.order : e \in ents'} \ {NoOrder} = {e.order : e \in ents} \ {NoOrder}
  /\ \A o \in Orders :
       \/ order'[o] = order[o]
       \/ order[o].status = "absent" /\ order'[o].status = "awaiting"
       \/ /\ order[o].status = "awaiting"
          /\ order'[o] = [order[o] EXCEPT !.status = "canceled"]

LEMMA Stages ==
  /\ StageOf["absent"] = "none" /\ StageOf["awaiting"] = "open"
  /\ StageOf["fulfilled"] = "settled" /\ StageOf["canceled"] = "closed"
  BY DEF StageOf

LEMMA OrderlyIsTurnover ==
  ASSUME TypeOK, TypeOK', Orderly
  PROVE  Sale!Turnover
  <1> DEFINE placed == {o \in Orders : order[o].status = "absent"
                                        /\ order'[o].status = "awaiting"}
             closed == {o \in Orders : order[o].status = "awaiting"
                                        /\ order'[o].status = "canceled"}
  <1>1. placed \in SUBSET Sale!At("none") /\ closed \in SUBSET Sale!At("open")
    BY Stages DEF Sale!At, Stage
  <1>2. ASSUME NEW o \in Orders
        PROVE  Stage'[o] = IF o \in placed THEN "open"
                           ELSE IF o \in closed THEN "closed" ELSE Stage[o]
    <2>1. /\ Stage'[o] = StageOf[order'[o].status]
          /\ Stage[o] = StageOf[order[o].status]
      BY DEF Stage
    <2>2. CASE order'[o] = order[o]
      BY <2>1, <2>2
    <2>3. CASE order[o].status = "absent" /\ order'[o].status = "awaiting"
      BY <2>1, <2>3, Stages
    <2>4. CASE order[o].status = "awaiting"
               /\ order'[o] = [order[o] EXCEPT !.status = "canceled"]
      <3>1. order[o].status = "awaiting" /\ order'[o].status = "canceled"
        BY <2>4 DEF TypeOK
      <3>2. o \in closed /\ o \notin placed
        BY <3>1
      <3> HIDE DEF placed, closed
      <3> QED
        BY <2>1, <3>1, <3>2, Stages
    <2> QED
      BY <2>2, <2>3, <2>4 DEF Orderly
  <1>3. Stage' = [o \in Orders |-> IF o \in placed THEN "open"
                                   ELSE IF o \in closed THEN "closed" ELSE Stage[o]]
    <2>1. Stage' = [o \in Orders |-> Stage'[o]]
      BY DEF Stage
    <2> HIDE DEF placed, closed
    <2> QED
      BY <1>2, <2>1
  <1>4. UNCHANGED <<{r.order : r \in payments}, {e.order : e \in ents} \ {NoOrder}>>
    BY DEF Orderly
  <1> HIDE DEF placed, closed
  <1> QED
    BY <1>1, <1>3, <1>4 DEF Sale!Turnover

LEMMA FulfilIsSettle ==
  ASSUME CommerceInv, NEW o \in Orders, NEW ref, NEW amount,
         order[o].status = "awaiting", Fulfil(o, ref, amount)
  PROVE  Sale!Settle(o)
  <1> DEFINE r == [order |-> o, ref |-> ref, amount |-> amount]
             e == [student |-> order[o].student, target |-> order[o].target,
                   order |-> o, status |-> "active"]
  <1>1. o \in Sale!At("open")
    BY Stages DEF Sale!At, Stage
  <1>2. o \notin {x.order : x \in payments} \cup ({x.order : x \in ents} \ {NoOrder})
    BY DEF CommerceInv, FulfilledOnce, PaymentsOf, PurchasesOf
  <1>3. Stage' = [Stage EXCEPT ![o] = "settled"]
    <2>1. /\ order'[o].status = "fulfilled"
          /\ \A q \in Orders : q # o => order'[q] = order[q]
      BY DEF Fulfil, CommerceInv, TypeOK
    <2>2. ASSUME NEW q \in Orders
          PROVE  StageOf[order'[q].status] =
                   IF q = o THEN "settled" ELSE StageOf[order[q].status]
      BY <2>1, Stages
    <2> QED
      BY <2>2 DEF Stage
  <1>4. r.order = o /\ e.order = o
    OBVIOUS
  <1>5. payments' = payments \cup {r} /\ ents' = ents \cup {e}
    BY DEF Fulfil
  <1> HIDE DEF r, e
  <1>6. {x.order : x \in payments'} = {x.order : x \in payments} \cup {o}
    BY <1>4, <1>5
  <1>7. {x.order : x \in ents'} \ {NoOrder} = ({x.order : x \in ents} \ {NoOrder}) \cup {o}
    BY <1>4, <1>5, IdAssumption
  <1> QED
    BY <1>1, <1>2, <1>3, <1>6, <1>7 DEF Sale!Settle

LEMMA InitIsSaleInit ==
  CommerceInit => Sale!Init
  BY Stages DEF CommerceInit, Sale!Init, Stage, NoOrderRow

(* A settling transaction.                                                 *)
Settling == \E o \in Orders, ref \in Refs, amount \in Prices :
              order[o].status = "awaiting" /\ Fulfil(o, ref, amount)

LEMMA CommerceStepKinds ==
  ASSUME CommerceInv, [CommerceNext]_commerceVars
  PROVE  Orderly \/ Settling
  <1>1. TypeOK
    BY DEF CommerceInv
  <1>2. CASE OfferStep \/ UNCHANGED commerceVars
    BY <1>2 DEF OfferStep, Orderly, CreateOffer, UpdateOffer, BeginReactivation,
                Reactivate, ReactivationFails, commerceVars
  <1>3. CASE RequestStep
    BY <1>1, <1>3 DEF RequestStep, Orderly, CreatePurchaseRequest,
       DeclinePurchaseRequest, CreateManualOrder, InsertOrder, TypeOK
  <1>4. CASE ConfirmStep
    BY <1>4 DEF ConfirmStep, ManualConfirm, Settling, Refs
  <1>5. ASSUME NEW k \in Targets, AdminArchiveCourse(k) \/ ValidateOfferTarget(k)
        PROVE  Orderly
    BY <1>5 DEF Orderly, AdminArchiveCourse, ValidateOfferTarget
  <1>6. ASSUME NEW s \in Students, NEW t \in Targets, ComplimentaryGrant(s, t)
        PROVE  Orderly
    BY <1>6 DEF Orderly, ComplimentaryGrant, Awaiting
  <1>7. ASSUME NEW e \in ents, RevokeEntitlement(e)
        PROVE  Orderly
    <2>1. [e EXCEPT !.status = "revoked"].order = e.order
      BY <1>1, <1>7 DEF TypeOK, Entitlements
    <2> QED
      BY <1>7, <2>1 DEF Orderly, RevokeEntitlement
  <1> QED
    BY <1>2, <1>3, <1>4, <1>5, <1>6, <1>7 DEF CommerceNext, AccessStep

LEMMA KindsAreSaleSteps ==
  ASSUME CommerceInv, CommerceInv', Orderly \/ Settling
  PROVE  [Sale!Next]_(Sale!sales)
  <1>1. CASE Orderly
    BY <1>1, OrderlyIsTurnover DEF CommerceInv, Sale!Next
  <1>2. CASE Settling
    BY <1>2, FulfilIsSettle DEF Settling, Sale!Next
  <1> QED
    BY <1>1, <1>2

(* Every transaction of the back office is a step of the abstract sale.    *)
THEOREM CommerceRefinesSale == CommerceSpec => SaleProtocol
  <1>1. CommerceInit => Sale!Init
    BY InitIsSaleInit
  <1>2. CommerceInv /\ [CommerceNext]_commerceVars => [Sale!Next]_(Sale!sales)
    BY CommerceStepKinds, KindsAreSaleSteps, CommerceNextKeepsInv
  <1> QED
    BY <1>1, <1>2, CommerceInvariant, PTL DEF CommerceSpec, SaleProtocol, Sale!Spec

-----------------------------------------------------------------------------
(* What a step may do to an order.                                         *)
LEMMA KindsAreFinal ==
  ASSUME TypeOK, Orderly \/ Settling, NEW o \in Orders
  PROVE  /\ order[o].status # "absent" =>
              order'[o] = [order[o] EXCEPT !.status = order'[o].status]
         /\ order[o].status \in {"fulfilled", "canceled"} => order'[o] = order[o]
         /\ order[o].status = "awaiting" => order'[o].status # "absent"
  <1>1. CASE Orderly
    BY <1>1 DEF TypeOK, Orderly
  <1>2. CASE Settling
    BY <1>2 DEF TypeOK, Settling, Fulfil
  <1> QED
    BY <1>1, <1>2

(* The price snapshot, student and target of an order never change, and a  *)
(* fulfilled or canceled order never moves again.                          *)
THEOREM CommerceSalesAreFinal == CommerceSpec => SalesAreFinal
  <1> DEFINE Final == \A o \in Orders :
               /\ order[o].status # "absent" =>
                    order'[o] = [order[o] EXCEPT !.status = order'[o].status]
               /\ order[o].status \in {"fulfilled", "canceled"} => order'[o] = order[o]
               /\ order[o].status = "awaiting" => order'[o].status # "absent"
  <1>1. CommerceInv /\ [CommerceNext]_commerceVars => Final
    BY CommerceStepKinds, KindsAreFinal DEF CommerceInv
  <1> HIDE DEF Final
  <1>2. CommerceSpec => [][Final]_commerceVars
    BY <1>1, CommerceInvariant, PTL DEF CommerceSpec
  <1>3. [][Final]_commerceVars <=> SalesAreFinal
    BY PTL DEF Final, SalesAreFinal
  <1> QED
    BY <1>2, <1>3
=============================================================================
