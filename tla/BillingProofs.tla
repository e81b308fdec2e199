---------------------------- MODULE BillingProofs ---------------------------
(***************************************************************************)
(* Proofs about online billing, for any number of concurrent checkouts,    *)
(* payments, orders and notifications.                                     *)
(*                                                                         *)
(* The invariant of the commerce tables is extended by what the requests   *)
(* in flight and the provider know: the expired orders a checkout has      *)
(* locked are still awaiting (Held), every payment belongs to an order     *)
(* that exists (Placed), and a confirmation was only announced for a       *)
(* confirmed payment (Announced).                                          *)
(***************************************************************************)
EXTENDS OnlineBilling, CommerceProofs

Held ==
  \A c \in Callers : checkout[c].phase = "guarded" =>
    /\ \A o \in checkout[c].expired : order[o].status = "awaiting"
    /\ \A d \in Callers \ {c} : checkout[d].phase = "guarded" =>
         checkout[c].expired \cap checkout[d].expired = {}

Placed ==
  /\ \A c \in Callers : checkout[c].phase \in {"calling", "accepted", "rejected"} =>
       /\ checkout[c].order \in Orders
       /\ order[checkout[c].order].status # "absent"
  /\ \A c \in Callers : checkout[c].phase = "accepted" =>
       /\ checkout[c].payment \in PaymentIds
       /\ provider[checkout[c].payment].status # "absent"
       /\ provider[checkout[c].payment].order = checkout[c].order
  /\ \A p \in PaymentIds : provider[p].status # "absent" =>
       /\ provider[p].order \in Orders
       /\ order[provider[p].order].status # "absent"

Announced ==
  \A n \in notes : /\ provider[n[1]].status # "absent"
                   /\ n[2] = "CONFIRMED" => provider[n[1]].status = "confirmed"

BillingInv ==
  /\ CommerceInv
  /\ BillingTypeOK
  /\ Held
  /\ Placed
  /\ Announced
  /\ ProviderRecordsJustified

-----------------------------------------------------------------------------
(* Ways a step may change orders and payments.                             *)

OrderRows == [status : {"absent", "awaiting", "fulfilled", "canceled"},
              student : Students, target : Targets, amount : Prices]

SessionRows == [status : SessionStatus, url : BOOLEAN,
                payment : PaymentIds \cup {NoPayment}]

(* Orders are placed or canceled and requests processed, nothing else.     *)
OrdersOnly ==
  /\ UNCHANGED <<live, vetted, offer, payments, log, ents>>
  /\ openReqs' \subseteq openReqs
  /\ order' \in [Orders -> OrderRows]
  /\ \A o \in Orders :
       \/ order'[o] = order[o]
       \/ order[o].status = "absent" /\ order'[o].status = "awaiting"
       \/ /\ order[o].status = "awaiting"
          /\ order'[o] = [order[o] EXCEPT !.status = "canceled"]

OrdersStay ==
  \A o \in Orders : order[o].status # "absent" =>
    order'[o].status # "absent" /\ order'[o].amount = order[o].amount

ProviderGrows ==
  \A p \in PaymentIds : provider[p].status # "absent" =>
    /\ provider'[p].order = provider[p].order
    /\ provider'[p].amount = provider[p].amount
    /\ provider'[p].status # "absent"
    /\ provider[p].status = "confirmed" => provider'[p].status = "confirmed"

LEMMA OrdersOnlyKeepsInv ==
  ASSUME CommerceInv, OrdersOnly
  PROVE  CommerceInv' /\ Orderly /\ OrdersStay
  <1>1. TypeOK'
    BY DEF CommerceInv, TypeOK, OrdersOnly, OrderRows
  <1>2. Unsettled
    <2> SUFFICES ASSUME NEW o \in Orders,
                        order'[o].status = "fulfilled" \/ order[o].status = "fulfilled"
                 PROVE  order'[o] = order[o]
      BY DEF OrdersOnly, Unsettled
    <2>1. CASE order'[o] = [order[o] EXCEPT !.status = "canceled"]
               /\ order[o].status = "awaiting"
      BY <2>1 DEF CommerceInv, TypeOK
    <2> QED
      BY <2>1 DEF OrdersOnly
  <1>3. Orderly
    BY DEF OrdersOnly, Orderly
  <1>4. OrdersStay
    BY DEF CommerceInv, TypeOK, OrdersOnly, OrdersStay
  <1> QED
    BY <1>1, <1>2, <1>3, <1>4, UnsettledKeepsEvidence DEF CommerceInv

LEMMA RecordsStay ==
  ASSUME BillingInv, OrdersStay, ProviderGrows,
         \A r \in payments' \ payments : r.ref \in AdminRefs
  PROVE  ProviderRecordsJustified'
  <1> SUFFICES ASSUME NEW r \in payments', r.ref \in PaymentIds
               PROVE  /\ provider'[r.ref].status = "confirmed"
                      /\ provider'[r.ref].order = r.order
                      /\ provider'[r.ref].amount = r.amount
                      /\ r.amount = order'[r.order].amount
    BY DEF ProviderRecordsJustified
  <1>1. r \in payments
    BY IdAssumption
  <1>2. /\ provider[r.ref].status = "confirmed"
        /\ provider[r.ref].order = r.order
        /\ provider[r.ref].amount = r.amount
        /\ r.amount = order[r.order].amount
    BY <1>1 DEF BillingInv, ProviderRecordsJustified
  <1>3. r.order \in Orders
    BY <1>1 DEF BillingInv, CommerceInv, TypeOK
  <1>4. order[r.order].status # "absent"
    BY <1>1, <1>2, <1>3 DEF BillingInv, Placed
  <1> QED
    BY <1>2, <1>3, <1>4 DEF OrdersStay, ProviderGrows

(* A checkout stays, ends, begins, commits or learns of a refusal.         *)
CheckoutsStay ==
  \A c \in Callers :
    \/ checkout'[c] = checkout[c]
    \/ checkout'[c].phase \in {"idle", "guarded"}
    \/ /\ checkout[c].phase \in {"calling", "accepted"} /\ checkout'[c].phase = "rejected"
       /\ checkout'[c].order = checkout[c].order
    \/ /\ checkout'[c].phase = "calling"
       /\ checkout'[c].order \in Orders
       /\ order'[checkout'[c].order].status # "absent"

(* Who still holds locks held them before, and the orders did not move.    *)
LocksStay ==
  \A c \in Callers : checkout'[c].phase = "guarded" =>
    /\ checkout'[c] = checkout[c]
    /\ \A o \in checkout[c].expired : order'[o].status = order[o].status

NoNewPayments ==
  \A p \in PaymentIds : provider'[p].status # "absent" => provider[p].status # "absent"

LEMMA LocksStayHeld ==
  ASSUME Held, LocksStay
  PROVE  Held'
  <1> SUFFICES ASSUME NEW c \in Callers, checkout'[c].phase = "guarded"
               PROVE  Held!(c)!2'
    BY DEF Held
  <1>1. /\ checkout'[c] = checkout[c] /\ checkout[c].phase = "guarded"
        /\ \A o \in checkout[c].expired : order'[o].status = order[o].status
    BY DEF LocksStay
  <1>2. \A d \in Callers : checkout'[d].phase = "guarded" =>
          checkout'[d] = checkout[d]
    BY DEF LocksStay
  <1> QED
    BY <1>1, <1>2 DEF Held

LEMMA LinksStay ==
  ASSUME BillingInv, OrdersStay, ProviderGrows, CheckoutsStay, NoNewPayments
  PROVE  Placed'
  <1>1. ASSUME NEW c \in Callers,
               checkout'[c].phase \in {"calling", "accepted", "rejected"}
        PROVE  /\ checkout'[c].order \in Orders
               /\ order'[checkout'[c].order].status # "absent"
    <2>1. CASE /\ checkout'[c].order = checkout[c].order
               /\ checkout[c].phase \in {"calling", "accepted", "rejected"}
      BY <2>1 DEF BillingInv, Placed, OrdersStay
    <2> QED
      BY <1>1, <2>1 DEF CheckoutsStay
  <1>2. ASSUME NEW c \in Callers, checkout'[c].phase = "accepted"
        PROVE  /\ checkout'[c].payment \in PaymentIds
               /\ provider'[checkout'[c].payment].status # "absent"
               /\ provider'[checkout'[c].payment].order = checkout'[c].order
    <2>1. checkout'[c] = checkout[c]
      BY <1>2 DEF CheckoutsStay
    <2> QED
      BY <1>2, <2>1 DEF BillingInv, Placed, ProviderGrows
  <1>3. ASSUME NEW p \in PaymentIds, provider'[p].status # "absent"
        PROVE  /\ provider'[p].order \in Orders
               /\ order'[provider'[p].order].status # "absent"
    BY <1>3 DEF NoNewPayments, ProviderGrows, BillingInv, Placed, OrdersStay
  <1> QED
    BY <1>1, <1>2, <1>3 DEF Placed

(* A step that opens no payment, announces nothing and records only what   *)
(* an administrator took.                                                  *)
LEMMA QuietKeepsInv ==
  ASSUME BillingInv, CommerceInv', BillingTypeOK', OrdersStay, ProviderGrows,
         CheckoutsStay, Held', NoNewPayments, notes' = notes,
         \A r \in payments' \ payments : r.ref \in AdminRefs
  PROVE  BillingInv'
  <1>1. Placed'
    BY LinksStay
  <1>2. Announced'
    BY DEF BillingInv, BillingTypeOK, Announced, ProviderGrows
  <1>3. ProviderRecordsJustified'
    BY RecordsStay
  <1> QED
    BY <1>1, <1>2, <1>3 DEF BillingInv

-----------------------------------------------------------------------------
(* The back office and the clock.                                          *)

LEMMA BackOfficeRecords ==
  ASSUME CommerceNext
  PROVE  \A r \in payments' \ payments : r.ref \in AdminRefs
  <1>1. CASE OfferStep
    BY <1>1 DEF OfferStep, CreateOffer, UpdateOffer, BeginReactivation, Reactivate,
                ReactivationFails
  <1>2. CASE RequestStep
    BY <1>2 DEF RequestStep, CreatePurchaseRequest, DeclinePurchaseRequest,
                CreateManualOrder
  <1>3. CASE ConfirmStep
    BY <1>3 DEF ConfirmStep, ManualConfirm, Fulfil
  <1>4. CASE AccessStep
    BY <1>4 DEF AccessStep, AdminArchiveCourse, ValidateOfferTarget,
                ComplimentaryGrant, RevokeEntitlement
  <1> QED
    BY <1>1, <1>2, <1>3, <1>4 DEF CommerceNext

LEMMA KindsLetOrdersStay ==
  ASSUME TypeOK, Orderly \/ Settling
  PROVE  OrdersStay
  <1> SUFFICES ASSUME NEW o \in Orders, order[o].status # "absent"
               PROVE  order'[o].status # "absent" /\ order'[o].amount = order[o].amount
    BY DEF OrdersStay
  <1>1. CASE order[o].status = "awaiting"
    <2>1. order'[o] = [order[o] EXCEPT !.status = order'[o].status]
          /\ order'[o].status # "absent"
      BY <1>1, KindsAreFinal
    <2> QED
      BY <2>1 DEF TypeOK
  <1>2. CASE order[o].status \in {"fulfilled", "canceled"}
    BY <1>2, KindsAreFinal
  <1> QED
    BY <1>1, <1>2 DEF TypeOK

LEMMA BackOfficeKeepsInv ==
  ASSUME BillingInv, BackOffice
  PROVE  BillingInv' /\ (Orderly \/ Settling)
  <1>1. CommerceInv /\ CommerceNext
    BY DEF BillingInv, BackOffice
  <1>2. CommerceInv' /\ (Orderly \/ Settling)
    BY <1>1, CommerceNextKeepsInv, CommerceStepKinds
  <1>3. OrdersStay
    BY <1>1, <1>2, KindsLetOrdersStay DEF CommerceInv
  <1>4. UNCHANGED <<overdue, session, checkout, provider, notes, acked, alerts>>
    BY DEF BackOffice, billingVars
  <1>5. BillingTypeOK'
    BY <1>4 DEF BillingInv, BillingTypeOK
  <1>6. ProviderGrows /\ CheckoutsStay /\ NoNewPayments
    BY <1>4 DEF ProviderGrows, CheckoutsStay, NoNewPayments
  <1>7. LocksStay
    BY <1>4 DEF LocksStay, BillingInv, BillingTypeOK, BackOffice, LocksRespected, OrderLocked
  <1>8. \A r \in payments' \ payments : r.ref \in AdminRefs
    BY <1>1, BackOfficeRecords
  <1> QED
    BY <1>2, <1>3, <1>4, <1>5, <1>6, <1>7, <1>8, LocksStayHeld, QuietKeepsInv DEF BillingInv

LEMMA OrderGrowsOldKeepsInv ==
  ASSUME BillingInv, NEW o \in Orders, OrderGrowsOld(o)
  PROVE  BillingInv' /\ Orderly
  <1>1. /\ UNCHANGED <<live, vetted, offer, openReqs, order, payments, log, ents>>
        /\ UNCHANGED <<session, checkout, provider, notes, acked, alerts>>
        /\ overdue' \subseteq Orders
    BY DEF OrderGrowsOld, commerceVars, BillingInv, BillingTypeOK
  <1>2. OrdersOnly
    BY <1>1 DEF OrdersOnly, OrderRows, BillingInv, CommerceInv, TypeOK
  <1>3. BillingTypeOK'
    BY <1>1 DEF BillingInv, BillingTypeOK
  <1>4. ProviderGrows /\ CheckoutsStay /\ NoNewPayments /\ LocksStay
    BY <1>1 DEF ProviderGrows, CheckoutsStay, NoNewPayments, LocksStay
  <1> QED
    BY <1>1, <1>2, <1>3, <1>4, OrdersOnlyKeepsInv, LocksStayHeld,
       QuietKeepsInv DEF BillingInv

(* Canceling orders that await payment, and the sessions with them.        *)
LEMMA ExpiryCancels ==
  ASSUME TypeOK, BillingTypeOK, NEW expired \in SUBSET Orders,
         \A o \in expired : order[o].status = "awaiting"
  PROVE  /\ OrdersAfterExpiry(expired) \in [Orders -> OrderRows]
         /\ \A o \in Orders :
              OrdersAfterExpiry(expired)[o] =
                IF o \in expired THEN [order[o] EXCEPT !.status = "canceled"] ELSE order[o]
         /\ SessionsAfterExpiry(expired) \in [Orders -> SessionRows]
  <1>1. ASSUME NEW o \in Orders
        PROVE  /\ order[o] \in OrderRows
               /\ [order[o] EXCEPT !.status = "canceled"] \in OrderRows
    BY DEF TypeOK, OrderRows
  <1>2. ASSUME NEW o \in Orders
        PROVE  session[o] \in SessionRows
               /\ [session[o] EXCEPT !.status = "canceled"] \in SessionRows
    <2>1. session[o] \in SessionRows /\ "canceled" \in SessionStatus
      BY DEF BillingTypeOK, SessionStatus, SessionRows
    <2> QED
      BY <2>1 DEF SessionRows
  <1> QED
    BY <1>1, <1>2 DEF OrdersAfterExpiry, SessionsAfterExpiry

LEMMA ListParentChildOffersKeepsInv ==
  ASSUME BillingInv, NEW s \in Students, ListParentChildOffers(s)
  PROVE  BillingInv' /\ Orderly
  <1>1. /\ UNCHANGED <<live, vetted, offer, openReqs, payments, log, ents>>
        /\ UNCHANGED <<overdue, checkout, provider, notes, acked, alerts>>
        /\ order' = OrdersAfterExpiry(Expired(s))
        /\ session' = SessionsAfterExpiry(Expired(s))
        /\ \A o \in Expired(s) : ~OrderLocked(o)
    BY DEF ListParentChildOffers
  <1>2. Expired(s) \in SUBSET Orders /\ \A o \in Expired(s) : order[o].status = "awaiting"
    BY DEF Expired, BillingInv, BillingTypeOK
  <1>3. OrdersOnly
    BY <1>1, <1>2, ExpiryCancels DEF OrdersOnly, BillingInv, CommerceInv
  <1>4. BillingTypeOK'
    BY <1>1, <1>2, ExpiryCancels DEF BillingTypeOK, BillingInv, CommerceInv, SessionRows
  <1>5. ProviderGrows /\ CheckoutsStay /\ NoNewPayments
    BY <1>1 DEF ProviderGrows, CheckoutsStay, NoNewPayments
  <1>6. LocksStay
    <2> SUFFICES ASSUME NEW c \in Callers, checkout[c].phase = "guarded",
                        NEW o \in checkout[c].expired
                 PROVE  order'[o].status = order[o].status
      BY <1>1 DEF LocksStay
    <2>1. o \in Orders /\ o \notin Expired(s)
      BY <1>1 DEF OrderLocked, BillingInv, BillingTypeOK
    <2> QED
      BY <1>1, <2>1 DEF OrdersAfterExpiry
  <1> QED
    BY <1>1, <1>3, <1>4, <1>5, <1>6, OrdersOnlyKeepsInv, LocksStayHeld,
       QuietKeepsInv DEF BillingInv

-----------------------------------------------------------------------------
(* The steps of a checkout.                                                *)

CheckoutRows == [phase : Phase, student : Students, offer : Offers,
                 expired : SUBSET Orders, order : Orders \cup {NoOrder},
                 amount : Prices, payment : PaymentIds \cup {NoPayment}]

LEMMA IdleIsRow == Idle \in CheckoutRows
  BY IdAssumption, BillingAssumption DEF Idle, CheckoutRows, Phase

(* A step that touches nothing but requests and sessions.                  *)
LEMMA SessionStepKeepsInv ==
  ASSUME BillingInv, BillingTypeOK', UNCHANGED commerceVars, ProviderGrows,
         CheckoutsStay, Held', NoNewPayments, notes' = notes
  PROVE  BillingInv' /\ Orderly
  <1>1. OrdersOnly
    BY DEF commerceVars, OrdersOnly, OrderRows, BillingInv, CommerceInv, TypeOK
  <1>2. \A r \in payments' \ payments : r.ref \in AdminRefs
    BY DEF commerceVars
  <1> QED
    BY <1>1, <1>2, OrdersOnlyKeepsInv, QuietKeepsInv DEF BillingInv

LEMMA CheckoutGuardKeepsInv ==
  ASSUME BillingInv, NEW c \in Callers, NEW s \in Students, NEW f \in Offers,
         NEW self \in BOOLEAN, CheckoutGuard(c, s, f, self)
  PROVE  BillingInv' /\ Orderly
  <1> DEFINE row == [Idle EXCEPT !.phase = "guarded", !.student = s, !.offer = f,
                       !.expired = Expired(s), !.amount = offer[f].price]
  <1>1. /\ UNCHANGED commerceVars
        /\ UNCHANGED <<overdue, session, provider, notes, acked, alerts>>
        /\ checkout' = [checkout EXCEPT ![c] = row]
        /\ \A o \in Expired(s) : ~OrderLocked(o)
    BY DEF CheckoutGuard
  <1>2. Expired(s) \in SUBSET Orders /\ \A o \in Expired(s) : order[o].status = "awaiting"
    BY DEF Expired, BillingInv, BillingTypeOK
  <1>3. row \in CheckoutRows /\ row.phase = "guarded" /\ row.expired = Expired(s)
    <2>1. offer[f].price \in Prices
      BY DEF BillingInv, CommerceInv, TypeOK
    <2> QED
      BY <1>2, <2>1, IdleIsRow DEF CheckoutRows, Phase
  <1> HIDE DEF row
  <1>4. BillingTypeOK'
    BY <1>1, <1>3 DEF BillingInv, BillingTypeOK, CheckoutRows
  <1>5. ProviderGrows /\ CheckoutsStay /\ NoNewPayments
    BY <1>1, <1>3 DEF ProviderGrows, CheckoutsStay, NoNewPayments, BillingInv, BillingTypeOK
  <1>6. Held'
    <2>1. /\ checkout'[c] = row
          /\ \A d \in Callers \ {c} : checkout'[d] = checkout[d]
          /\ order' = order
      BY <1>1 DEF BillingInv, BillingTypeOK, commerceVars
    <2>2. ASSUME NEW d \in Callers \ {c}, checkout[d].phase = "guarded"
          PROVE  checkout[d].expired \cap Expired(s) = {}
      BY <1>1, <2>2 DEF OrderLocked
    <2> QED
      BY <1>2, <1>3, <2>1, <2>2 DEF Held, BillingInv
  <1> QED
    BY <1>1, <1>4, <1>5, <1>6, SessionStepKeepsInv

(* The three ways to commit share the expiry of old orders.                *)
LEMMA CommitKeepsLocks ==
  ASSUME BillingInv, NEW c \in Callers, CommitCheckout(c),
         checkout'[c].phase # "guarded",
         \A d \in Callers \ {c} : checkout'[d] = checkout[d],
         \A o \in Orders : o \notin checkout[c].expired /\ order[o].status = "awaiting"
                             => order'[o].status = order[o].status
  PROVE  Held'
  <1> SUFFICES ASSUME NEW d \in Callers, checkout'[d].phase = "guarded",
                      NEW o \in checkout[d].expired
               PROVE  checkout'[d] = checkout[d] /\ order'[o].status = order[o].status
    BY LocksStayHeld DEF LocksStay, BillingInv
  <1>1. d # c /\ checkout'[d] = checkout[d] /\ checkout[c].phase = "guarded"
    BY DEF CommitCheckout
  <1>2. o \in Orders /\ o \notin checkout[c].expired /\ order[o].status = "awaiting"
    BY <1>1 DEF BillingInv, BillingTypeOK, Held
  <1> QED
    BY <1>1, <1>2

LEMMA CommitKeepsInv ==
  ASSUME BillingInv, NEW c \in Callers, CommitCheckout(c),
         NEW row \in CheckoutRows, checkout' = [checkout EXCEPT ![c] = row],
         \/ row.phase = "idle"
         \/ /\ row.phase = "calling" /\ row.order \in Orders
            /\ order'[row.order].status # "absent",
         session' \in [Orders -> SessionRows],
         order' \in [Orders -> OrderRows],
         \A o \in Orders :
           \/ /\ o \in checkout[c].expired
              /\ order'[o] = [order[o] EXCEPT !.status = "canceled"]
           \/ /\ o \notin checkout[c].expired
              /\ \/ order'[o] = order[o]
                 \/ order[o].status = "absent" /\ order'[o].status = "awaiting"
  PROVE  BillingInv' /\ Orderly
  <1>1. /\ checkout[c].phase = "guarded"
        /\ openReqs' \subseteq openReqs
        /\ UNCHANGED <<live, vetted, offer, payments, log, ents, overdue, provider,
                       notes, acked, alerts>>
    BY DEF CommitCheckout
  <1>2. /\ checkout[c].expired \subseteq Orders
        /\ \A o \in checkout[c].expired : order[o].status = "awaiting"
    BY <1>1 DEF BillingInv, BillingTypeOK, Held
  <1>3. OrdersOnly
    BY <1>1, <1>2 DEF OrdersOnly
  <1>4. /\ checkout'[c] = row
        /\ \A d \in Callers \ {c} : checkout'[d] = checkout[d]
        /\ checkout' \in [Callers -> CheckoutRows]
    BY DEF BillingInv, BillingTypeOK, CheckoutRows
  <1>5. BillingTypeOK'
    BY <1>1, <1>4 DEF BillingInv, BillingTypeOK, CheckoutRows, SessionRows
  <1>6. ProviderGrows /\ NoNewPayments
    BY <1>1 DEF ProviderGrows, NoNewPayments
  <1>7. CheckoutsStay
    BY <1>4 DEF CheckoutsStay
  <1>8. Held'
    BY <1>4, CommitKeepsLocks
  <1> QED
    BY <1>1, <1>3, <1>5, <1>6, <1>7, <1>8, OrdersOnlyKeepsInv, QuietKeepsInv DEF BillingInv

LEMMA CheckoutCommitKeepsInv ==
  ASSUME BillingInv, NEW c \in Callers,
         CheckoutReturnUrl(c) \/ CheckoutReuseOrder(c) \/ CheckoutNewOrder(c)
  PROVE  BillingInv' /\ Orderly
  <1> DEFINE expired == checkout[c].expired
             oldOrder == OrdersAfterExpiry(expired)
             oldSession == SessionsAfterExpiry(expired)
  <1>1. CommitCheckout(c) /\ checkout[c].phase = "guarded" /\ checkout[c] \in CheckoutRows
    BY DEF CheckoutReturnUrl, CheckoutReuseOrder, CheckoutNewOrder, CommitCheckout,
           BillingInv, BillingTypeOK, CheckoutRows
  <1>2. expired \in SUBSET Orders /\ \A o \in expired : order[o].status = "awaiting"
    BY <1>1 DEF BillingInv, BillingTypeOK, Held
  <1>3. /\ oldOrder \in [Orders -> OrderRows]
        /\ oldSession \in [Orders -> SessionRows]
        /\ \A o \in Orders : oldOrder[o] =
             IF o \in expired THEN [order[o] EXCEPT !.status = "canceled"] ELSE order[o]
    BY <1>2, ExpiryCancels DEF BillingInv, CommerceInv
  <1>4. ASSUME CheckoutReturnUrl(c)
        PROVE  BillingInv' /\ Orderly
    <2>1. /\ order' = oldOrder /\ session' = oldSession
          /\ checkout' = [checkout EXCEPT ![c] = Idle]
          /\ Idle.phase = "idle"
      BY <1>4 DEF CheckoutReturnUrl, Idle
    <2> HIDE DEF expired, oldOrder, oldSession
    <2> QED
      BY <1>1, <1>3, <2>1, IdleIsRow, CommitKeepsInv DEF expired
  <1>5. ASSUME CheckoutReuseOrder(c)
        PROVE  BillingInv' /\ Orderly
    <2>1. PICK o \in Orders :
            /\ Reusable(o, checkout[c].student, OfferTarget[checkout[c].offer], expired)
            /\ session' = [oldSession EXCEPT ![o].status =
                             IF @ = "none" THEN "created" ELSE @]
            /\ checkout' = [checkout EXCEPT ![c].phase = "calling", ![c].order = o,
                                            ![c].expired = {}]
      BY <1>5 DEF CheckoutReuseOrder
    <2>2. order' = oldOrder /\ order[o].status = "awaiting" /\ o \notin expired
      BY <1>5, <2>1 DEF CheckoutReuseOrder, Reusable
    <2> DEFINE row == [checkout[c] EXCEPT !.phase = "calling", !.order = o,
                                          !.expired = {}]
    <2>3. /\ row \in CheckoutRows /\ row.phase = "calling" /\ row.order = o
          /\ checkout' = [checkout EXCEPT ![c] = row]
      BY <1>1, <2>1 DEF CheckoutRows, Phase
    <2>4. session' \in [Orders -> SessionRows]
      BY <1>3, <2>1 DEF SessionRows, SessionStatus
    <2> HIDE DEF row, oldOrder, oldSession
    <2> QED
      BY <1>1, <1>3, <2>2, <2>3, <2>4, CommitKeepsInv
  <1>6. ASSUME CheckoutNewOrder(c)
        PROVE  BillingInv' /\ Orderly
    <2> DEFINE new == [status |-> "awaiting", student |-> checkout[c].student,
                       target |-> OfferTarget[checkout[c].offer],
                       amount |-> offer[checkout[c].offer].price]
    <2>1. PICK o \in Orders :
            /\ order[o].status = "absent"
            /\ order' = [oldOrder EXCEPT ![o] = new]
            /\ session' = [oldSession EXCEPT ![o].status = "created"]
            /\ checkout' = [checkout EXCEPT ![c].phase = "calling", ![c].order = o,
                                            ![c].expired = {}]
      BY <1>6 DEF CheckoutNewOrder
    <2> DEFINE row == [checkout[c] EXCEPT !.phase = "calling", !.order = o,
                                          !.expired = {}]
    <2>2. /\ row \in CheckoutRows /\ row.phase = "calling" /\ row.order = o
          /\ checkout' = [checkout EXCEPT ![c] = row]
      BY <1>1, <2>1 DEF CheckoutRows, Phase
    <2>3. session' \in [Orders -> SessionRows]
      BY <1>3, <2>1 DEF SessionRows, SessionStatus
    <2>4. new \in OrderRows /\ new.status = "awaiting"
      BY <1>1, TargetAssumption
      DEF OrderRows, CheckoutRows, BillingInv, CommerceInv, TypeOK
    <2>5. o \notin expired
      BY <1>2, <2>1
    <2> HIDE DEF row, new, oldOrder, oldSession
    <2>6. /\ order' \in [Orders -> OrderRows]
          /\ order'[o] = new
          /\ \A q \in Orders \ {o} : order'[q] = oldOrder[q]
      BY <1>3, <2>1, <2>4
    <2>7. \A q \in Orders :
            \/ /\ q \in expired
               /\ order'[q] = [order[q] EXCEPT !.status = "canceled"]
            \/ /\ q \notin expired
               /\ \/ order'[q] = order[q]
                  \/ order[q].status = "absent" /\ order'[q].status = "awaiting"
      BY <1>3, <2>1, <2>4, <2>5, <2>6
    <2> QED
      BY <1>1, <2>2, <2>3, <2>4, <2>6, <2>7, CommitKeepsInv
  <1> QED
    BY <1>4, <1>5, <1>6

(* Steps outside of the transaction.                                       *)
LEMMA CheckoutEndsKeepsInv ==
  ASSUME BillingInv, NEW c \in Callers, CheckoutRollback(c) \/ CheckoutLost(c)
  PROVE  BillingInv' /\ Orderly
  <1>1. /\ UNCHANGED commerceVars
        /\ UNCHANGED <<overdue, session, provider, notes, acked, alerts>>
        /\ checkout' = [checkout EXCEPT ![c] = Idle]
        /\ Idle \in CheckoutRows /\ Idle.phase = "idle"
    BY IdleIsRow DEF CheckoutRollback, CheckoutLost, Idle
  <1>2. BillingTypeOK'
    BY <1>1 DEF BillingInv, BillingTypeOK, CheckoutRows
  <1>3. ProviderGrows /\ CheckoutsStay /\ NoNewPayments
    BY <1>1 DEF ProviderGrows, CheckoutsStay, NoNewPayments, BillingInv, BillingTypeOK
  <1>4. LocksStay
    BY <1>1 DEF LocksStay, BillingInv, BillingTypeOK, commerceVars
  <1> QED
    BY <1>1, <1>2, <1>3, <1>4, LocksStayHeld, SessionStepKeepsInv DEF BillingInv

LEMMA InitAcceptedKeepsInv ==
  ASSUME BillingInv, NEW c \in Callers, NEW p \in PaymentIds, InitAccepted(c, p)
  PROVE  BillingInv' /\ Orderly
  <1> DEFINE new == [status |-> "created", order |-> checkout[c].order,
                     amount |-> checkout[c].amount]
             row == [checkout[c] EXCEPT !.phase = "accepted", !.payment = p]
  <1>1. /\ checkout[c].phase = "calling" /\ provider[p].status = "absent"
        /\ provider' = [provider EXCEPT ![p] = new]
        /\ checkout' = [checkout EXCEPT ![c] = row]
        /\ UNCHANGED commerceVars
        /\ UNCHANGED <<overdue, session, notes, acked, alerts>>
    BY DEF InitAccepted
  <1>2. /\ checkout[c] \in CheckoutRows
        /\ checkout[c].order \in Orders
        /\ order[checkout[c].order].status # "absent"
    BY <1>1 DEF BillingInv, BillingTypeOK, CheckoutRows, Placed
  <1>3. /\ row \in CheckoutRows /\ row.phase = "accepted" /\ row.payment = p
        /\ row.order = checkout[c].order
        /\ new.status = "created" /\ new.order = checkout[c].order
        /\ new.amount \in Prices
    BY <1>2 DEF CheckoutRows, Phase
  <1> HIDE DEF new, row
  <1>4. /\ checkout'[c] = row /\ provider'[p] = new
        /\ \A d \in Callers \ {c} : checkout'[d] = checkout[d]
        /\ \A q \in PaymentIds \ {p} : provider'[q] = provider[q]
        /\ order' = order /\ payments' = payments
    BY <1>1 DEF BillingInv, BillingTypeOK, commerceVars
  <1>5. BillingTypeOK'
    <2>1. checkout' \in [Callers -> CheckoutRows]
      BY <1>1, <1>3 DEF BillingInv, BillingTypeOK, CheckoutRows
    <2>2. new \in [status : {"absent", "created", "open", "confirmed", "dead"},
                   order : Orders \cup {NoOrder}, amount : Prices]
      BY <1>2, <1>3 DEF new
    <2> QED
      BY <1>1, <2>1, <2>2 DEF BillingInv, BillingTypeOK, CheckoutRows
  <1>6. ProviderGrows
    BY <1>1, <1>4 DEF ProviderGrows
  <1>7. Held'
    <2>1. LocksStay
      BY <1>3, <1>4 DEF LocksStay
    <2> QED
      BY <2>1, LocksStayHeld DEF BillingInv
  <1>8. Placed'
    BY <1>1, <1>2, <1>3, <1>4 DEF BillingInv, Placed
  <1>9. Announced'
    BY <1>1, <1>4 DEF BillingInv, BillingTypeOK, Announced
  <1>10. OrdersOnly
    BY <1>1 DEF commerceVars, OrdersOnly, OrderRows, BillingInv, CommerceInv, TypeOK
  <1>11. ProviderRecordsJustified'
    BY <1>4, <1>6, <1>10, RecordsStay, OrdersOnlyKeepsInv DEF BillingInv
  <1> QED
    BY <1>5, <1>7, <1>8, <1>9, <1>10, <1>11, OrdersOnlyKeepsInv DEF BillingInv

LEMMA RecordInitKeepsInv ==
  ASSUME BillingInv, NEW c \in Callers, RecordInit(c)
  PROVE  BillingInv' /\ Orderly
  <1> DEFINE o == checkout[c].order
             p == checkout[c].payment
  <1>1. /\ checkout[c].phase = "accepted"
        /\ session' = [session EXCEPT ![o] = [status |-> "initialized", url |-> TRUE,
                                              payment |-> p]]
        /\ provider' = [provider EXCEPT ![p].status = IF @ = "created" THEN "open" ELSE @]
        /\ checkout' = [checkout EXCEPT ![c] = Idle]
        /\ UNCHANGED commerceVars
        /\ UNCHANGED <<overdue, notes, acked, alerts>>
        /\ Idle \in CheckoutRows /\ Idle.phase = "idle"
    BY IdleIsRow DEF RecordInit, Idle
  <1>2. o \in Orders /\ p \in PaymentIds /\ provider[p].status # "absent"
    BY <1>1 DEF BillingInv, Placed
  <1> HIDE DEF o, p
  <1>3. BillingTypeOK'
    BY <1>1, <1>2 DEF BillingInv, BillingTypeOK, CheckoutRows, SessionStatus
  <1>4. ProviderGrows /\ NoNewPayments
    BY <1>1, <1>2 DEF BillingInv, BillingTypeOK, ProviderGrows, NoNewPayments
  <1>5. CheckoutsStay /\ LocksStay
    BY <1>1 DEF CheckoutsStay, LocksStay, BillingInv, BillingTypeOK, commerceVars
  <1> QED
    BY <1>1, <1>3, <1>4, <1>5, LocksStayHeld, SessionStepKeepsInv DEF BillingInv

LEMMA InitRejectedKeepsInv ==
  ASSUME BillingInv, NEW c \in Callers, InitRejected(c)
  PROVE  BillingInv' /\ Orderly
  <1> DEFINE row == [checkout[c] EXCEPT !.phase = "rejected"]
  <1>1. /\ checkout[c].phase \in {"calling", "accepted"}
        /\ session' = [session EXCEPT ![checkout[c].order].status = "failed"]
        /\ checkout' = [checkout EXCEPT ![c] = row]
        /\ UNCHANGED commerceVars
        /\ UNCHANGED <<overdue, provider, notes, acked, alerts>>
    BY DEF InitRejected
  <1>2. checkout[c].order \in Orders /\ checkout[c] \in CheckoutRows
    BY <1>1 DEF BillingInv, Placed, BillingTypeOK, CheckoutRows
  <1>3. row \in CheckoutRows /\ row.phase = "rejected" /\ row.order = checkout[c].order
    BY <1>2 DEF CheckoutRows, Phase
  <1> HIDE DEF row
  <1>4. BillingTypeOK'
    <2>1. session' \in [Orders -> SessionRows]
      <3>1. session' = [session EXCEPT ![checkout[c].order].status = "failed"]
        BY <1>1
      <3> QED
        BY <1>2, <3>1 DEF BillingInv, BillingTypeOK, SessionRows, SessionStatus
    <2> QED
      BY <1>1, <1>3, <2>1 DEF BillingInv, BillingTypeOK, SessionRows, CheckoutRows
  <1>5. ProviderGrows /\ NoNewPayments
    BY <1>1 DEF ProviderGrows, NoNewPayments
  <1>6. CheckoutsStay /\ LocksStay
    BY <1>1, <1>3 DEF CheckoutsStay, LocksStay, BillingInv, BillingTypeOK, commerceVars
  <1> QED
    BY <1>1, <1>4, <1>5, <1>6, LocksStayHeld, SessionStepKeepsInv DEF BillingInv

LEMMA CancelRejectedKeepsInv ==
  ASSUME BillingInv, NEW c \in Callers, CancelRejected(c)
  PROVE  BillingInv' /\ Orderly
  <1> DEFINE o == checkout[c].order
  <1>1. /\ checkout[c].phase = "rejected" /\ ~OrderLocked(o)
        /\ order' = [order EXCEPT ![o].status = IF @ = "awaiting" THEN "canceled" ELSE @]
        /\ checkout' = [checkout EXCEPT ![c] = Idle]
        /\ UNCHANGED <<live, vetted, offer, openReqs, payments, log, ents, overdue,
                       session, provider, notes, acked, alerts>>
        /\ Idle \in CheckoutRows /\ Idle.phase = "idle"
    BY IdleIsRow DEF CancelRejected, Idle
  <1>2. o \in Orders
    BY <1>1 DEF BillingInv, Placed
  <1> HIDE DEF o
  <1>3. OrdersOnly
    BY <1>1, <1>2 DEF OrdersOnly, OrderRows, BillingInv, CommerceInv, TypeOK
  <1>4. BillingTypeOK'
    BY <1>1 DEF BillingInv, BillingTypeOK, CheckoutRows
  <1>5. ProviderGrows /\ CheckoutsStay /\ NoNewPayments
    BY <1>1 DEF ProviderGrows, CheckoutsStay, NoNewPayments, BillingInv, BillingTypeOK
  <1>6. LocksStay
    <2> SUFFICES ASSUME NEW d \in Callers, checkout'[d].phase = "guarded",
                        NEW q \in checkout[d].expired
                 PROVE  order'[q].status = order[q].status
      BY <1>1 DEF LocksStay, BillingInv, BillingTypeOK
    <2>1. checkout[d].phase = "guarded" /\ q \in Orders
      BY <1>1 DEF BillingInv, BillingTypeOK
    <2>2. q # o
      BY <1>1, <2>1 DEF OrderLocked
    <2> QED
      BY <1>1, <2>1, <2>2 DEF BillingInv, CommerceInv, TypeOK
  <1> QED
    BY <1>1, <1>3, <1>4, <1>5, <1>6, LocksStayHeld, OrdersOnlyKeepsInv,
       QuietKeepsInv DEF BillingInv

-----------------------------------------------------------------------------
(* The provider, and its notifications.                                    *)

LEMMA EnvironmentKeepsInv ==
  ASSUME BillingInv, NEW p \in PaymentIds, Environment(p)
  PROVE  BillingInv' /\ Orderly
  <1>1. PICK kind \in NoteKind :
          /\ notes' = notes \cup {<<p, kind>>}
          /\ provider[p].status \notin {"absent", "confirmed"}
          /\ \/ provider' = provider /\ kind = "PENDING"
             \/ provider' = [provider EXCEPT ![p].status = "confirmed"]
             \/ /\ provider' = [provider EXCEPT ![p].status = "dead"]
                /\ kind # "CONFIRMED"
    BY DEF Environment, ProviderProgress, CustomerPays, PaymentDies, Notify, NoteKind
  <1>2. /\ UNCHANGED commerceVars
        /\ UNCHANGED <<overdue, session, checkout, acked, alerts>>
    BY DEF Environment, ProviderProgress, CustomerPays, PaymentDies
  <1>3. /\ provider'[p].status # "absent"
        /\ kind = "CONFIRMED" => provider'[p].status = "confirmed"
        /\ \A q \in PaymentIds \ {p} : provider'[q] = provider[q]
    BY <1>1 DEF BillingInv, BillingTypeOK
  <1>4. BillingTypeOK'
    <2>1. provider' \in [PaymentIds -> [status : {"absent", "created", "open",
                                               "confirmed", "dead"},
                                    order : Orders \cup {NoOrder}, amount : Prices]]
      BY <1>1 DEF BillingInv, BillingTypeOK
    <2>2. notes' \subseteq PaymentIds \X NoteKind
      BY <1>1 DEF BillingInv, BillingTypeOK
    <2> QED
      BY <1>2, <2>1, <2>2 DEF BillingInv, BillingTypeOK
  <1>5. ProviderGrows /\ NoNewPayments
    BY <1>1, <1>3, SMTT(30) DEF BillingInv, BillingTypeOK, ProviderGrows, NoNewPayments
  <1>6. CheckoutsStay /\ LocksStay
    BY <1>2 DEF CheckoutsStay, LocksStay, commerceVars
  <1>7. OrdersOnly
    BY <1>2 DEF commerceVars, OrdersOnly, OrderRows, BillingInv, CommerceInv, TypeOK
  <1>8. CommerceInv' /\ Orderly /\ OrdersStay
    BY <1>7, OrdersOnlyKeepsInv DEF BillingInv
  <1>9. Announced'
    <2> SUFFICES ASSUME NEW n \in notes'
                 PROVE  /\ provider'[n[1]].status # "absent"
                        /\ n[2] = "CONFIRMED" => provider'[n[1]].status = "confirmed"
      BY DEF Announced
    <2>1. CASE n = <<p, kind>>
      BY <1>3, <2>1
    <2>2. CASE n \in notes
      BY <1>5, <2>2 DEF BillingInv, BillingTypeOK, Announced, ProviderGrows
    <2> QED
      BY <1>1, <2>1, <2>2
  <1>10. Placed' /\ Held'
    BY <1>5, <1>6, <1>8, LinksStay, LocksStayHeld DEF BillingInv
  <1>11. ProviderRecordsJustified'
    BY <1>2, <1>5, <1>8, RecordsStay DEF commerceVars
  <1> QED
    BY <1>4, <1>8, <1>9, <1>10, <1>11 DEF BillingInv

(* What every notification finds and leaves alone.                         *)
LEMMA Received ==
  ASSUME BillingInv, NEW p \in PaymentIds, NEW kind \in NoteKind, Receive(p, kind)
  PROVE  /\ provider[p].order \in Orders
         /\ kind = "CONFIRMED" => provider[p].status = "confirmed"
         /\ UNCHANGED <<live, vetted, offer, openReqs, overdue, checkout, provider, notes>>
         /\ acked' \subseteq PaymentIds
         /\ ~OrderLocked(provider[p].order)
         /\ ProviderGrows /\ NoNewPayments /\ CheckoutsStay
  <1>1. provider[p].status # "absent" /\ (kind = "CONFIRMED" => provider[p].status = "confirmed")
    <2>1. <<p, kind>> \in notes
      BY DEF Receive
    <2> QED
      BY <2>1 DEF BillingInv, Announced
  <1>2. provider[p].order \in Orders
    BY <1>1 DEF BillingInv, Placed
  <1> QED
    BY <1>1, <1>2 DEF Receive, WebhookFrame, BillingInv, BillingTypeOK, ProviderGrows,
       NoNewPayments, CheckoutsStay

LEMMA SetSessionType ==
  ASSUME BillingTypeOK, NEW p \in PaymentIds, NEW status \in SessionStatus,
         provider[p].order \in Orders, SetSession(p, status)
  PROVE  session' \in [Orders -> SessionRows]
  <1> DEFINE o == provider[p].order
             row == [session[o] EXCEPT !.payment = p, !.status = status]
  <1>1. session' = [session EXCEPT ![o] = row] /\ session \in [Orders -> SessionRows]
    BY DEF SetSession, BillingTypeOK, SessionRows
  <1>2. row \in SessionRows
    BY <1>1 DEF SessionRows
  <1> QED
    BY <1>1, <1>2

(* Every notification but the one that settles.                            *)
LEMMA WebhookQuietKeepsInv ==
  ASSUME BillingInv, NEW p \in PaymentIds,
         \/ \E kind \in NoteKind : WebhookFailed(p, kind)
         \/ WebhookPending(p) \/ WebhookMismatch(p)
         \/ WebhookAlreadyFulfilled(p) \/ WebhookCanceledOrder(p)
  PROVE  BillingInv' /\ Orderly
  <1> DEFINE o == provider[p].order
  <1>1. PICK kind \in NoteKind, status \in SessionStatus :
          /\ Receive(p, kind) /\ SetSession(p, status)
          /\ UNCHANGED <<payments, log, ents>>
          /\ alerts' \subseteq alerts \cup {p}
          /\ \/ order' = order
             \/ order' = [order EXCEPT ![o].status =
                            IF @ = "awaiting" THEN "canceled" ELSE @]
    <2>1. CASE \E kind \in NoteKind : WebhookFailed(p, kind)
      BY <2>1 DEF WebhookFailed, SessionStatus
    <2>2. CASE WebhookPending(p)
      BY <2>2 DEF WebhookPending, SessionStatus, NoteKind
    <2>3. CASE WebhookMismatch(p)
      BY <2>3 DEF WebhookMismatch, SessionStatus, NoteKind
    <2>4. CASE WebhookAlreadyFulfilled(p)
      BY <2>4 DEF WebhookAlreadyFulfilled, SessionStatus, NoteKind
    <2>5. CASE WebhookCanceledOrder(p)
      <3>1. Receive(p, "CONFIRMED") /\ "CONFIRMED" \in NoteKind
        BY <2>5 DEF WebhookCanceledOrder, NoteKind
      <3>2. session[o].status \in SessionStatus
        BY <3>1, Received DEF BillingInv, BillingTypeOK
      <3> QED
        BY <2>5, <3>1, <3>2 DEF WebhookCanceledOrder
    <2> QED
      BY <2>1, <2>2, <2>3, <2>4, <2>5
  <1>2. /\ o \in Orders
        /\ UNCHANGED <<live, vetted, offer, openReqs, overdue, checkout, provider, notes>>
        /\ acked' \subseteq PaymentIds
        /\ ~OrderLocked(o)
        /\ ProviderGrows /\ NoNewPayments /\ CheckoutsStay
    BY <1>1, Received
  <1>3. session' \in [Orders -> SessionRows]
    BY <1>1, <1>2, SetSessionType DEF BillingInv
  <1> HIDE DEF o
  <1>4. BillingTypeOK'
    BY <1>1, <1>2, <1>3 DEF BillingInv, BillingTypeOK, SessionRows
  <1>5. OrdersOnly
    BY <1>1, <1>2 DEF OrdersOnly, OrderRows, BillingInv, CommerceInv, TypeOK
  <1>6. LocksStay
    <2> SUFFICES ASSUME NEW d \in Callers, checkout[d].phase = "guarded",
                        NEW q \in checkout[d].expired
                 PROVE  order'[q].status = order[q].status
      BY <1>2 DEF LocksStay
    <2>1. q \in Orders /\ q # o
      BY <1>2 DEF OrderLocked, BillingInv, BillingTypeOK
    <2> QED
      BY <1>1, <2>1 DEF BillingInv, CommerceInv, TypeOK
  <1> QED
    BY <1>1, <1>2, <1>4, <1>5, <1>6, LocksStayHeld, OrdersOnlyKeepsInv,
       QuietKeepsInv DEF BillingInv

LEMMA WebhookFulfilKeepsInv ==
  ASSUME BillingInv, NEW p \in PaymentIds, WebhookFulfil(p)
  PROVE  BillingInv' /\ Settling
  <1> DEFINE o == provider[p].order
             r == [order |-> o, ref |-> p, amount |-> order[o].amount]
  <1>1. /\ Receive(p, "CONFIRMED") /\ "CONFIRMED" \in NoteKind
        /\ provider[p].amount = order[o].amount
        /\ order[o].status = "awaiting"
        /\ Fulfil(o, p, order[o].amount)
        /\ SetSession(p, "paid") /\ "paid" \in SessionStatus
        /\ alerts' = alerts
    BY DEF WebhookFulfil, NoteKind, SessionStatus
  <1>2. /\ o \in Orders
        /\ provider[p].status = "confirmed"
        /\ UNCHANGED <<live, vetted, offer, openReqs, overdue, checkout, provider, notes>>
        /\ acked' \subseteq PaymentIds
        /\ ~OrderLocked(o)
        /\ ProviderGrows /\ NoNewPayments /\ CheckoutsStay
    BY <1>1, Received
  <1>3. session' \in [Orders -> SessionRows]
    BY <1>1, <1>2, SetSessionType DEF BillingInv
  <1>4. order[o].amount \in Prices /\ p \in Refs
    BY <1>2 DEF BillingInv, CommerceInv, TypeOK, Refs
  <1> HIDE DEF o
  <1>5. CommerceInv' /\ Settling
    BY <1>1, <1>2, <1>4, FulfilKeepsInv DEF BillingInv, Settling
  <1>6. OrdersStay
    BY <1>5, KindsLetOrdersStay DEF BillingInv, CommerceInv
  <1>7. BillingTypeOK'
    BY <1>1, <1>2, <1>3 DEF BillingInv, BillingTypeOK, SessionRows
  <1>8. Held'
    <2> SUFFICES ASSUME NEW d \in Callers, checkout[d].phase = "guarded",
                        NEW q \in checkout[d].expired
                 PROVE  order'[q].status = order[q].status
      BY <1>2, LocksStayHeld DEF LocksStay, BillingInv
    <2>1. q \in Orders /\ q # o
      BY <1>2 DEF OrderLocked, BillingInv, BillingTypeOK
    <2> QED
      BY <1>1, <2>1 DEF Fulfil, BillingInv, CommerceInv, TypeOK
  <1>9. Placed' /\ Announced'
    BY <1>2, <1>6, LinksStay DEF BillingInv, Announced
  <1>10. ProviderRecordsJustified'
    <2> SUFFICES ASSUME NEW x \in payments', x.ref \in PaymentIds
                 PROVE  /\ provider'[x.ref].status = "confirmed"
                        /\ provider'[x.ref].order = x.order
                        /\ provider'[x.ref].amount = x.amount
                        /\ x.amount = order'[x.order].amount
      BY DEF ProviderRecordsJustified
    <2>1. CASE x = r
      <3>1. x.ref = p /\ x.order = o /\ x.amount = order[o].amount
        BY <2>1
      <3>2. order'[o].amount = order[o].amount
        BY <1>1, <1>2, <1>6 DEF OrdersStay
      <3> QED
        BY <1>1, <1>2, <3>1, <3>2 DEF o
    <2>2. CASE x \in payments
      <3>1. /\ x.order \in Orders /\ order[x.order].status # "absent"
        BY <2>2 DEF BillingInv, CommerceInv, TypeOK, FulfilledOnce, PaymentsOf
      <3> QED
        BY <1>2, <1>6, <2>2, <3>1 DEF OrdersStay, BillingInv, ProviderRecordsJustified
    <2> QED
      BY <1>1, <2>1, <2>2 DEF Fulfil
  <1> QED
    BY <1>5, <1>7, <1>8, <1>9, <1>10 DEF BillingInv

-----------------------------------------------------------------------------
LEMMA BillingInitInv == Init => BillingInv
  <1> SUFFICES ASSUME Init PROVE BillingInv
    OBVIOUS
  <1>1. CommerceInv
    BY InitCommerceInv DEF Init
  <1>2. BillingTypeOK
    <2>1. checkout \in [Callers -> CheckoutRows]
      BY IdleIsRow DEF Init, BillingInit
    <2>2. (CHOOSE a \in Prices : TRUE) \in Prices
      BY IdAssumption
    <2> QED
      BY <2>1, <2>2 DEF Init, BillingInit, BillingTypeOK, CheckoutRows, NoSession,
                        SessionStatus
  <1>3. Held /\ Placed
    BY DEF Init, BillingInit, Held, Placed, Idle
  <1>4. Announced /\ ProviderRecordsJustified
    BY DEF Init, CommerceInit, BillingInit, Announced, ProviderRecordsJustified
  <1> QED
    BY <1>1, <1>2, <1>3, <1>4 DEF BillingInv

(* Every step keeps the invariant, and is orderly or settles an order.     *)
LEMMA BillingStep ==
  ASSUME BillingInv, [Next]_vars
  PROVE  BillingInv' /\ (Orderly \/ Settling)
  <1>1. CASE BackOffice
    BY <1>1, BackOfficeKeepsInv
  <1>2. ASSUME NEW o \in Orders, OrderGrowsOld(o)
        PROVE  BillingInv' /\ Orderly
    BY <1>2, OrderGrowsOldKeepsInv
  <1>3. ASSUME NEW s \in Students, ListParentChildOffers(s)
        PROVE  BillingInv' /\ Orderly
    BY <1>3, ListParentChildOffersKeepsInv
  <1>4. ASSUME NEW c \in Callers, Checkout(c)
        PROVE  BillingInv' /\ Orderly
    <2>1. CASE \E s \in Students, f \in Offers, self \in BOOLEAN :
                 CheckoutGuard(c, s, f, self)
      BY <2>1, CheckoutGuardKeepsInv
    <2>2. CASE CheckoutReturnUrl(c) \/ CheckoutReuseOrder(c) \/ CheckoutNewOrder(c)
      BY <2>2, CheckoutCommitKeepsInv
    <2>3. CASE CheckoutRollback(c) \/ CheckoutLost(c)
      BY <2>3, CheckoutEndsKeepsInv
    <2>4. CASE \E p \in PaymentIds : InitAccepted(c, p)
      BY <2>4, InitAcceptedKeepsInv
    <2>5. CASE RecordInit(c)
      BY <2>5, RecordInitKeepsInv
    <2>6. CASE InitRejected(c)
      BY <2>6, InitRejectedKeepsInv
    <2>7. CASE CancelRejected(c)
      BY <2>7, CancelRejectedKeepsInv
    <2> QED
      BY <1>4, <2>1, <2>2, <2>3, <2>4, <2>5, <2>6, <2>7 DEF Checkout
  <1>5. ASSUME NEW p \in PaymentIds, Environment(p)
        PROVE  BillingInv' /\ Orderly
    BY <1>5, EnvironmentKeepsInv
  <1>6. ASSUME NEW p \in PaymentIds, Webhook(p)
        PROVE  BillingInv' /\ (Orderly \/ Settling)
    BY <1>6, WebhookQuietKeepsInv, WebhookFulfilKeepsInv DEF Webhook
  <1>7. CASE UNCHANGED vars
    <2>1. UNCHANGED commerceVars
          /\ UNCHANGED <<overdue, session, checkout, provider, notes, acked, alerts>>
      BY <1>7 DEF vars, billingVars
    <2>2. BillingTypeOK' /\ Held'
      BY <2>1 DEF BillingInv, BillingTypeOK, Held, commerceVars
    <2>3. ProviderGrows /\ CheckoutsStay /\ NoNewPayments
      BY <2>1 DEF ProviderGrows, CheckoutsStay, NoNewPayments
    <2> QED
      BY <2>1, <2>2, <2>3, SessionStepKeepsInv
  <1> QED
    BY <1>1, <1>2, <1>3, <1>4, <1>5, <1>6, <1>7 DEF Next

(* The invariant of the whole: commerce tables, requests in flight and     *)
(* provider.                                                               *)
THEOREM BillingInvariant == Spec => []BillingInv
  <1>1. Init => BillingInv
    BY BillingInitInv
  <1>2. BillingInv /\ [Next]_vars => BillingInv'
    BY BillingStep
  <1> QED
    BY <1>1, <1>2, PTL DEF Spec

(* Rows, requests and provider payments keep their types.                  *)
THEOREM BillingTypesKept == Spec => []BillingTypeOK
  <1>1. BillingInv => BillingTypeOK
    BY DEF BillingInv
  <1> QED
    BY <1>1, BillingInvariant, PTL

(* With webhooks, checkouts and expiry next to the back office, an order   *)
(* and the evidence of its payment still appear together and exactly once. *)
THEOREM BillingFulfilsOnce == Spec => []FulfilledOnce
  <1>1. BillingInv => FulfilledOnce
    BY DEF BillingInv, CommerceInv
  <1> QED
    BY <1>1, BillingInvariant, PTL

(* A payment record with a provider reference belongs to a confirmed       *)
(* payment of its order, for the amount of the order's price snapshot.     *)
THEOREM ProviderRecordsAreJustified == Spec => []ProviderRecordsJustified
  <1>1. BillingInv => ProviderRecordsJustified
    BY DEF BillingInv
  <1> QED
    BY <1>1, BillingInvariant, PTL

(* Online billing implements the abstract sale.                            *)
THEOREM BillingRefinesSale == Spec => SaleProtocol
  <1>1. Init => Sale!Init
    BY InitIsSaleInit DEF Init
  <1>2. BillingInv /\ [Next]_vars => [Sale!Next]_(Sale!sales)
    BY BillingStep, KindsAreSaleSteps DEF BillingInv
  <1> QED
    BY <1>1, <1>2, BillingInvariant, PTL DEF Spec, SaleProtocol, Sale!Spec

-----------------------------------------------------------------------------
(***************************************************************************)
(* What the payment sessions and the acknowledgements of the server say.   *)
(*                                                                         *)
(* Sessions and acknowledgements are only ever added to what the orders    *)
(* and the provider have already committed to, and neither of those moves  *)
(* back: a fulfilled order stays fulfilled, amounts and the order of a     *)
(* payment never change, an alert is never taken back.                     *)
(***************************************************************************)

(* An acknowledged payment is one the provider has.                        *)
AckedExists == \A p \in acked : provider[p].status # "absent"

(* A session that names a payment names one the provider has for it.       *)
SessionsNamed ==
  \A o \in Orders : session[o].payment # NoPayment =>
    /\ provider[session[o].payment].status # "absent"
    /\ provider[session[o].payment].order = o

RecordsInv ==
  /\ AckedExists
  /\ SessionsNamed
  /\ PaidSessionFulfilled
  /\ ConfirmedNeverDropped

-----------------------------------------------------------------------------
(* What a step may do to the records.                                      *)

FulfilledStays ==
  \A o \in Orders : order[o].status = "fulfilled" => order'[o].status = "fulfilled"

(* A session takes over a payment of its own order only, and becomes paid  *)
(* only if the order is fulfilled.                                         *)
SessionsTell ==
  \A o \in Orders :
    /\ \/ session'[o].payment = session[o].payment
       \/ /\ session'[o].payment \in PaymentIds
          /\ provider[session'[o].payment].status # "absent"
          /\ provider[session'[o].payment].order = o
    /\ session'[o].status = "paid" =>
         session[o].status = "paid" \/ order'[o].status = "fulfilled"

(* A confirmation is acknowledged together with what settles it.           *)
AcksTell ==
  /\ alerts \subseteq alerts'
  /\ \A p \in acked' \ acked :
       /\ provider[p].status # "absent"
       /\ \/ order'[provider[p].order].status = "fulfilled"
          \/ p \in alerts'
          \/ provider[p].amount # order'[provider[p].order].amount

LEMMA KindsKeepFulfilled ==
  ASSUME TypeOK, Orderly \/ Settling
  PROVE  OrdersStay /\ FulfilledStays
  <1>1. OrdersStay
    BY KindsLetOrdersStay
  <1>2. FulfilledStays
    BY KindsAreFinal DEF FulfilledStays
  <1> QED
    BY <1>1, <1>2

LEMMA TellingKeepsRecords ==
  ASSUME BillingInv, BillingInv', RecordsInv, OrdersStay, FulfilledStays,
         ProviderGrows, SessionsTell, AcksTell
  PROVE  RecordsInv'
  <1>1. acked' \subseteq PaymentIds /\ acked \subseteq PaymentIds
    BY DEF BillingInv, BillingTypeOK
  <1>2. \A o \in Orders : session[o].payment \in PaymentIds \cup {NoPayment}
    BY DEF BillingInv, BillingTypeOK
  <1>3. AckedExists'
    BY <1>1 DEF RecordsInv, AckedExists, AcksTell, ProviderGrows
  <1>4. SessionsNamed'
    <2> SUFFICES ASSUME NEW o \in Orders, session'[o].payment # NoPayment
                 PROVE  /\ provider'[session'[o].payment].status # "absent"
                        /\ provider'[session'[o].payment].order = o
      BY DEF SessionsNamed
    <2>1. /\ session'[o].payment \in PaymentIds
          /\ provider[session'[o].payment].status # "absent"
          /\ provider[session'[o].payment].order = o
      BY <1>2 DEF SessionsTell, RecordsInv, SessionsNamed
    <2> QED
      BY <2>1 DEF ProviderGrows
  <1>5. PaidSessionFulfilled'
    BY DEF RecordsInv, PaidSessionFulfilled, SessionsTell, FulfilledStays
  <1>6. ConfirmedNeverDropped'
    <2> SUFFICES ASSUME NEW p \in PaymentIds, p \in acked'
                 PROVE  \/ order'[provider'[p].order].status = "fulfilled"
                        \/ p \in alerts'
                        \/ provider'[p].amount # order'[provider'[p].order].amount
      BY DEF ConfirmedNeverDropped
    <2>1. provider[p].status # "absent"
      BY DEF RecordsInv, AckedExists, AcksTell
    <2>2. /\ provider'[p].order = provider[p].order
          /\ provider'[p].amount = provider[p].amount
          /\ provider[p].order \in Orders
          /\ order[provider[p].order].status # "absent"
      BY <2>1 DEF ProviderGrows, BillingInv, Placed
    <2>3. CASE p \in acked
      BY <2>2, <2>3
      DEF RecordsInv, ConfirmedNeverDropped, AcksTell, FulfilledStays, OrdersStay
    <2>4. CASE p \notin acked
      BY <2>2, <2>4 DEF AcksTell
    <2> QED
      BY <2>3, <2>4
  <1> QED
    BY <1>3, <1>4, <1>5, <1>6 DEF RecordsInv

-----------------------------------------------------------------------------
(* The provider's payments only ever progress.                             *)

LEMMA ProviderStep ==
  ASSUME BillingInv, [Next]_vars
  PROVE  ProviderGrows
  <1>1. ASSUME provider' = provider
        PROVE  ProviderGrows
    BY <1>1 DEF ProviderGrows
  <1>2. CASE BackOffice
    BY <1>1, <1>2 DEF BackOffice, billingVars
  <1>3. CASE \/ \E o \in Orders : OrderGrowsOld(o)
             \/ \E s \in Students : ListParentChildOffers(s)
    BY <1>1, <1>3 DEF OrderGrowsOld, ListParentChildOffers
  <1>4. ASSUME NEW c \in Callers, Checkout(c)
        PROVE  ProviderGrows
    <2>1. ASSUME NEW p \in PaymentIds, InitAccepted(c, p)
          PROVE  ProviderGrows
      <3>1. /\ provider[p].status = "absent"
            /\ \A q \in PaymentIds \ {p} : provider'[q] = provider[q]
        BY <2>1 DEF InitAccepted, BillingInv, BillingTypeOK
      <3> QED
        BY <3>1 DEF ProviderGrows
    <2>2. CASE RecordInit(c)
      BY <2>2 DEF RecordInit, ProviderGrows, BillingInv, BillingTypeOK
    <2>3. CASE \/ \E s \in Students, f \in Offers, self \in BOOLEAN :
                    CheckoutGuard(c, s, f, self)
               \/ CheckoutReturnUrl(c) \/ CheckoutReuseOrder(c) \/ CheckoutNewOrder(c)
               \/ CheckoutRollback(c) \/ CheckoutLost(c)
               \/ InitRejected(c) \/ CancelRejected(c)
      BY <1>1, <2>3
      DEF CheckoutGuard, CheckoutReturnUrl, CheckoutReuseOrder, CheckoutNewOrder,
          CommitCheckout, CheckoutRollback, CheckoutLost, InitRejected, CancelRejected
    <2> QED
      BY <1>4, <2>1, <2>2, <2>3 DEF Checkout
  <1>5. ASSUME NEW p \in PaymentIds, Environment(p)
        PROVE  ProviderGrows
    BY <1>5
    DEF Environment, ProviderProgress, CustomerPays, PaymentDies, ProviderGrows,
        BillingInv, BillingTypeOK
  <1>6. ASSUME NEW p \in PaymentIds, Webhook(p)
        PROVE  ProviderGrows
    BY <1>1, <1>6
    DEF Webhook, WebhookFailed, WebhookPending, WebhookMismatch, WebhookAlreadyFulfilled,
        WebhookCanceledOrder, WebhookFulfil, Receive, WebhookFrame
  <1>7. CASE UNCHANGED vars
    BY <1>1, <1>7 DEF vars, billingVars
  <1> QED
    BY <1>2, <1>3, <1>4, <1>5, <1>6, <1>7 DEF Next

-----------------------------------------------------------------------------
(* Sessions and acknowledgements, step by step.                            *)

LEMMA SilentTells ==
  ASSUME UNCHANGED <<session, acked, alerts>>
  PROVE  SessionsTell /\ AcksTell
  BY DEF SessionsTell, AcksTell

LEMMA ExpiryTells ==
  ASSUME BillingInv, NEW expired \in SUBSET Orders, NEW o \in Orders
  PROVE  /\ SessionsAfterExpiry(expired)[o].payment = session[o].payment
         /\ SessionsAfterExpiry(expired)[o].status \in {session[o].status, "canceled"}
         /\ SessionsAfterExpiry(expired)[o] \in SessionRows
  <1>1. session[o] \in SessionRows
    BY DEF BillingInv, BillingTypeOK, SessionRows
  <1> QED
    BY <1>1 DEF SessionsAfterExpiry, SessionRows, SessionStatus

LEMMA CommitTells ==
  ASSUME BillingInv, NEW c \in Callers,
         CheckoutReturnUrl(c) \/ CheckoutReuseOrder(c) \/ CheckoutNewOrder(c)
  PROVE  SessionsTell /\ AcksTell
  <1> DEFINE old == SessionsAfterExpiry(checkout[c].expired)
  <1>1. /\ UNCHANGED <<provider, acked, alerts>>
        /\ \/ session' = old
           \/ \E o \in Orders : session' = [old EXCEPT ![o].status =
                                              IF @ = "none" THEN "created" ELSE @]
           \/ \E o \in Orders : session' = [old EXCEPT ![o].status = "created"]
    BY DEF CheckoutReturnUrl, CheckoutReuseOrder, CheckoutNewOrder, CommitCheckout
  <1>2. checkout[c].expired \in SUBSET Orders
    BY DEF BillingInv, BillingTypeOK
  <1>3. /\ old \in [Orders -> SessionRows]
        /\ \A o \in Orders : /\ old[o].payment = session[o].payment
                             /\ old[o].status \in {session[o].status, "canceled"}
    <2>1. DOMAIN old = Orders /\ old = [o \in Orders |-> old[o]]
      BY DEF SessionsAfterExpiry
    <2> HIDE DEF old
    <2> QED
      BY <1>2, <2>1, ExpiryTells DEF old
  <1> HIDE DEF old
  <1>4. \A o \in Orders : /\ session'[o].payment = session[o].payment
                          /\ session'[o].status \in {session[o].status, "canceled", "created"}
    BY <1>1, <1>3 DEF SessionRows
  <1> QED
    BY <1>1, <1>3, <1>4 DEF SessionsTell, AcksTell

LEMMA RecordInitTells ==
  ASSUME BillingInv, NEW c \in Callers, RecordInit(c)
  PROVE  SessionsTell /\ AcksTell
  <1>1. /\ checkout[c].phase = "accepted"
        /\ session' = [session EXCEPT ![checkout[c].order] =
             [status |-> "initialized", url |-> TRUE, payment |-> checkout[c].payment]]
        /\ UNCHANGED <<acked, alerts>>
    BY DEF RecordInit
  <1>2. /\ checkout[c].payment \in PaymentIds
        /\ provider[checkout[c].payment].status # "absent"
        /\ provider[checkout[c].payment].order = checkout[c].order
    BY <1>1 DEF BillingInv, Placed
  <1> QED
    BY <1>1, <1>2 DEF BillingInv, BillingTypeOK, SessionsTell, AcksTell

LEMMA InitRejectedTells ==
  ASSUME BillingInv, NEW c \in Callers, InitRejected(c)
  PROVE  SessionsTell /\ AcksTell
  BY DEF InitRejected, BillingInv, BillingTypeOK, SessionsTell, AcksTell

(* Every notification names its payment in the session of its order.       *)
LEMMA WebhookTells ==
  ASSUME BillingInv, NEW p \in PaymentIds, NEW kind \in NoteKind,
         NEW status \in SessionStatus,
         Receive(p, kind), SetSession(p, status),
         status = "paid" => \/ session[provider[p].order].status = "paid"
                            \/ order'[provider[p].order].status = "fulfilled",
         alerts \subseteq alerts',
         kind = "CONFIRMED" =>
           \/ order'[provider[p].order].status = "fulfilled"
           \/ p \in alerts'
           \/ provider[p].amount # order'[provider[p].order].amount
  PROVE  SessionsTell /\ AcksTell
  <1> DEFINE o == provider[p].order
  <1>1. o \in Orders /\ provider[p].status # "absent"
    <2>1. <<p, kind>> \in notes
      BY DEF Receive
    <2> QED
      BY <2>1 DEF BillingInv, Announced, Placed
  <1>2. /\ session'[o].payment = p /\ session'[o].status = status
        /\ \A q \in Orders \ {o} : session'[q] = session[q]
    BY <1>1 DEF SetSession, BillingInv, BillingTypeOK
  <1>3. SessionsTell
    BY <1>1, <1>2 DEF SessionsTell
  <1>4. AcksTell
    BY <1>1 DEF Receive, AcksTell
  <1> QED
    BY <1>3, <1>4

LEMMA WebhookStepTells ==
  ASSUME BillingInv, NEW p \in PaymentIds, Webhook(p)
  PROVE  SessionsTell /\ AcksTell
  <1> DEFINE o == provider[p].order
  <1>0. "CONFIRMED" \in NoteKind /\ "PENDING" \in NoteKind
    BY DEF NoteKind
  <1>1. ASSUME NEW kind \in NoteKind, WebhookFailed(p, kind)
        PROVE  SessionsTell /\ AcksTell
    <2>1. PICK status \in SessionStatus \ {"paid"} : SetSession(p, status)
      BY <1>1 DEF WebhookFailed, SessionStatus
    <2>2. Receive(p, kind) /\ kind # "CONFIRMED" /\ alerts' = alerts
      BY <1>1 DEF WebhookFailed
    <2> QED
      BY <2>1, <2>2, WebhookTells
  <1>2. CASE WebhookPending(p)
    <2>1. /\ Receive(p, "PENDING") /\ SetSession(p, "initialized") /\ alerts' = alerts
          /\ "initialized" \in SessionStatus
      BY <1>2 DEF WebhookPending, SessionStatus
    <2> QED
      BY <1>0, <2>1, WebhookTells
  <1>3. CASE WebhookMismatch(p)
    <2>1. /\ Receive(p, "CONFIRMED") /\ SetSession(p, "mismatch")
          /\ alerts' = alerts /\ order' = order
          /\ provider[p].amount # order[provider[p].order].amount
          /\ "mismatch" \in SessionStatus
      BY <1>3 DEF WebhookMismatch, SessionStatus
    <2> QED
      BY <1>0, <2>1, WebhookTells
  <1>4. CASE WebhookAlreadyFulfilled(p)
    <2>1. /\ Receive(p, "CONFIRMED") /\ SetSession(p, "paid")
          /\ alerts' = alerts /\ order' = order
          /\ order[provider[p].order].status = "fulfilled"
          /\ "paid" \in SessionStatus
      BY <1>4 DEF WebhookAlreadyFulfilled, SessionStatus
    <2> QED
      BY <1>0, <2>1, WebhookTells
  <1>5. CASE WebhookCanceledOrder(p)
    <2>1. /\ Receive(p, "CONFIRMED") /\ SetSession(p, session[o].status)
          /\ alerts' = alerts \cup {p}
      BY <1>5 DEF WebhookCanceledOrder
    <2>2. session[o].status \in SessionStatus
      BY <1>0, <2>1, Received DEF BillingInv, BillingTypeOK
    <2> QED
      BY <1>0, <2>1, <2>2, WebhookTells
  <1>6. CASE WebhookFulfil(p)
    <2>1. /\ Receive(p, "CONFIRMED") /\ SetSession(p, "paid") /\ alerts' = alerts
          /\ Fulfil(o, p, order[o].amount) /\ "paid" \in SessionStatus
      BY <1>6 DEF WebhookFulfil, SessionStatus
    <2>2. order'[o].status = "fulfilled"
      BY <1>0, <2>1, Received DEF Fulfil, BillingInv, CommerceInv, TypeOK
    <2> QED
      BY <1>0, <2>1, <2>2, WebhookTells
  <1> QED
    BY <1>1, <1>2, <1>3, <1>4, <1>5, <1>6 DEF Webhook

LEMMA StepTells ==
  ASSUME BillingInv, [Next]_vars
  PROVE  SessionsTell /\ AcksTell
  <1>1. CASE BackOffice
    BY <1>1, SilentTells DEF BackOffice, billingVars
  <1>2. ASSUME NEW o \in Orders, OrderGrowsOld(o)
        PROVE  SessionsTell /\ AcksTell
    BY <1>2, SilentTells DEF OrderGrowsOld
  <1>3. ASSUME NEW s \in Students, ListParentChildOffers(s)
        PROVE  SessionsTell /\ AcksTell
    <2>1. /\ session' = SessionsAfterExpiry(Expired(s))
          /\ UNCHANGED <<acked, alerts>>
          /\ Expired(s) \in SUBSET Orders
      BY <1>3 DEF ListParentChildOffers, Expired, BillingInv, BillingTypeOK
    <2> QED
      BY <2>1, ExpiryTells DEF SessionsTell, AcksTell
  <1>4. ASSUME NEW c \in Callers, Checkout(c)
        PROVE  SessionsTell /\ AcksTell
    <2>1. CASE CheckoutReturnUrl(c) \/ CheckoutReuseOrder(c) \/ CheckoutNewOrder(c)
      BY <2>1, CommitTells
    <2>2. CASE RecordInit(c) \/ InitRejected(c)
      BY <2>2, RecordInitTells, InitRejectedTells
    <2>3. CASE \/ \E s \in Students, f \in Offers, self \in BOOLEAN :
                    CheckoutGuard(c, s, f, self)
               \/ \E p \in PaymentIds : InitAccepted(c, p)
               \/ CheckoutRollback(c) \/ CheckoutLost(c) \/ CancelRejected(c)
      BY <2>3, SilentTells
      DEF CheckoutGuard, InitAccepted, CheckoutRollback, CheckoutLost, CancelRejected
    <2> QED
      BY <1>4, <2>1, <2>2, <2>3 DEF Checkout
  <1>5. ASSUME NEW p \in PaymentIds, Environment(p)
        PROVE  SessionsTell /\ AcksTell
    BY <1>5, SilentTells DEF Environment, ProviderProgress, CustomerPays, PaymentDies
  <1>6. ASSUME NEW p \in PaymentIds, Webhook(p)
        PROVE  SessionsTell /\ AcksTell
    BY <1>6, WebhookStepTells
  <1>7. CASE UNCHANGED vars
    BY <1>7, SilentTells DEF vars, billingVars
  <1> QED
    BY <1>1, <1>2, <1>3, <1>4, <1>5, <1>6, <1>7 DEF Next

-----------------------------------------------------------------------------
(* Sessions, acknowledgements and alerts agree with the orders and the     *)
(* provider, in every reachable state.                                     *)
THEOREM RecordsInvariant == Spec => [](BillingInv /\ RecordsInv)
  <1>1. Init => BillingInv /\ RecordsInv
    <2>1. Init => RecordsInv
      BY DEF Init, BillingInit, RecordsInv, AckedExists, SessionsNamed, NoSession,
             PaidSessionFulfilled, ConfirmedNeverDropped
    <2> QED
      BY <2>1, BillingInitInv
  <1>2. ASSUME BillingInv, RecordsInv, [Next]_vars
        PROVE  BillingInv' /\ RecordsInv'
    <2>1. BillingInv' /\ (Orderly \/ Settling)
      BY <1>2, BillingStep
    <2>2. OrdersStay /\ FulfilledStays
      BY <1>2, <2>1, KindsKeepFulfilled DEF BillingInv, CommerceInv
    <2>3. ProviderGrows /\ SessionsTell /\ AcksTell
      BY <1>2, ProviderStep, StepTells
    <2> QED
      BY <1>2, <2>1, <2>2, <2>3, TellingKeepsRecords
  <1> QED
    BY <1>1, <1>2, PTL DEF Spec

(* The provider's payments belong to orders that exist, and a session      *)
(* never names the payment of another order.                               *)
THEOREM EveryPaymentBelongs == Spec => []PaymentsBelong
  <1>1. BillingInv /\ RecordsInv => PaymentsBelong
    BY DEF BillingInv, Placed, RecordsInv, SessionsNamed, PaymentsBelong
  <1> QED
    BY <1>1, RecordsInvariant, PTL

(* A session says "paid" only of a fulfilled order.                        *)
THEOREM PaidMeansFulfilled == Spec => []PaidSessionFulfilled
  <1>1. RecordsInv => PaidSessionFulfilled
    BY DEF RecordsInv
  <1> QED
    BY <1>1, RecordsInvariant, PTL

(* No confirmation is answered with OK and forgotten.                      *)
THEOREM NoConfirmationDropped == Spec => []ConfirmedNeverDropped
  <1>1. RecordsInv => ConfirmedNeverDropped
    BY DEF RecordsInv
  <1> QED
    BY <1>1, RecordsInvariant, PTL
=============================================================================
