--------------------------- MODULE OnlineBilling ----------------------------
(***************************************************************************)
(* T-Bank checkout on top of the commerce tables                           *)
(* (backend/internal/commerce/online_billing.go).                          *)
(*                                                                         *)
(* A checkout is one HTTP request.  It decides in a transaction, commits,  *)
(* calls the provider outside of any transaction and writes the answer     *)
(* down afterwards; between these steps every other handler may run, and   *)
(* the server may stop.  In READ COMMITTED the transaction itself is not   *)
(* one step either: it reads the student's entitlements without locking    *)
(* them, so the read (CheckoutGuard) and the writes (CheckoutCommit...)    *)
(* are separate, with the rows locked in between out of others' reach.     *)
(*                                                                         *)
(* The provider and the customer are the environment: a payment once       *)
(* created may be confirmed, rejected or expire, and every notification it *)
(* ever sent may be delivered at any time, any number of times, in any     *)
(* order (the set notes only grows).                                       *)
(***************************************************************************)
EXTENDS Commerce

CONSTANTS
  Callers,      \* concurrent checkout requests
  NoPayment     \* a session without provider_payment_id

ASSUME BillingAssumption == NoPayment \notin PaymentIds /\ Offers # {}

VARIABLES
  overdue,    \* orders created before the pending-order cutoff
  session,    \* tbank_payment_sessions, one per order
  checkout,   \* the progress of each checkout request
  provider,   \* the provider's payments
  notes,      \* notifications the provider sent, as <<payment, kind>>
  acked,      \* payments whose confirmation the server answered with OK
  alerts      \* payments reported by the PAYMENT ALERT log line

billingVars == <<overdue, session, checkout, provider, notes, acked, alerts>>
vars == <<commerceVars, billingVars>>

SessionStatus == {"none", "created", "initialized", "paid", "failed",
                  "canceled", "mismatch"}
NoteKind == {"PENDING", "CONFIRMED", "REJECTED", "CANCELED"}

(* Phases of a checkout: "guarded" holds the offer row and the expired     *)
(* orders locked; "calling" waits for the provider; "accepted" has its     *)
(* answer; "rejected" has yet to cancel the order.                         *)
Phase == {"idle", "guarded", "calling", "accepted", "rejected"}

BillingTypeOK ==
  /\ overdue \subseteq Orders
  /\ session \in [Orders -> [status : SessionStatus, url : BOOLEAN,
                             payment : PaymentIds \cup {NoPayment}]]
  /\ checkout \in [Callers -> [phase : Phase, student : Students, offer : Offers,
                               expired : SUBSET Orders, order : Orders \cup {NoOrder},
                               amount : Prices, payment : PaymentIds \cup {NoPayment}]]
  /\ provider \in [PaymentIds -> [status : {"absent", "created", "open",
                                            "confirmed", "dead"},
                                  order : Orders \cup {NoOrder}, amount : Prices]]
  /\ notes \subseteq PaymentIds \X NoteKind
  /\ acked \subseteq PaymentIds
  /\ alerts \subseteq PaymentIds

Idle == [phase |-> "idle", student |-> CHOOSE s \in Students : TRUE,
         offer |-> CHOOSE f \in Offers : TRUE, expired |-> {},
         order |-> NoOrder, amount |-> CHOOSE p \in Prices : TRUE,
         payment |-> NoPayment]

NoSession == [status |-> "none", url |-> FALSE, payment |-> NoPayment]

BillingInit ==
  /\ overdue = {}
  /\ session = [o \in Orders |-> NoSession]
  /\ checkout = [c \in Callers |-> Idle]
  /\ provider = [p \in PaymentIds |-> [status |-> "absent", order |-> NoOrder,
                                       amount |-> CHOOSE a \in Prices : TRUE]]
  /\ notes = {} /\ acked = {} /\ alerts = {}

Init == CommerceInit /\ BillingInit

-----------------------------------------------------------------------------
(* Row locks.                                                              *)

OfferLocked(f) ==
  \E c \in Callers : checkout[c].phase = "guarded" /\ checkout[c].offer = f

OrderLocked(o) ==
  \E c \in Callers : checkout[c].phase = "guarded" /\ o \in checkout[c].expired

(* Another transaction that would write a locked row waits for the lock.   *)
LocksRespected ==
  /\ \A f \in Offers : OfferLocked(f) => offer'[f] = offer[f]
  /\ \A o \in Orders : OrderLocked(o) => order'[o] = order[o]

(* The handlers of the back office, next to running checkouts.  Inserting  *)
(* a request or an order locks its offer first.                            *)
BackOffice ==
  /\ CommerceNext
  /\ LocksRespected
  /\ \A q \in openReqs' \ openReqs : ~OfferLocked(q[2])
  /\ \A o \in Orders, f \in Offers :
       order[o].status = "absent" /\ order'[o].status # "absent" /\ OfferLocked(f)
         => order'[o].target # OfferTarget[f]
  /\ UNCHANGED billingVars

-----------------------------------------------------------------------------
(* Expiry of unpaid orders: created_at < now - pending TTL.                *)

OrderGrowsOld(o) ==
  /\ order[o].status = "awaiting"
  /\ o \notin overdue
  /\ overdue' = overdue \cup {o}
  /\ UNCHANGED <<commerceVars, session, checkout, provider, notes, acked, alerts>>

Expired(s) == {o \in overdue : order[o].status = "awaiting" /\ order[o].student = s}

(* cancelExpiredAwaitingOrdersTx, as the tables look after it.             *)
OrdersAfterExpiry(expired) ==
  [o \in Orders |-> IF o \in expired THEN [order[o] EXCEPT !.status = "canceled"]
                    ELSE order[o]]

SessionsAfterExpiry(expired) ==
  [o \in Orders |->
     IF o \in expired /\ session[o].status \in {"created", "initialized"}
     THEN [session[o] EXCEPT !.status = "canceled"] ELSE session[o]]

ListParentChildOffers(s) ==
  /\ \A o \in Expired(s) : ~OrderLocked(o)
  /\ order' = OrdersAfterExpiry(Expired(s))
  /\ session' = SessionsAfterExpiry(Expired(s))
  /\ UNCHANGED <<live, vetted, offer, openReqs, payments, log, ents, overdue,
                 checkout, provider, notes, acked, alerts>>

-----------------------------------------------------------------------------
(* startCheckout.                                                          *)

(* The transaction up to the double-charge guard: expired orders are       *)
(* canceled (and stay locked), the offer is locked, the entitlements are   *)
(* read.  self is a student paying for the platform product.               *)
CheckoutGuard(c, s, f, self) ==
  /\ checkout[c].phase = "idle"
  /\ ~OfferLocked(f)
  /\ \A o \in Expired(s) : ~OrderLocked(o)
  /\ offer[f].status = "active"
  /\ self => OfferTarget[f] = Platform
  /\ ~HasAccess(s, OfferTarget[f])
  /\ checkout' = [checkout EXCEPT ![c] = [Idle EXCEPT !.phase = "guarded",
                    !.student = s, !.offer = f, !.expired = Expired(s),
                    !.amount = offer[f].price]]
  /\ UNCHANGED <<commerceVars, overdue, session, provider, notes, acked, alerts>>

(* An order that already awaits payment for this target or its course.     *)
Reusable(o, s, t, expired) ==
  /\ o \notin expired
  /\ order[o].status = "awaiting" /\ order[o].student = s
  /\ order[o].target \in {t, CourseOf[t]}

CheckoutFields(c) == <<checkout[c].student, checkout[c].offer>>

(* The open request for the offer is processed in the same transaction.    *)
CommitCheckout(c) ==
  /\ checkout[c].phase = "guarded"
  /\ openReqs' = openReqs \ {CheckoutFields(c)}
  /\ UNCHANGED <<live, vetted, offer, payments, log, ents, overdue, provider,
                 notes, acked, alerts>>

(* The awaiting order has a payment page already: return it.               *)
CheckoutReturnUrl(c) ==
  LET s == checkout[c].student
      t == OfferTarget[checkout[c].offer]
  IN
  /\ CommitCheckout(c)
  /\ \E o \in Orders :
       /\ Reusable(o, s, t, checkout[c].expired)
       /\ ~OrderLocked(o)
       /\ session[o].url
  /\ order' = OrdersAfterExpiry(checkout[c].expired)
  /\ session' = SessionsAfterExpiry(checkout[c].expired)
  /\ checkout' = [checkout EXCEPT ![c] = Idle]

(* The awaiting order has no payment page yet: it is reused, and the       *)
(* payment is opened for the price the offer has now.                      *)
CheckoutReuseOrder(c) ==
  LET s == checkout[c].student
      t == OfferTarget[checkout[c].offer]
  IN
  /\ CommitCheckout(c)
  /\ \E o \in Orders :
       /\ Reusable(o, s, t, checkout[c].expired)
       /\ ~OrderLocked(o)
       /\ ~session[o].url
       /\ session' = [SessionsAfterExpiry(checkout[c].expired) EXCEPT ![o].status =
                        IF @ = "none" THEN "created" ELSE @]
       /\ checkout' = [checkout EXCEPT ![c].phase = "calling", ![c].order = o,
                                       ![c].expired = {}]
  /\ order' = OrdersAfterExpiry(checkout[c].expired)

(* Mutant: the provider is called before the order is committed.           *)
CheckoutCallsEarly(c) ==
  LET s == checkout[c].student
      t == OfferTarget[checkout[c].offer]
  IN
  /\ CommitCheckout(c)
  /\ \A o \in Orders : ~Reusable(o, s, t, checkout[c].expired)
  /\ \E o \in Orders :
       /\ order[o].status = "absent"
       /\ checkout' = [checkout EXCEPT ![c].phase = "calling", ![c].order = o]
  /\ UNCHANGED <<order, session>>

(* There is none: a new order and a new session are inserted.              *)
CheckoutNewOrder(c) ==
  LET s == checkout[c].student
      f == checkout[c].offer
      t == OfferTarget[f]
  IN
  /\ CommitCheckout(c)
  /\ \A o \in Orders : ~Reusable(o, s, t, checkout[c].expired)
  /\ \E o \in Orders :
       /\ order[o].status = "absent"
       /\ order' = [OrdersAfterExpiry(checkout[c].expired) EXCEPT ![o] =
                      [status |-> "awaiting", student |-> s, target |-> t,
                       amount |-> offer[f].price]]
       /\ session' = [SessionsAfterExpiry(checkout[c].expired) EXCEPT
                        ![o].status = "created"]
       /\ checkout' = [checkout EXCEPT ![c].phase = "calling", ![c].order = o,
                                       ![c].expired = {}]

(* No e-mail for the receipt, a lost race for the unique index, a broken   *)
(* connection: everything is rolled back.                                  *)
CheckoutRollback(c) ==
  /\ checkout[c].phase = "guarded"
  /\ checkout' = [checkout EXCEPT ![c] = Idle]
  /\ UNCHANGED <<commerceVars, overdue, session, provider, notes, acked, alerts>>

(* initTBankPayment: the provider opens a payment and answers with a URL.  *)
InitAccepted(c, p) ==
  /\ checkout[c].phase = "calling"
  /\ provider[p].status = "absent"
  /\ provider' = [provider EXCEPT ![p] = [status |-> "created",
                    order |-> checkout[c].order, amount |-> checkout[c].amount]]
  /\ checkout' = [checkout EXCEPT ![c].phase = "accepted", ![c].payment = p]
  /\ UNCHANGED <<commerceVars, overdue, session, notes, acked, alerts>>

(* The session is overwritten whatever became of it in the meantime, and   *)
(* the customer is sent to the payment page.                               *)
RecordInit(c) ==
  LET o == checkout[c].order
      p == checkout[c].payment
  IN
  /\ checkout[c].phase = "accepted"
  /\ ~OrderLocked(o)
  /\ session' = [session EXCEPT ![o] = [status |-> "initialized", url |-> TRUE,
                                        payment |-> p]]
  /\ provider' = [provider EXCEPT ![p].status = IF @ = "created" THEN "open" ELSE @]
  /\ checkout' = [checkout EXCEPT ![c] = Idle]
  /\ UNCHANGED <<commerceVars, overdue, notes, acked, alerts>>

(* The provider refuses or cannot be reached, or its answer cannot be read *)
(* although it opened the payment: two separate statements.                *)
InitRejected(c) ==
  /\ checkout[c].phase \in {"calling", "accepted"}
  /\ ~OrderLocked(checkout[c].order)
  /\ session' = [session EXCEPT ![checkout[c].order].status = "failed"]
  /\ checkout' = [checkout EXCEPT ![c].phase = "rejected"]
  /\ UNCHANGED <<commerceVars, overdue, provider, notes, acked, alerts>>

CancelRejected(c) ==
  LET o == checkout[c].order IN
  /\ checkout[c].phase = "rejected"
  /\ ~OrderLocked(o)
  /\ order' = [order EXCEPT ![o].status = IF @ = "awaiting" THEN "canceled" ELSE @]
  /\ checkout' = [checkout EXCEPT ![c] = Idle]
  /\ UNCHANGED <<live, vetted, offer, openReqs, payments, log, ents, overdue,
                 session, provider, notes, acked, alerts>>

(* The server stops, or the client hangs up and the request's context with *)
(* it: whatever the request had still to write is lost.                    *)
CheckoutLost(c) ==
  /\ checkout[c].phase \in {"calling", "accepted", "rejected"}
  /\ checkout' = [checkout EXCEPT ![c] = Idle]
  /\ UNCHANGED <<commerceVars, overdue, session, provider, notes, acked, alerts>>

Checkout(c) ==
  \/ \E s \in Students, f \in Offers, self \in BOOLEAN : CheckoutGuard(c, s, f, self)
  \/ CheckoutReturnUrl(c)
  \/ CheckoutReuseOrder(c)
  \/ CheckoutNewOrder(c)
  \/ CheckoutRollback(c)
  \/ \E p \in PaymentIds : InitAccepted(c, p)
  \/ RecordInit(c)
  \/ InitRejected(c)
  \/ CancelRejected(c)
  \/ CheckoutLost(c)

-----------------------------------------------------------------------------
(* The provider and the customer.                                          *)

Notify(p, kind) == notes' = notes \cup {<<p, kind>>}

ProviderProgress(p) ==
  /\ provider[p].status \in {"created", "open"}
  /\ Notify(p, "PENDING")
  /\ UNCHANGED <<commerceVars, overdue, session, checkout, provider, acked, alerts>>

CustomerPays(p) ==
  /\ provider[p].status = "open"
  /\ provider' = [provider EXCEPT ![p].status = "confirmed"]
  /\ Notify(p, "CONFIRMED")
  /\ UNCHANGED <<commerceVars, overdue, session, checkout, acked, alerts>>

(* REJECTED and AUTH_FAIL, or CANCELED and DEADLINE_EXPIRED.               *)
PaymentDies(p, kind) ==
  /\ provider[p].status \in {"created", "open"}
  /\ provider' = [provider EXCEPT ![p].status = "dead"]
  /\ Notify(p, kind)
  /\ UNCHANGED <<commerceVars, overdue, session, checkout, acked, alerts>>

-----------------------------------------------------------------------------
(* ProcessTBankNotification: one transaction under the order's row lock.   *)

WebhookFrame == UNCHANGED <<live, vetted, offer, openReqs, overdue, checkout,
                            provider, notes>>

Receive(p, kind) ==
  /\ <<p, kind>> \in notes
  /\ ~OrderLocked(provider[p].order)
  /\ acked' = IF kind = "CONFIRMED" THEN acked \cup {p} ELSE acked
  /\ WebhookFrame

(* The upsert that every notification makes, with the status it ends in.   *)
SetSession(p, status) ==
  session' = [session EXCEPT ![provider[p].order] =
                [@ EXCEPT !.payment = p, !.status = status]]

WebhookFailed(p, kind) ==
  LET o == provider[p].order IN
  /\ Receive(p, kind)
  /\ kind \in {"REJECTED", "CANCELED"}
  /\ SetSession(p, IF kind = "CANCELED" THEN "canceled" ELSE "failed")
  /\ order' = [order EXCEPT ![o].status = IF @ = "awaiting" THEN "canceled" ELSE @]
  /\ UNCHANGED <<payments, log, ents, alerts>>

WebhookPending(p) ==
  /\ Receive(p, "PENDING")
  /\ SetSession(p, "initialized")
  /\ UNCHANGED <<order, payments, log, ents, alerts>>

WebhookMismatch(p) ==
  /\ Receive(p, "CONFIRMED")
  /\ provider[p].amount # order[provider[p].order].amount
  /\ SetSession(p, "mismatch")
  /\ UNCHANGED <<order, payments, log, ents, alerts>>

(* Mutant: paid is what the provider says, not what the order says.        *)
WebhookPaidAnyway(p) ==
  /\ Receive(p, "CONFIRMED")
  /\ provider[p].amount = order[provider[p].order].amount
  /\ SetSession(p, "paid")
  /\ UNCHANGED <<order, payments, log, ents, alerts>>

WebhookAlreadyFulfilled(p) ==
  /\ Receive(p, "CONFIRMED")
  /\ provider[p].amount = order[provider[p].order].amount
  /\ order[provider[p].order].status = "fulfilled"
  /\ SetSession(p, "paid")
  /\ UNCHANGED <<order, payments, log, ents, alerts>>

(* Mutant: a payment for a canceled order is acknowledged and forgotten.   *)
WebhookDropsCanceled(p) ==
  LET o == provider[p].order IN
  /\ Receive(p, "CONFIRMED")
  /\ provider[p].amount = order[o].amount
  /\ order[o].status = "canceled"
  /\ SetSession(p, session[o].status)
  /\ UNCHANGED <<order, payments, log, ents, alerts>>

(* Money was taken for an order that is canceled: only an alert is logged. *)
WebhookCanceledOrder(p) ==
  LET o == provider[p].order IN
  /\ Receive(p, "CONFIRMED")
  /\ provider[p].amount = order[o].amount
  /\ order[o].status = "canceled"
  /\ SetSession(p, session[o].status)
  /\ alerts' = alerts \cup {p}
  /\ UNCHANGED <<order, payments, log, ents>>

(* Mutants of WebhookFulfil: the amount is not compared; the status of the *)
(* order is not looked at; an overdue order is refused; the purchase does  *)
(* not settle the order.                                                   *)
WebhookFulfilAnyAmount(p) ==
  LET o == provider[p].order IN
  /\ Receive(p, "CONFIRMED")
  /\ order[o].status = "awaiting"
  /\ Fulfil(o, p, order[o].amount)
  /\ SetSession(p, "paid")
  /\ UNCHANGED alerts

WebhookFulfilAgain(p) ==
  LET o == provider[p].order IN
  /\ Receive(p, "CONFIRMED")
  /\ provider[p].amount = order[o].amount
  /\ Fulfil(o, p, order[o].amount)
  /\ SetSession(p, "paid")
  /\ UNCHANGED alerts

WebhookFulfilInTime(p) ==
  LET o == provider[p].order IN
  /\ Receive(p, "CONFIRMED")
  /\ provider[p].amount = order[o].amount
  /\ order[o].status = "awaiting" /\ o \notin overdue
  /\ Fulfil(o, p, order[o].amount)
  /\ SetSession(p, "paid")
  /\ UNCHANGED alerts

WebhookFulfilUnsettled(p) ==
  LET o == provider[p].order IN
  /\ Receive(p, "CONFIRMED")
  /\ provider[p].amount = order[o].amount
  /\ order[o].status = "awaiting"
  /\ \A r \in payments : r.ref # p
  /\ payments' = payments \cup {[order |-> o, ref |-> p, amount |-> order[o].amount]}
  /\ SetSession(p, "paid")
  /\ UNCHANGED <<order, log, ents, alerts>>

(* If Fulfil is not possible, because an entitlement for the target is     *)
(* active, the insert fails and with it the whole transaction: nothing is  *)
(* written, the provider gets an error and will deliver again.             *)
WebhookFulfil(p) ==
  LET o == provider[p].order IN
  /\ Receive(p, "CONFIRMED")
  /\ provider[p].amount = order[o].amount
  /\ order[o].status = "awaiting"
  /\ Fulfil(o, p, order[o].amount)
  /\ SetSession(p, "paid")
  /\ UNCHANGED alerts

Webhook(p) ==
  \/ \E kind \in NoteKind : WebhookFailed(p, kind)
  \/ WebhookPending(p)
  \/ WebhookMismatch(p)
  \/ WebhookAlreadyFulfilled(p)
  \/ WebhookCanceledOrder(p)
  \/ WebhookFulfil(p)

Environment(p) ==
  \/ ProviderProgress(p)
  \/ CustomerPays(p)
  \/ \E kind \in {"REJECTED", "CANCELED"} : PaymentDies(p, kind)

Next ==
  \/ BackOffice
  \/ \E o \in Orders : OrderGrowsOld(o)
  \/ \E s \in Students : ListParentChildOffers(s)
  \/ \E c \in Callers : Checkout(c)
  \/ \E p \in PaymentIds : Environment(p) \/ Webhook(p)

Spec == Init /\ [][Next]_vars

(* The provider repeats a confirmation until it is answered with OK, and a *)
(* transaction waiting for a row lock gets it in its turn (strong          *)
(* fairness); a request that holds row locks commits or is rolled back.    *)
Fairness ==
  /\ \A p \in PaymentIds : SF_vars(Webhook(p) /\ acked' # acked)
  /\ \A c \in Callers : WF_vars(CheckoutReturnUrl(c) \/ CheckoutReuseOrder(c)
                                  \/ CheckoutNewOrder(c) \/ CheckoutRollback(c))

FairSpec == Spec /\ Fairness

-----------------------------------------------------------------------------
(* Properties.                                                             *)

(* Purchased access is paid for: a payment record that carries a provider  *)
(* reference belongs to a payment the provider has confirmed, for this     *)
(* order and for exactly the amount of the order's price snapshot -        *)
(* whatever the order of checkouts, answers, notifications and expiries.   *)
ProviderRecordsJustified ==
  \A r \in payments : r.ref \in PaymentIds =>
    /\ provider[r.ref].status = "confirmed"
    /\ provider[r.ref].order = r.order
    /\ provider[r.ref].amount = r.amount
    /\ r.amount = order[r.order].amount

(* The server never answers OK to a confirmed payment and forgets it: its  *)
(* order is fulfilled, or the PAYMENT ALERT was logged for it, or its      *)
(* amount is not the order's.                                              *)
ConfirmedNeverDropped ==
  \A p \in PaymentIds : p \in acked =>
    \/ order[provider[p].order].status = "fulfilled"
    \/ p \in alerts
    \/ provider[p].amount # order[provider[p].order].amount

(* A session only ever says "paid" for an order that is fulfilled, though  *)
(* the Init answer and every notification overwrite its status.            *)
PaidSessionFulfilled ==
  \A o \in Orders : session[o].status = "paid" => order[o].status = "fulfilled"

(* The provider has a payment only for orders that exist, and every        *)
(* session, request and notification speaks of the payment's own order.    *)
PaymentsBelong ==
  /\ \A p \in PaymentIds : provider[p].status # "absent" =>
       /\ provider[p].order \in Orders
       /\ order[provider[p].order].status # "absent"
  /\ \A o \in Orders : session[o].payment # NoPayment =>
       provider[session[o].payment].order = o

(* A confirmed payment of the right amount has been announced.             *)
Paid(p, o) ==
  /\ <<p, "CONFIRMED">> \in notes
  /\ provider[p].order = o
  /\ provider[p].amount = order[o].amount

(* A confirmed payment of the right amount is eventually settled: its      *)
(* order leaves "awaiting" - unless the student already holds an           *)
(* entitlement to the target, which keeps the order from being fulfilled.  *)
ConfirmedIsSettled ==
  \A p \in PaymentIds, o \in Orders :
    Paid(p, o) ~> \/ order[o].status # "awaiting"
                  \/ ActiveEnt(order[o].student, order[o].target)

(* The same without the exemption: every pending order that was paid gets  *)
(* a final state.                                                          *)
ConfirmedIsAlwaysSettled ==
  \A p \in PaymentIds, o \in Orders : Paid(p, o) ~> order[o].status # "awaiting"

(* The customer is charged what the order's price snapshot says.           *)
ChargedTheSnapshot ==
  \A p \in PaymentIds : provider[p].status \in {"open", "confirmed"} =>
    provider[p].amount = order[provider[p].order].amount
=============================================================================
