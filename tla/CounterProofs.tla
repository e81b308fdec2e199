--------------------------- MODULE CounterProofs ---------------------------
(***************************************************************************)
(* Proofs about the administrator's page in front of the back office, for  *)
(* any number of offers, orders, students and calls under way.             *)
(*                                                                         *)
(* Whatever the page does, the tables take a step of the back office or    *)
(* none (CounterIsCommerce), so what CommerceProofs shows of them holds    *)
(* with the page in front.  What a row, a dialog or an answer has once     *)
(* said of an order or an entitlement stays true of it (Lasting): tables   *)
(* grow, and an order that is settled or canceled does not move.           *)
(***************************************************************************)
EXTENDS CommerceDesk, CommerceProofs

CallRows ==
  [ask : Requests, which : Filters, phase : {"begun", "done", "failed"}, live : BOOLEAN]

(* What a call of its operation needs of the fields.                       *)
AskFits(ask) ==
  /\ ask \in Requests
  /\ ask.op \in {"createOffer", "updateOffer", "archiveOffer", "confirm"} => ask.amount \in Prices
  /\ ask.op \in {"updateOffer", "archiveOffer"} => ask.status \in OfferStatus
  /\ ask.op = "confirm" => ask.order \in Orders
  /\ ask.op = "free" => ask.target \in Courses /\ ask.amount \in Nat

(* What was asked has been done.                                           *)
AskDone(ask) ==
  /\ ask.op = "confirm" => Paid(ask.order, ask.ref)
  /\ ask.op = "grant" => Holds(ask.student, ask.target, NoOrder)
  /\ ask.op = "revoke" => [Entitlement(ask) EXCEPT !.status = "revoked"] \in ents
  /\ ask.op \in {"orderRequest", "orderManually"} =>
       \E o \in Orders : /\ order[o].status # "absent" /\ order[o].student = ask.student
                         /\ order[o].target = OfferTarget[ask.offer]

(* A row of the orders tab, and the dialog of one.                         *)
RowTells(row, o) ==
  row.status # "absent" =>
    /\ order[o].status # "absent"
    /\ order[o] = [row EXCEPT !.status = order[o].status]
    /\ row.status # "awaiting" => order[o].status = row.status

FormTells(ask) ==
  ask.op = "confirm" =>
    /\ order[ask.order].status # "absent"
    /\ order[ask.order].student = ask.student /\ order[ask.order].target = ask.target
    /\ ask.status # "awaiting" =>
         ask.amount = order[ask.order].amount /\ order[ask.order].status = ask.status

RowsFit(t, rs) ==
  \/ rs \in {NoRows, Loading}
  \/ /\ rs \in RowsOf(t)
     /\ t = "orders" => \A o \in Orders : RowTells(rs[o], o)

(* Rows that are still to come tell the same.                              *)
LoadFits(t, l) ==
  /\ l = [id |-> l.id, which |-> l.which, rows |-> l.rows]
  /\ l.id \in Loads /\ l.which \in Filters
  /\ RowsFit(t, l.rows)

ScreenInv ==
  /\ tab \in Tabs /\ filter \in Filters
  /\ RowsFit(tab, rows)
  /\ \A l \in fetching : LoadFits(tab, l)

FormInv == AskFits(form) /\ FormTells(form)

SaidInv == AskFits(said) /\ AskDone(said)

CallsInv ==
  /\ calls \subseteq CallRows
  /\ \A c \in calls : AskFits(c.ask) /\ (c.phase = "done" => AskDone(c.ask))

BusyInv ==
  \A b \in busy : b \in Requests /\ \E c \in calls : c.live /\ Flag(c.ask.op) = Flag(b.op)

CounterInv ==
  /\ CommerceInv /\ free \in [Courses -> Nat]
  /\ ScreenInv /\ FormInv /\ SaidInv /\ CallsInv /\ BusyInv

-----------------------------------------------------------------------------
(* What the tables keep.                                                   *)

EntsStay ==
  /\ payments \subseteq payments'
  /\ \A e \in ents : /\ e.status = "revoked" => e \in ents'
                     /\ \E d \in ents' : /\ d.student = e.student /\ d.target = e.target
                                         /\ d.order = e.order

LEMMA TablesGrow ==
  ASSUME CommerceInv, [CommerceNext]_commerceVars
  PROVE  EntsStay
  <1>1. TypeOK
    BY DEF CommerceInv
  <1>2. CASE UNCHANGED <<payments, ents>>
    BY <1>2 DEF EntsStay
  <1>3. CASE OfferStep \/ RequestStep \/ UNCHANGED commerceVars
    <2>1. UNCHANGED <<payments, ents>>
      BY <1>3 DEF OfferStep, RequestStep, CreateOffer, UpdateOffer, BeginReactivation, Reactivate,
         ReactivationFails, CreatePurchaseRequest, DeclinePurchaseRequest, CreateManualOrder,
         commerceVars
    <2> QED
      BY <1>2, <2>1
  <1>4. CASE ConfirmStep
    BY <1>4 DEF ConfirmStep, ManualConfirm, Fulfil, EntsStay
  <1>5. ASSUME NEW k \in Targets, AdminArchiveCourse(k) \/ ValidateOfferTarget(k)
        PROVE  EntsStay
    <2>1. UNCHANGED <<payments, ents>>
      BY <1>5 DEF AdminArchiveCourse, ValidateOfferTarget
    <2> QED
      BY <1>2, <2>1
  <1>6. ASSUME NEW s \in Students, NEW t \in Targets, ComplimentaryGrant(s, t)
        PROVE  EntsStay
    BY <1>6 DEF ComplimentaryGrant, EntsStay
  <1>7. ASSUME NEW e \in ents, RevokeEntitlement(e)
        PROVE  EntsStay
    <2>1. PICK d : d = [e EXCEPT !.status = "revoked"]
      OBVIOUS
    <2>2. d.student = e.student /\ d.target = e.target /\ d.order = e.order
      BY <1>1, <2>1 DEF TypeOK, Entitlements
    <2>3. ents' = (ents \ {e}) \cup {d} /\ e.status = "active" /\ payments' = payments
      BY <1>7, <2>1 DEF RevokeEntitlement
    <2> QED
      BY <2>2, <2>3 DEF EntsStay
  <1> QED
    BY <1>3, <1>4, <1>5, <1>6, <1>7 DEF CommerceNext, AccessStep

(* What a row, a dialog or an answer says stays true.                      *)
LEMMA OrdersStay ==
  ASSUME CommerceInv, [CommerceNext]_commerceVars, NEW o \in Orders, order[o].status # "absent"
  PROVE  /\ order'[o] = [order[o] EXCEPT !.status = order'[o].status]
         /\ order'[o].status # "absent"
         /\ order'[o].student = order[o].student /\ order'[o].target = order[o].target
         /\ order'[o].amount = order[o].amount
         /\ order[o].status # "awaiting" => order'[o] = order[o]
  <1>1. /\ order'[o] = [order[o] EXCEPT !.status = order'[o].status]
        /\ order[o].status \in {"fulfilled", "canceled"} => order'[o] = order[o]
        /\ order[o].status = "awaiting" => order'[o].status # "absent"
    BY CommerceStepKinds, KindsAreFinal DEF CommerceInv
  <1>2. order[o] \in [status : {"absent", "awaiting", "fulfilled", "canceled"},
                      student : Students, target : Targets, amount : Prices]
    BY DEF CommerceInv, TypeOK
  <1> QED
    BY <1>1, <1>2

LEMMA Lasting ==
  ASSUME CommerceInv, [CommerceNext]_commerceVars
  PROVE  /\ \A ask : AskFits(ask) /\ AskDone(ask) => AskDone(ask)'
         /\ \A ask : AskFits(ask) /\ FormTells(ask) => FormTells(ask)'
         /\ \A t, rs : RowsFit(t, rs) => RowsFit(t, rs)'
         /\ \A t, l : LoadFits(t, l) => LoadFits(t, l)'
  <1>1. EntsStay
    BY TablesGrow
  <1>2. ASSUME NEW ask, AskFits(ask), AskDone(ask)
        PROVE  AskDone(ask)'
    <2>1. ask.op = "confirm" => Paid(ask.order, ask.ref)'
      BY <1>1, <1>2, OrdersStay DEF AskFits, AskDone, Paid, EntsStay
    <2>2. ask.op = "grant" => Holds(ask.student, ask.target, NoOrder)'
      BY <1>1, <1>2 DEF AskDone, Holds, EntsStay
    <2>3. ask.op = "revoke" => [Entitlement(ask) EXCEPT !.status = "revoked"] \in ents'
      <3>1. PICK e : e = [Entitlement(ask) EXCEPT !.status = "revoked"]
        OBVIOUS
      <3>2. e.status = "revoked"
        BY <3>1 DEF Entitlement
      <3> QED
        BY <1>1, <1>2, <3>1, <3>2 DEF AskDone, EntsStay
    <2>4. ask.op \in {"orderRequest", "orderManually"} =>
            \E o \in Orders : /\ order'[o].status # "absent" /\ order'[o].student = ask.student
                              /\ order'[o].target = OfferTarget[ask.offer]
      BY <1>2, OrdersStay DEF AskDone
    <2> QED
      BY <2>1, <2>2, <2>3, <2>4 DEF AskDone, Entitlement
  <1>3. ASSUME NEW ask, AskFits(ask), FormTells(ask)
        PROVE  FormTells(ask)'
    <2> SUFFICES ASSUME ask.op = "confirm"
                 PROVE  /\ order'[ask.order].status # "absent"
                        /\ order'[ask.order].student = ask.student
                        /\ order'[ask.order].target = ask.target
                        /\ ask.status # "awaiting" =>
                             /\ ask.amount = order'[ask.order].amount
                             /\ order'[ask.order].status = ask.status
      BY DEF FormTells
    <2>1. PICK o \in Orders : o = ask.order
      BY <1>3 DEF AskFits
    <2> QED
      BY <1>3, <2>1, OrdersStay DEF FormTells
  <1>4. ASSUME NEW row, NEW o \in Orders, RowTells(row, o),
               row \in [status : {"absent", "awaiting", "fulfilled", "canceled"},
                        student : Students, target : Targets, amount : Prices]
        PROVE  RowTells(row, o)'
    <2>1. SUFFICES ASSUME row.status # "absent"
                   PROVE  /\ order'[o].status # "absent"
                          /\ order'[o] = [row EXCEPT !.status = order'[o].status]
                          /\ row.status # "awaiting" => order'[o].status = row.status
      BY DEF RowTells
    <2>2. /\ order[o].status # "absent"
          /\ order[o] = [row EXCEPT !.status = order[o].status]
          /\ row.status # "awaiting" => order[o].status = row.status
      BY <1>4, <2>1 DEF RowTells
    <2>3. /\ order'[o] = [order[o] EXCEPT !.status = order'[o].status]
          /\ order'[o].status # "absent"
          /\ order[o].status # "awaiting" => order'[o] = order[o]
      BY <2>2, OrdersStay
    <2>4. PICK was, is : was = order[o].status /\ is = order'[o].status
      OBVIOUS
    <2>5. order'[o] = [row EXCEPT !.status = is]
      BY <1>4, <2>2, <2>3, <2>4
    <2> QED
      BY <2>2, <2>3, <2>4, <2>5
  <1>5. ASSUME NEW t, NEW rs, RowsFit(t, rs)
        PROVE  RowsFit(t, rs)'
    <2>1. CASE rs \in {NoRows, Loading}
      BY <2>1 DEF RowsFit
    <2>2. CASE rs \in RowsOf(t) /\ (t = "orders" => \A o \in Orders : RowTells(rs[o], o))
      <3>1. t = "orders" => \A o \in Orders : RowTells(rs[o], o)'
        BY <1>4, <2>2 DEF RowsOf
      <3> QED
        BY <2>2, <3>1 DEF RowsFit, RowsOf, Entitlements
    <2> QED
      BY <1>5, <2>1, <2>2 DEF RowsFit
  <1>6. ASSUME NEW t, NEW l, LoadFits(t, l)
        PROVE  LoadFits(t, l)'
    <2>1. PICK rs : rs = l.rows
      OBVIOUS
    <2>2. RowsFit(t, rs)'
      BY <1>5, <1>6, <2>1 DEF LoadFits
    <2>3. RowsFit(t, l.rows)'
      BY <2>1, <2>2 DEF RowsFit
    <2> QED
      BY <1>6, <2>3 DEF LoadFits
  <1> QED
    BY <1>2, <1>3, <1>5, <1>6

-----------------------------------------------------------------------------
(* The handlers.                                                           *)

LEMMA NothingFits ==
  /\ Nothing \in Requests /\ Nothing.op = "none"
  /\ AskFits(Nothing) /\ AskDone(Nothing) /\ FormTells(Nothing)
  <1>1. PICK s, f, r : /\ s = CHOOSE x \in Students : TRUE
                       /\ f = CHOOSE x \in Offers : TRUE
                       /\ r = CHOOSE x \in AdminRefs : TRUE
    OBVIOUS
  <1>2. s \in Students /\ f \in Offers /\ r \in AdminRefs /\ Platform \in Targets
    BY <1>1, IdAssumption, FormAssumption, TargetAssumption
  <1>3. Nothing = [op |-> "none", student |-> s, target |-> Platform, offer |-> f,
                   order |-> NoOrder, amount |-> 0, ref |-> r, override |-> FALSE,
                   status |-> "draft"]
    BY <1>1 DEF Nothing
  <1>4. Nothing \in Requests /\ Nothing.op = "none"
    BY <1>2, <1>3 DEF Requests, OfferStatus
  <1> QED
    BY <1>4 DEF AskFits, AskDone, FormTells

(* A call that is served is a step of the back office, or of the settings  *)
(* of a course, and what it asked is done.                                 *)
LEMMA ServedIsDone ==
  ASSUME CommerceInv, free \in [Courses -> Nat], NEW ask, AskFits(ask), Served(ask)
  PROVE  [CommerceNext]_commerceVars /\ free' \in [Courses -> Nat] /\ AskDone(ask)'
  <1>0. /\ ask.student \in Students /\ ask.target \in Targets /\ ask.offer \in Offers
        /\ ask.order \in Orders \cup {NoOrder} /\ ask.ref \in AdminRefs /\ ask.override \in BOOLEAN
    BY DEF AskFits, Requests
  <1>1. ASSUME ask.op = "free", setCourseFreeAccess(ask.target, ask.amount)
        PROVE  UNCHANGED commerceVars /\ free' \in [Courses -> Nat] /\ AskDone(ask)'
    BY <1>1 DEF setCourseFreeAccess, AskFits, AskDone
  <1>2. ASSUME ask.op = "createOffer",
               \E f \in Offers : OfferTarget[f] = ask.target /\ CreateOffer(f, ask.amount)
        PROVE  CommerceNext /\ AskDone(ask)'
    <2>1. OfferStep
      BY <1>2 DEF OfferStep, AskFits
    <2> QED
      BY <1>2, <2>1 DEF CommerceNext, AskDone
  <1>3. ASSUME ask.op \in {"updateOffer", "archiveOffer"},
               \/ UpdateOffer(ask.offer, ask.status, ask.amount)
               \/ ask.status = "active" /\ Reactivate(ask.offer, ask.amount)
        PROVE  CommerceNext /\ AskDone(ask)'
    <2>1. ask.amount \in Prices /\ ask.status \in {"draft", "active", "archived"}
      BY <1>3 DEF AskFits, OfferStatus
    <2>2. OfferStep
      BY <1>0, <1>3, <2>1 DEF OfferStep
    <2> QED
      BY <1>3, <2>2 DEF CommerceNext, AskDone
  <1>4. ASSUME ask.op = "decline", DeclinePurchaseRequest(ask.student, ask.offer)
        PROVE  CommerceNext /\ AskDone(ask)'
    <2>1. RequestStep
      BY <1>0, <1>4 DEF RequestStep
    <2> QED
      BY <1>4, <2>1 DEF CommerceNext, AskDone
  <1>5. ASSUME ask.op \in {"orderRequest", "orderManually"}, NEW o \in Orders,
               NEW fromRequest \in BOOLEAN,
               CreateManualOrder(o, ask.student, ask.offer, fromRequest)
        PROVE  CommerceNext /\ AskDone(ask)'
    <2>1. RequestStep
      BY <1>0, <1>5 DEF RequestStep
    <2>2. order' = [order EXCEPT ![o] = [status |-> "awaiting", student |-> ask.student,
                      target |-> OfferTarget[ask.offer], amount |-> offer[ask.offer].price]]
      BY <1>5 DEF CreateManualOrder, InsertOrder
    <2>3. /\ order'[o].status = "awaiting" /\ order'[o].student = ask.student
          /\ order'[o].target = OfferTarget[ask.offer]
      BY <2>2 DEF CommerceInv, TypeOK
    <2> QED
      BY <1>5, <2>1, <2>3 DEF CommerceNext, AskDone
  <1>6. ASSUME ask.op = "confirm", ManualConfirm(ask.order, ask.ref, ask.amount, ask.override)
        PROVE  CommerceNext /\ AskDone(ask)'
    <2>1. ask.order \in Orders /\ ask.amount \in Prices
      BY <1>6 DEF AskFits
    <2>2. ConfirmStep
      BY <1>0, <1>6, <2>1 DEF ConfirmStep
    <2>3. Paid(ask.order, ask.ref)'
      <3>1. PICK r : r = [order |-> ask.order, ref |-> ask.ref, amount |-> ask.amount]
        OBVIOUS
      <3>2. /\ payments' = payments \cup {r}
            /\ order' = [order EXCEPT ![ask.order].status = "fulfilled"]
        BY <1>6, <3>1 DEF ManualConfirm, Fulfil
      <3>3. r.order = ask.order /\ r.ref = ask.ref
        BY <3>1
      <3>4. order'[ask.order].status = "fulfilled"
        BY <2>1, <3>2 DEF CommerceInv, TypeOK
      <3> QED
        BY <3>2, <3>3, <3>4 DEF Paid
    <2> QED
      BY <1>6, <2>2, <2>3 DEF CommerceNext, AskDone
  <1>7. ASSUME ask.op = "confirm", AlreadyPaid(ask.order, ask.ref), UNCHANGED commerceVars
        PROVE  AskDone(ask)'
    <2>1. UNCHANGED <<order, payments>>
      BY <1>7 DEF commerceVars
    <2> QED
      BY <1>7, <2>1 DEF AlreadyPaid, Paid, AskDone
  <1>8. ASSUME ask.op = "grant", ComplimentaryGrant(ask.student, ask.target)
        PROVE  CommerceNext /\ AskDone(ask)'
    <2>1. AccessStep
      BY <1>0, <1>8 DEF AccessStep
    <2>2. Holds(ask.student, ask.target, NoOrder)'
      <3>1. PICK e : e = [student |-> ask.student, target |-> ask.target, order |-> NoOrder,
                          status |-> "active"]
        OBVIOUS
      <3>2. e \in ents'
        BY <1>8, <3>1 DEF ComplimentaryGrant
      <3>3. e.student = ask.student /\ e.target = ask.target /\ e.order = NoOrder
        BY <3>1
      <3> QED
        BY <3>2, <3>3 DEF Holds
    <2> QED
      BY <1>8, <2>1, <2>2 DEF CommerceNext, AskDone
  <1>9. ASSUME ask.op = "revoke", RevokeEntitlement(Entitlement(ask))
        PROVE  CommerceNext /\ AskDone(ask)'
    <2>1. AccessStep
      BY <1>9 DEF AccessStep, RevokeEntitlement
    <2>2. [Entitlement(ask) EXCEPT !.status = "revoked"] \in ents'
      BY <1>9 DEF RevokeEntitlement
    <2> QED
      BY <1>9, <2>1, <2>2 DEF CommerceNext, AskDone, Entitlement
  <1>10. CASE UNCHANGED free
    <2>1. CommerceNext \/ UNCHANGED commerceVars
      BY <1>1, <1>2, <1>3, <1>4, <1>5, <1>6, <1>8, <1>9 DEF Served
    <2>2. AskDone(ask)'
      BY <1>1, <1>2, <1>3, <1>4, <1>5, <1>6, <1>7, <1>8, <1>9 DEF Served
    <2> QED
      BY <1>10, <2>1, <2>2
  <1> QED
    BY <1>1, <1>10 DEF Served

-----------------------------------------------------------------------------
(* The page.                                                               *)

(* One part of the page changes; the others keep what they say.            *)
LEMMA PartsKeep ==
  ASSUME CounterInv, [CommerceNext]_commerceVars
  PROVE  /\ CommerceInv'
         /\ UNCHANGED <<tab, filter, rows, fetching>> => ScreenInv'
         /\ UNCHANGED form => FormInv'
         /\ UNCHANGED said => SaidInv'
         /\ UNCHANGED calls => CallsInv'
         /\ UNCHANGED <<busy, calls>> => BusyInv'
  <1>1. /\ \A ask : AskFits(ask) /\ AskDone(ask) => AskDone(ask)'
        /\ \A ask : AskFits(ask) /\ FormTells(ask) => FormTells(ask)'
        /\ \A t, rs : RowsFit(t, rs) => RowsFit(t, rs)'
        /\ \A t, l : LoadFits(t, l) => LoadFits(t, l)'
    BY Lasting DEF CounterInv
  <1>2. CommerceInv'
    BY CommerceNextKeepsInv DEF CounterInv
  <1>3. ASSUME UNCHANGED <<tab, filter, rows, fetching>>
        PROVE  ScreenInv'
    <2>1. RowsFit(tab, rows)'
      <3>1. PICK t, rs : t = tab /\ rs = rows
        OBVIOUS
      <3>2. RowsFit(t, rs)'
        BY <1>1, <3>1 DEF CounterInv, ScreenInv
      <3> QED
        BY <1>3, <3>1, <3>2 DEF RowsFit
    <2>2. ASSUME NEW l \in fetching'
          PROVE  LoadFits(tab, l)'
      <3>1. PICK t : t = tab
        OBVIOUS
      <3>2. LoadFits(t, l)'
        BY <1>1, <1>3, <3>1 DEF CounterInv, ScreenInv
      <3> QED
        BY <1>3, <3>1, <3>2 DEF LoadFits, RowsFit
    <2> QED
      BY <1>3, <2>1, <2>2 DEF CounterInv, ScreenInv
  <1>4. ASSUME UNCHANGED form
        PROVE  FormInv'
    <2>1. PICK ask : ask = form
      OBVIOUS
    <2>2. AskFits(ask) /\ FormTells(ask)'
      BY <1>1, <2>1 DEF CounterInv, FormInv
    <2> QED
      BY <1>4, <2>1, <2>2 DEF FormInv, FormTells
  <1>5. ASSUME UNCHANGED said
        PROVE  SaidInv'
    <2>1. PICK ask : ask = said
      OBVIOUS
    <2>2. AskFits(ask) /\ AskDone(ask)'
      BY <1>1, <2>1 DEF CounterInv, SaidInv
    <2> QED
      BY <1>5, <2>1, <2>2 DEF SaidInv, AskDone, Entitlement
  <1>6. UNCHANGED calls => CallsInv'
    BY <1>1 DEF CounterInv, CallsInv
  <1>7. UNCHANGED <<busy, calls>> => BusyInv'
    BY DEF CounterInv, BusyInv
  <1> QED
    BY <1>2, <1>3, <1>4, <1>5, <1>6, <1>7

LEMMA StillTables ==
  ASSUME UNCHANGED commerceVars
  PROVE  /\ [CommerceNext]_commerceVars
         /\ UNCHANGED <<live, vetted, offer, openReqs, order, payments, log, ents>>
  BY DEF commerceVars

LEMMA ReadFits ==
  ASSUME CounterInv, NEW which \in Filters
  PROVE  RowsFit(tab, Read(tab, which))
  <1>1. TypeOK /\ tab \in Tabs /\ free \in [Courses -> Nat]
    BY DEF CounterInv, CommerceInv, ScreenInv
  <1>2. CASE tab = "offers"
    <2>1. PICK rs : rs = [f \in Offers |-> IF offer[f].status = "reopening"
                                           THEN [offer[f] EXCEPT !.status = "archived"]
                                           ELSE offer[f]]
      OBVIOUS
    <2>2. rs \in [Offers -> [status : {"absent"} \cup OfferStatus, price : Prices]]
      BY <1>1, <2>1 DEF TypeOK, OfferStatus
    <2> QED
      BY <1>2, <2>1, <2>2 DEF Read, RowsFit, RowsOf
  <1>3. CASE tab = "requests"
    BY <1>1, <1>3 DEF TypeOK, Read, RowsFit, RowsOf
  <1>4. CASE tab = "orders"
    <2>1. \A o \in Orders : RowTells(order[o], o)
      BY <1>1 DEF TypeOK, RowTells
    <2> QED
      BY <1>1, <1>4, <2>1 DEF TypeOK, Read, RowsFit, RowsOf
  <1>5. CASE tab = "free"
    BY <1>1, <1>5 DEF Read, RowsFit, RowsOf
  <1>6. CASE tab = "entitlements"
    BY <1>1, <1>6 DEF TypeOK, Read, RowsFit, RowsOf
  <1> QED
    BY <1>1, <1>2, <1>3, <1>4, <1>5, <1>6 DEF Tabs

(* A request for rows begins under the filter of the screen or of a call.  *)
LEMMA LoadsBegin ==
  ASSUME CounterInv, UNCHANGED commerceVars, NEW t \in Tabs, tab' = t, filter' \in Filters,
         NEW under, \A l \in under : LoadFits(t, l),
         NEW which \in Filters, rows' = Loading, load(under, which)
  PROVE  ScreenInv'
  <1>1. PICK id \in Loads : fetching' = under \cup {[id |-> id, which |-> which, rows |-> Loading]}
    BY DEF load
  <1>2. PICK new : new = [id |-> id, which |-> which, rows |-> Loading]
    OBVIOUS
  <1>3. LoadFits(t, new)
    BY <1>2 DEF LoadFits, RowsFit
  <1>4. \A l : LoadFits(t, l) => LoadFits(t, l)'
    BY Lasting, StillTables DEF CounterInv
  <1>5. ASSUME NEW l \in fetching'
        PROVE  LoadFits(tab, l)'
    <2>1. LoadFits(t, l)'
      BY <1>1, <1>2, <1>3, <1>4
    <2> QED
      BY <2>1 DEF LoadFits, RowsFit
  <1>6. RowsFit(tab, rows)'
    BY DEF RowsFit
  <1> QED
    BY <1>5, <1>6 DEF ScreenInv

LEMMA ScreenKeeps ==
  ASSUME CounterInv, Screen
  PROVE  CounterInv'
  <1>1. CASE \E t \in Tabs : setTab(t)
    <2>1. PICK t \in Tabs : setTab(t)
      BY <1>1
    <2>2. /\ UNCHANGED <<commerceVars, free>> /\ tab' = t /\ filter' = "all" /\ rows' = Loading
          /\ load({}, "all") /\ form' = Nothing /\ busy' = {} /\ said' = Nothing
          /\ calls' = {[c EXCEPT !.live = FALSE] : c \in calls}
      BY <2>1 DEF setTab
    <2>3. CommerceInv' /\ UNCHANGED <<order, payments, ents>>
      BY <2>2, PartsKeep, StillTables
    <2>4. ScreenInv'
      BY <2>2, LoadsBegin DEF Filters
    <2>5. FormInv' /\ SaidInv'
      <3>1. AskDone(Nothing)' /\ FormTells(Nothing)'
        BY NothingFits DEF AskDone, FormTells
      <3>2. PICK ask : ask = Nothing
        OBVIOUS
      <3> QED
        BY <2>2, <3>2, NothingFits DEF FormInv, SaidInv, AskDone, FormTells
    <2>6. CallsInv'
      <3>1. ASSUME NEW d \in calls'
            PROVE  d \in CallRows /\ AskFits(d.ask) /\ (d.phase = "done" => AskDone(d.ask)')
        <4>1. PICK c \in calls : d = [c EXCEPT !.live = FALSE]
          BY <2>2
        <4>2. c \in CallRows /\ AskFits(c.ask) /\ (c.phase = "done" => AskDone(c.ask))
          BY DEF CounterInv, CallsInv
        <4>3. d \in CallRows /\ d.ask = c.ask /\ d.phase = c.phase
          BY <4>1, <4>2 DEF CallRows
        <4>4. AskDone(c.ask) => AskDone(c.ask)'
          BY <2>3 DEF AskDone, Paid, Holds, Entitlement
        <4> QED
          BY <4>2, <4>3, <4>4 DEF AskDone, Entitlement
      <3> QED
        BY <3>1 DEF CallsInv
    <2>7. BusyInv'
      BY <2>2 DEF BusyInv
    <2> QED
      BY <2>2, <2>3, <2>4, <2>5, <2>6, <2>7 DEF CounterInv
  <1>2. ASSUME NEW l \in fetching, FetchServed(l)
        PROVE  CounterInv'
    <2>1. PICK new : new = [l EXCEPT !.rows = Read(tab, l.which)]
      OBVIOUS
    <2>2. /\ UNCHANGED <<commerceVars, free, tab, filter, rows, form, busy, said, calls>>
          /\ fetching' = (fetching \ {l}) \cup {new}
      BY <1>2, <2>1 DEF FetchServed
    <2>3. /\ \A t, rs : RowsFit(t, rs) => RowsFit(t, rs)'
          /\ \A t, k : LoadFits(t, k) => LoadFits(t, k)'
      BY <2>2, StillTables, Lasting DEF CounterInv
    <2>4. PICK t, rs : t = tab /\ rs = rows
      OBVIOUS
    <2>5. LoadFits(t, new)
      <3>1. LoadFits(t, l)
        BY <2>4 DEF CounterInv, ScreenInv
      <3>2. PICK read : read = Read(tab, l.which)
        OBVIOUS
      <3>3. RowsFit(t, read)
        BY <2>4, <3>1, <3>2, ReadFits DEF LoadFits
      <3>4. new = [id |-> l.id, which |-> l.which, rows |-> read]
        BY <2>1, <3>1, <3>2 DEF LoadFits
      <3> QED
        BY <3>1, <3>3, <3>4 DEF LoadFits
    <2>6. ASSUME NEW k \in fetching'
          PROVE  LoadFits(tab, k)'
      <3>1. LoadFits(t, k)
        BY <2>2, <2>4, <2>5 DEF CounterInv, ScreenInv
      <3>2. LoadFits(t, k)'
        BY <2>3, <3>1
      <3> QED
        BY <2>2, <2>4, <3>2 DEF LoadFits, RowsFit
    <2>7. RowsFit(tab, rows)'
      <3>1. RowsFit(t, rs)'
        BY <2>3, <2>4 DEF CounterInv, ScreenInv
      <3> QED
        BY <2>2, <2>4, <3>1 DEF RowsFit
    <2>8. ScreenInv'
      BY <2>2, <2>6, <2>7 DEF CounterInv, ScreenInv
    <2> QED
      BY <2>2, <2>8, PartsKeep, StillTables DEF CounterInv
  <1>3. ASSUME NEW l \in fetching, Fetched(l)
        PROVE  CounterInv'
    <2>1. /\ UNCHANGED <<commerceVars, free, tab, filter, form, busy, said, calls>>
          /\ fetching' \subseteq fetching /\ rows' \in {l.rows, NoRows}
      BY <1>3 DEF Fetched
    <2>2. /\ \A t, rs : RowsFit(t, rs) => RowsFit(t, rs)'
          /\ \A t, k : LoadFits(t, k) => LoadFits(t, k)'
      BY <2>1, StillTables, Lasting DEF CounterInv
    <2>3. PICK t, rs : t = tab /\ rs = rows'
      OBVIOUS
    <2>4. RowsFit(t, rs)
      <3>1. RowsFit(t, l.rows)
        BY <2>3 DEF CounterInv, ScreenInv, LoadFits
      <3> QED
        BY <2>1, <2>3, <3>1 DEF RowsFit
    <2>5. RowsFit(tab, rows)'
      <3>1. RowsFit(t, rs)'
        BY <2>2, <2>4
      <3> QED
        BY <2>1, <2>3, <3>1 DEF RowsFit
    <2>6. ASSUME NEW k \in fetching'
          PROVE  LoadFits(tab, k)'
      <3>1. LoadFits(t, k)'
        BY <2>1, <2>2, <2>3 DEF CounterInv, ScreenInv
      <3> QED
        BY <2>1, <2>3, <3>1 DEF LoadFits, RowsFit
    <2>7. ScreenInv'
      BY <2>1, <2>5, <2>6 DEF CounterInv, ScreenInv
    <2> QED
      BY <2>1, <2>7, PartsKeep, StillTables DEF CounterInv
  <1>6. CASE \E which \in Filters : setFilter(which)
    <2>1. PICK which \in Filters : setFilter(which)
      BY <1>6
    <2>2. /\ UNCHANGED <<commerceVars, free, tab, form, busy, said, calls>>
          /\ filter' = which /\ rows' = Loading /\ load(fetching, which)
      BY <2>1 DEF setFilter, reload
    <2>3. ScreenInv'
      BY <2>2, LoadsBegin DEF CounterInv, ScreenInv
    <2> QED
      BY <2>2, <2>3, PartsKeep, StillTables DEF CounterInv
  <1>4. CASE onClose
    <2>1. /\ UNCHANGED <<commerceVars, free, tab, filter, rows, fetching, busy, said, calls>>
          /\ form' = Nothing
      BY <1>4 DEF onClose
    <2>2. FormInv'
      BY <2>1, NothingFits DEF FormInv, FormTells
    <2> QED
      BY <2>1, <2>2, PartsKeep, StillTables DEF CounterInv
  <1>5. CASE SuccessFades
    <2>1. /\ UNCHANGED <<commerceVars, free, tab, filter, rows, fetching, form, busy, calls>>
          /\ said' = Nothing
      BY <1>5 DEF SuccessFades
    <2>2. SaidInv'
      BY <2>1, NothingFits DEF SaidInv, AskDone
    <2> QED
      BY <2>1, <2>2, PartsKeep, StillTables DEF CounterInv
  <1> QED
    BY <1>1, <1>2, <1>3, <1>4, <1>5, <1>6 DEF Screen

(* A dialog opens, filled in so that it could be sent.                     *)
LEMMA OpenedKeeps ==
  ASSUME CounterInv, NEW ask, Opened(ask), AskFits(ask), FormTells(ask)
  PROVE  CounterInv'
  <1>1. /\ UNCHANGED <<commerceVars, free, tab, filter, rows, fetching, busy, calls>>
        /\ form' = ask /\ said' \in {Nothing, said}
    BY DEF Opened
  <1>2. UNCHANGED <<order, payments, ents>>
    BY <1>1, StillTables
  <1>3. FormInv'
    BY <1>1, <1>2 DEF FormInv, FormTells
  <1>4. SaidInv'
    <2>1. CASE said' = Nothing
      BY <2>1, NothingFits DEF SaidInv, AskDone
    <2>2. CASE said' = said
      BY <1>1, <2>2, PartsKeep, StillTables
    <2> QED
      BY <1>1, <2>1, <2>2
  <1> QED
    BY <1>1, <1>3, <1>4, PartsKeep, StillTables DEF CounterInv

LEMMA DialogsKeep ==
  ASSUME CounterInv, Dialogs
  PROVE  CounterInv'
  <1>0. /\ Nothing \in Requests /\ RowsFit(tab, rows) /\ TypeOK
        /\ AskFits(form) /\ FormTells(form)
    BY NothingFits DEF CounterInv, CommerceInv, ScreenInv, FormInv
  <1>1. ASSUME NEW f \in Offers, openEdit(f)
        PROVE  CounterInv'
    <2>1. rows \in [Offers -> [status : {"absent"} \cup OfferStatus, price : Prices]]
          /\ rows[f].status # "absent"
      BY <1>0, <1>1 DEF openEdit, Table, RowsFit, RowsOf
    <2>2. PICK ask : ask = [Nothing EXCEPT !.op = "updateOffer", !.offer = f,
                              !.amount = rows[f].price, !.status = rows[f].status]
      OBVIOUS
    <2>3. /\ ask.op = "updateOffer" /\ ask.amount = rows[f].price /\ ask.status = rows[f].status
          /\ ask.status \in OfferStatus /\ ask.amount \in Prices /\ ask \in Requests
      BY <1>0, <2>1, <2>2 DEF Requests, Ops
    <2>4. Opened(ask)
      BY <1>1, <2>2 DEF openEdit
    <2> QED
      BY <2>3, <2>4, OpenedKeeps DEF AskFits, FormTells
  <1>2. ASSUME NEW t \in Targets, NEW price \in Prices, setShowCreate(t, price)
        PROVE  CounterInv'
    <2>1. PICK ask : ask = [Nothing EXCEPT !.op = "createOffer", !.target = t, !.amount = price]
      OBVIOUS
    <2>2. ask.op = "createOffer" /\ ask.amount = price /\ ask \in Requests
      BY <1>0, <2>1 DEF Requests, Ops
    <2>3. Opened(ask)
      BY <1>2, <2>1 DEF setShowCreate
    <2> QED
      BY <2>2, <2>3, OpenedKeeps DEF AskFits, FormTells
  <1>3. ASSUME NEW s \in Students, NEW f \in Offers,
               setShowManualCreate(s, f) \/ setShowCreateOrder(s, f)
        PROVE  CounterInv'
    <2>1. PICK op \in {"orderManually", "orderRequest"} :
            Opened([Nothing EXCEPT !.op = op, !.student = s, !.offer = f])
      BY <1>3 DEF setShowManualCreate, setShowCreateOrder
    <2>2. PICK ask : ask = [Nothing EXCEPT !.op = op, !.student = s, !.offer = f]
      OBVIOUS
    <2>3. ask.op = op /\ ask \in Requests
      BY <1>0, <2>2 DEF Requests, Ops
    <2>4. Opened(ask)
      BY <2>1, <2>2
    <2> QED
      BY <2>3, <2>4, OpenedKeeps DEF AskFits, FormTells
  <1>4. ASSUME NEW s \in Students, NEW t \in Targets, setShowGrant(s, t)
        PROVE  CounterInv'
    <2>1. PICK ask : ask = [Nothing EXCEPT !.op = "grant", !.student = s, !.target = t]
      OBVIOUS
    <2>2. ask.op = "grant" /\ ask \in Requests
      BY <1>0, <2>1 DEF Requests, Ops
    <2>3. Opened(ask)
      BY <1>4, <2>1 DEF setShowGrant
    <2> QED
      BY <2>2, <2>3, OpenedKeeps DEF AskFits, FormTells
  <1>5. ASSUME NEW o \in Orders, openOrder(o)
        PROVE  CounterInv'
    <2>1. /\ rows \in [Orders -> [status : {"absent", "awaiting", "fulfilled", "canceled"},
                                  student : Students, target : Targets, amount : Prices]]
          /\ RowTells(rows[o], o)
      BY <1>0, <1>5 DEF openOrder, Table, RowsFit, RowsOf
    <2>2. PICK row : row = rows[o]
      OBVIOUS
    <2>3. /\ row \in [status : {"absent", "awaiting", "fulfilled", "canceled"},
                      student : Students, target : Targets, amount : Prices]
          /\ RowTells(row, o) /\ row.status # "absent"
      BY <1>5, <2>1, <2>2 DEF openOrder
    <2>4. PICK ask : ask = [Nothing EXCEPT !.op = "confirm", !.order = o, !.student = row.student,
                              !.target = row.target, !.amount = row.amount, !.status = row.status]
      OBVIOUS
    <2>5. /\ ask.op = "confirm" /\ ask.order = o /\ ask.student = row.student
          /\ ask.target = row.target /\ ask.amount = row.amount /\ ask.status = row.status
      BY <1>0, <2>4 DEF Requests
    <2>6. ask \in Requests
      BY <1>0, <2>3, <2>4 DEF Requests, Ops
    <2>7. Opened(ask)
      BY <1>5, <2>2, <2>4 DEF openOrder
    <2>8. /\ order[o].status # "absent" /\ order[o].student = row.student
          /\ order[o].target = row.target /\ order[o].amount = row.amount
          /\ row.status # "awaiting" => order[o].status = row.status
      <3>1. PICK was : was = order[o].status
        OBVIOUS
      <3>2. order[o] = [row EXCEPT !.status = was]
        BY <2>3, <3>1 DEF RowTells
      <3> QED
        BY <2>3, <3>2 DEF RowTells
    <2>9. AskFits(ask)
      BY <2>3, <2>5, <2>6 DEF AskFits
    <2>10. FormTells(ask)
      BY <2>5, <2>8 DEF FormTells
    <2> QED
      BY <2>7, <2>9, <2>10, OpenedKeeps
  <1>6. ASSUME NEW filled, Typed(filled), AskFits(filled), FormTells(filled)
        PROVE  CounterInv'
    <2>1. /\ UNCHANGED <<commerceVars, free, tab, filter, rows, fetching, busy, said, calls>>
          /\ form' = filled
      BY <1>6 DEF Typed
    <2>2. FormInv'
      BY <1>6, <2>1, StillTables DEF FormInv, FormTells
    <2> QED
      BY <2>1, <2>2, PartsKeep, StillTables DEF CounterInv
  <1>7. ASSUME NEW price \in Prices, NEW status \in OfferStatus, OfferTyped(price, status)
        PROVE  CounterInv'
    <2>1. PICK ask : ask = [form EXCEPT !.amount = price, !.status = status]
      OBVIOUS
    <2>2. /\ ask.op = "updateOffer" /\ ask.amount = price /\ ask.status = status
          /\ ask \in Requests
      BY <1>0, <1>7, <2>1 DEF OfferTyped, AskFits, Requests
    <2>3. Typed(ask)
      BY <1>7, <2>1 DEF OfferTyped
    <2> QED
      BY <1>6, <2>2, <2>3 DEF AskFits, FormTells
  <1>8. ASSUME NEW price \in Prices, NEW ref \in AdminRefs, NEW reason \in BOOLEAN,
               PaymentTyped(price, ref, reason)
        PROVE  CounterInv'
    <2>1. PICK ask : ask = [form EXCEPT !.amount = price, !.ref = ref, !.override = reason]
      OBVIOUS
    <2>2. /\ ask.op = "confirm" /\ ask.amount = price /\ ask.order = form.order
          /\ ask.status = "awaiting" /\ ask.student = form.student /\ ask.target = form.target
      BY <1>0, <1>8, <2>1 DEF PaymentTyped, AskFits, Requests
    <2>3. ask \in Requests
      BY <1>0, <2>1 DEF AskFits, Requests
    <2>4. Typed(ask) /\ form.op = "confirm"
      BY <1>8, <2>1 DEF PaymentTyped
    <2>5. AskFits(ask) /\ FormTells(ask)
      BY <1>0, <2>2, <2>3, <2>4 DEF AskFits, FormTells
    <2> QED
      BY <1>6, <2>4, <2>5
  <1> QED
    BY <1>1, <1>2, <1>3, <1>4, <1>5, <1>7, <1>8 DEF Dialogs

(* A button is pressed: it is dead until the call it begins is answered.   *)
LEMMA PressKeeps ==
  ASSUME CounterInv, NEW ask, AskFits(ask), Press(ask)
  PROVE  CounterInv'
  <1>1. PICK new : new = [ask |-> ask, which |-> filter, phase |-> "begun", live |-> TRUE]
    OBVIOUS
  <1>2. new \in CallRows /\ new.ask = ask /\ new.phase = "begun" /\ new.live
    BY <1>1 DEF AskFits, CallRows, CounterInv, ScreenInv
  <1>3. /\ UNCHANGED <<commerceVars, free, tab, filter, rows, fetching, form>>
        /\ busy' \subseteq busy \cup {ask} /\ said' \in {Nothing, said}
        /\ calls' = calls \cup {new}
    BY <1>1 DEF Press, Unflagged
  <1>4. UNCHANGED <<order, payments, ents>>
    BY <1>3, StillTables
  <1>5. SaidInv'
    <2>1. CASE said' = Nothing
      BY <2>1, NothingFits DEF SaidInv, AskDone
    <2>2. CASE said' = said
      BY <1>3, <2>2, PartsKeep, StillTables
    <2> QED
      BY <1>3, <2>1, <2>2
  <1>6. CallsInv'
    <2>1. ASSUME NEW c \in calls
          PROVE  c.phase = "done" => AskDone(c.ask)'
      BY <1>4 DEF CounterInv, CallsInv, AskDone, Paid, Holds, Entitlement
    <2> QED
      BY <1>2, <1>3, <2>1 DEF CounterInv, CallsInv
  <1>7. BusyInv'
    <2>1. ASSUME NEW b \in busy'
          PROVE  b \in Requests /\ \E c \in calls' : c.live /\ Flag(c.ask.op) = Flag(b.op)
      <3>1. CASE b \in busy
        BY <1>3, <3>1 DEF CounterInv, BusyInv
      <3>2. CASE b = ask
        BY <1>2, <1>3, <3>2 DEF AskFits
      <3> QED
        BY <1>3, <3>1, <3>2
    <2> QED
      BY <2>1 DEF BusyInv
  <1> QED
    BY <1>3, <1>5, <1>6, <1>7, PartsKeep, StillTables DEF CounterInv

LEMMA ButtonsKeep ==
  ASSUME CounterInv, Buttons
  PROVE  CounterInv'
  <1>0. Nothing \in Requests /\ RowsFit(tab, rows) /\ AskFits(form)
    BY NothingFits DEF CounterInv, ScreenInv, FormInv
  <1>1. CASE PressInDialog
    BY <1>0, <1>1, PressKeeps DEF PressInDialog
  <1>2. ASSUME NEW f \in Offers, handleArchive(f)
        PROVE  CounterInv'
    <2>1. rows[f].price \in Prices
      BY <1>0, <1>2 DEF handleArchive, Table, RowsFit, RowsOf
    <2>2. PICK ask : ask = [Nothing EXCEPT !.op = "archiveOffer", !.offer = f,
                              !.amount = rows[f].price, !.status = "archived"]
      OBVIOUS
    <2>3. /\ ask.op = "archiveOffer" /\ ask.amount \in Prices /\ ask.status = "archived"
          /\ ask \in Requests
      BY <1>0, <2>1, <2>2 DEF Requests, Ops, OfferStatus
    <2>4. Press(ask)
      BY <1>2, <2>2 DEF handleArchive
    <2> QED
      BY <2>3, <2>4, PressKeeps DEF AskFits, OfferStatus
  <1>3. ASSUME NEW s \in Students, NEW f \in Offers, handleDecline(s, f)
        PROVE  CounterInv'
    <2>1. PICK ask : ask = [Nothing EXCEPT !.op = "decline", !.student = s, !.offer = f]
      OBVIOUS
    <2>2. ask.op = "decline" /\ ask \in Requests
      BY <1>0, <2>1 DEF Requests, Ops
    <2>3. Press(ask)
      BY <1>3, <2>1 DEF handleDecline
    <2> QED
      BY <2>2, <2>3, PressKeeps DEF AskFits
  <1>4. ASSUME NEW e \in Entitlements, handleRevoke(e)
        PROVE  CounterInv'
    <2>1. PICK ask : ask = [Nothing EXCEPT !.op = "revoke", !.student = e.student,
                              !.target = e.target, !.order = e.order]
      OBVIOUS
    <2>2. ask.op = "revoke" /\ ask \in Requests
      BY <1>0, <2>1 DEF Requests, Ops, Entitlements
    <2>3. Press(ask)
      BY <1>4, <2>1 DEF handleRevoke
    <2> QED
      BY <2>2, <2>3, PressKeeps DEF AskFits
  <1>5. ASSUME NEW k \in Courses, NEW typed \in FreeCounts, handleSave(k, typed)
        PROVE  CounterInv'
    <2>1. PICK n : n = IF typed < 0 THEN 0 ELSE typed
      OBVIOUS
    <2>2. n \in Nat /\ n \in FreeCounts /\ k \in Targets
      BY <2>1, FreeAssumption DEF Courses
    <2>3. PICK ask : ask = [Nothing EXCEPT !.op = "free", !.target = k, !.amount = n]
      OBVIOUS
    <2>4. ask.op = "free" /\ ask.target = k /\ ask.amount = n /\ ask \in Requests
      BY <1>0, <2>2, <2>3 DEF Requests, Ops
    <2>5. Press(ask)
      BY <1>5, <2>1, <2>3 DEF handleSave
    <2> QED
      BY <2>2, <2>4, <2>5, PressKeeps DEF AskFits
  <1> QED
    BY <1>1, <1>2, <1>3, <1>4, <1>5 DEF Buttons

(* A call is served; whose button waits for it does not matter.            *)
LEMMA ReachesKeeps ==
  ASSUME CounterInv, NEW c \in calls, Reaches(c)
  PROVE  CounterInv' /\ [CommerceNext]_commerceVars
  <1>1. c \in CallRows /\ AskFits(c.ask)
    BY DEF CounterInv, CallsInv
  <1>2. /\ UNCHANGED <<tab, filter, rows, fetching, form, busy, said>>
        /\ \/ Served(c.ask) /\ Becomes(c, "done")
           \/ UNCHANGED <<commerceVars, free>> /\ Becomes(c, "failed")
    BY DEF Reaches
  <1>3. PICK phase \in {"done", "failed"} :
          Becomes(c, phase) /\ (phase = "done" => Served(c.ask))
                            /\ (phase = "failed" => UNCHANGED <<commerceVars, free>>)
    BY <1>2
  <1>4. /\ [CommerceNext]_commerceVars /\ free' \in [Courses -> Nat]
        /\ phase = "done" => AskDone(c.ask)'
    <2>1. CASE phase = "done"
      BY <1>1, <1>3, <2>1, ServedIsDone DEF CounterInv
    <2>2. CASE phase = "failed"
      BY <1>3, <2>2 DEF CounterInv
    <2> QED
      BY <2>1, <2>2
  <1>5. PICK new : new = [c EXCEPT !.phase = phase]
    OBVIOUS
  <1>6. /\ new \in CallRows /\ new.ask = c.ask /\ new.phase = phase /\ new.live = c.live
        /\ calls' = (calls \ {c}) \cup {new}
    BY <1>1, <1>3, <1>5 DEF CallRows, Becomes
  <1>7. CallsInv'
    <2>1. ASSUME NEW d \in calls
          PROVE  d \in CallRows /\ AskFits(d.ask) /\ (d.phase = "done" => AskDone(d.ask)')
      BY <1>4, Lasting DEF CounterInv, CallsInv
    <2>2. AskFits(new.ask) /\ (new.phase = "done" => AskDone(new.ask)')
      <3>1. PICK ask : ask = c.ask
        OBVIOUS
      <3>2. AskFits(ask) /\ (phase = "done" => AskDone(ask)')
        BY <1>1, <1>4, <3>1 DEF AskDone, Entitlement
      <3> QED
        BY <1>6, <3>1, <3>2 DEF AskDone, Entitlement
    <2>3. ASSUME NEW d \in calls'
          PROVE  d \in CallRows /\ AskFits(d.ask) /\ (d.phase = "done" => AskDone(d.ask)')
      <3>1. CASE d \in calls
        BY <2>1, <3>1
      <3>2. CASE d = new
        BY <1>6, <2>2, <3>2 DEF AskDone, Entitlement
      <3> QED
        BY <1>6, <3>1, <3>2
    <2> QED
      BY <2>3 DEF CallsInv
  <1>8. BusyInv'
    <2>1. ASSUME NEW b \in busy
          PROVE  b \in Requests /\ \E d \in calls' : d.live /\ Flag(d.ask.op) = Flag(b.op)
      <3>1. PICK d \in calls : d.live /\ Flag(d.ask.op) = Flag(b.op)
        BY DEF CounterInv, BusyInv
      <3>2. CASE d = c
        BY <1>6, <3>1, <3>2 DEF CounterInv, BusyInv
      <3>3. CASE d # c
        BY <1>6, <3>1, <3>3 DEF CounterInv, BusyInv
      <3> QED
        BY <3>2, <3>3
    <2> QED
      BY <1>2, <2>1 DEF BusyInv
  <1> QED
    BY <1>2, <1>4, <1>7, <1>8, PartsKeep DEF CounterInv

(* An answer is looked at: the buttons of its operation come back, and the *)
(* calls that the other dead buttons wait for are still under way.         *)
LEMMA AnswersKeep ==
  ASSUME CounterInv, NEW c \in calls, Succeeds(c) \/ Fails(c) \/ AnswersNobody(c)
  PROVE  CounterInv'
  <1>1. /\ UNCHANGED <<commerceVars, free, tab, filter>> /\ calls' = calls \ {c}
        /\ form' \in {form, Nothing}
        /\ \/ UNCHANGED <<rows, fetching>>
           \/ rows' = Loading /\ load(fetching, c.which)
        /\ \/ UNCHANGED busy /\ ~c.live
           \/ busy' = Unflagged(c.ask.op)
        /\ \/ UNCHANGED said
           \/ said' = c.ask /\ c.phase = "done"
    BY DEF Succeeds, Fails, AnswersNobody, reload
  <1>2. UNCHANGED <<order, payments, ents>>
    BY <1>1, StillTables
  <1>3. ScreenInv'
    <2>1. CASE UNCHANGED <<rows, fetching>>
      BY <1>1, <2>1, PartsKeep, StillTables
    <2>2. CASE rows' = Loading /\ load(fetching, c.which)
      <3>1. c.which \in Filters
        BY DEF CounterInv, CallsInv, CallRows
      <3>2. /\ tab \in Tabs /\ filter \in Filters /\ tab' = tab /\ filter' = filter
            /\ \A l \in fetching : LoadFits(tab, l)
        BY <1>1 DEF CounterInv, ScreenInv
      <3> QED
        BY <1>1, <2>2, <3>1, <3>2, LoadsBegin
    <2> QED
      BY <1>1, <2>1, <2>2
  <1>4. FormInv'
    <2>1. CASE form' = Nothing
      BY <2>1, NothingFits DEF FormInv, FormTells
    <2>2. CASE form' = form
      BY <1>1, <2>2, PartsKeep, StillTables
    <2> QED
      BY <1>1, <2>1, <2>2
  <1>5. SaidInv'
    <2>1. CASE said' = c.ask /\ c.phase = "done"
      <3>1. PICK ask : ask = c.ask
        OBVIOUS
      <3>2. AskFits(ask) /\ AskDone(ask)
        BY <2>1, <3>1 DEF CounterInv, CallsInv
      <3>3. AskDone(ask)'
        BY <1>2, <3>2 DEF AskDone, Paid, Holds, Entitlement
      <3> QED
        BY <2>1, <3>1, <3>2, <3>3 DEF SaidInv, AskDone, Entitlement
    <2>2. CASE UNCHANGED said
      BY <1>1, <2>2, PartsKeep, StillTables
    <2> QED
      BY <1>1, <2>1, <2>2
  <1>6. CallsInv'
    BY <1>1, Lasting, StillTables DEF CounterInv, CallsInv
  <1>7. BusyInv'
    <2>1. ASSUME NEW b \in busy'
          PROVE  b \in Requests /\ \E d \in calls' : d.live /\ Flag(d.ask.op) = Flag(b.op)
      <3>1. b \in busy
        BY <1>1 DEF Unflagged
      <3>2. PICK d \in calls : d.live /\ Flag(d.ask.op) = Flag(b.op)
        BY <3>1 DEF CounterInv, BusyInv
      <3>3. d # c
        BY <1>1, <3>2 DEF Unflagged
      <3> QED
        BY <1>1, <3>1, <3>2, <3>3 DEF CounterInv, BusyInv
    <2> QED
      BY <2>1 DEF BusyInv
  <1> QED
    BY <1>1, <1>3, <1>4, <1>5, <1>6, <1>7, PartsKeep, StillTables DEF CounterInv

-----------------------------------------------------------------------------
(* The theorems.                                                           *)

(* Every step of the page and of the others leaves the tables to a step of *)
(* the back office.                                                        *)
LEMMA CounterStep ==
  ASSUME CounterInv, [CounterNext]_counterVars
  PROVE  CounterInv' /\ [CommerceNext]_commerceVars
  <1>1. CASE Screen
    <2>1. UNCHANGED commerceVars
      BY <1>1 DEF Screen, setTab, FetchServed, Fetched, setFilter, onClose, SuccessFades
    <2> QED
      BY <1>1, <2>1, ScreenKeeps
  <1>2. CASE Dialogs
    <2>1. UNCHANGED commerceVars
      BY <1>2 DEF Dialogs, openEdit, setShowCreate, setShowManualCreate, setShowCreateOrder,
         setShowGrant, openOrder, OfferTyped, PaymentTyped, Opened, Typed
    <2> QED
      BY <1>2, <2>1, DialogsKeep
  <1>3. CASE Buttons
    <2>1. UNCHANGED commerceVars
      BY <1>3 DEF Buttons, PressInDialog, handleArchive, handleDecline, handleRevoke, handleSave,
         Press
    <2> QED
      BY <1>3, <2>1, ButtonsKeep
  <1>4. ASSUME NEW c \in calls, Reaches(c) \/ Succeeds(c) \/ Fails(c) \/ AnswersNobody(c)
        PROVE  CounterInv' /\ [CommerceNext]_commerceVars
    <2>1. CASE Reaches(c)
      BY <2>1, ReachesKeeps
    <2>2. CASE Succeeds(c) \/ Fails(c) \/ AnswersNobody(c)
      <3>1. UNCHANGED commerceVars
        BY <2>2 DEF Succeeds, Fails, AnswersNobody
      <3> QED
        BY <2>2, <3>1, AnswersKeep
    <2> QED
      BY <1>4, <2>1, <2>2
  <1>5. ASSUME [CommerceNext]_commerceVars, UNCHANGED <<free, deskVars>>
        PROVE  CounterInv'
    BY <1>5, PartsKeep DEF CounterInv, deskVars
  <1>6. CASE UNCHANGED counterVars
    BY <1>5, <1>6 DEF counterVars
  <1> QED
    BY <1>1, <1>2, <1>3, <1>4, <1>5, <1>6 DEF CounterNext

LEMMA InitCounterInv ==
  ASSUME CounterInit
  PROVE  CounterInv
  <1>1. CommerceInv
    BY InitCommerceInv DEF CounterInit
  <1>2. free \in [Courses -> Nat]
    BY DEF CounterInit
  <1>3. ScreenInv
    <2>1. PICK id \in Loads : fetching = {[id |-> id, which |-> "all", rows |-> Loading]}
      BY DEF CounterInit
    <2>2. PICK first : first = [id |-> id, which |-> "all", rows |-> Loading]
      OBVIOUS
    <2>3. LoadFits(tab, first)
      BY <2>2 DEF LoadFits, RowsFit, Filters
    <2> QED
      BY <2>1, <2>2, <2>3 DEF CounterInit, ScreenInv, RowsFit, Tabs, Filters
  <1>4. FormInv /\ SaidInv
    BY NothingFits DEF CounterInit, FormInv, SaidInv
  <1>5. CallsInv /\ BusyInv
    BY DEF CounterInit, CallsInv, BusyInv
  <1> QED
    BY <1>1, <1>2, <1>3, <1>4, <1>5 DEF CounterInv

THEOREM CounterInvariant == CounterSpec => []CounterInv
  <1>1. CounterInit => CounterInv
    BY InitCounterInv
  <1>2. CounterInv /\ [CounterNext]_counterVars => CounterInv'
    BY CounterStep
  <1> QED
    BY <1>1, <1>2, PTL DEF CounterSpec

(* The page is one more client of the back office: whatever is clicked,    *)
(* repeated after a lost answer or answered late, the tables change only   *)
(* as Commerce says, so every property of CommerceSpec holds here too.     *)
THEOREM CounterIsCommerce == CounterSpec => CommerceSpec
  <1>1. CounterInit => CommerceInit
    BY DEF CounterInit
  <1>2. CounterInv /\ [CounterNext]_counterVars => [CommerceNext]_commerceVars
    BY CounterStep
  <1> QED
    BY <1>1, <1>2, CounterInvariant, PTL DEF CounterSpec, CommerceSpec

(* Who confirms a payment sees the student, the target and the price of    *)
(* the order that is paid, however old the row (Commerce.tsx, openOrder).  *)
THEOREM DialogsTellTheOrder == CounterSpec => []DialogTellsTheOrder
  <1>1. CounterInv => DialogTellsTheOrder
    <2> SUFFICES ASSUME CounterInv
                 PROVE  DialogTellsTheOrder
      OBVIOUS
    <2>1. CounterTypeOK
      BY DEF CounterInv, CommerceInv, ScreenInv, LoadFits, RowsFit, FormInv, SaidInv, CallsInv, CallRows,
         BusyInv, AskFits, CounterTypeOK
    <2>2. form.op = "confirm" =>
            /\ order[form.order].student = form.student
            /\ order[form.order].target = form.target
            /\ form.status # "awaiting" => form.amount = order[form.order].amount
            /\ form.status # "awaiting" => order[form.order].status = form.status
            /\ order[form.order].status # "absent"
      BY DEF CounterInv, FormInv, FormTells
    <2>3. ASSUME tab = "orders", Table, NEW o \in Orders, rows[o].status # "absent"
          PROVE  /\ order[o] = [rows[o] EXCEPT !.status = order[o].status]
                 /\ rows[o].status # "awaiting" => order[o].status = rows[o].status
      <3>1. RowTells(rows[o], o)
        BY <2>3 DEF CounterInv, ScreenInv, RowsFit, Table
      <3> QED
        BY <2>3, <3>1 DEF RowTells
    <2> QED
      BY <2>1, <2>2, <2>3 DEF DialogTellsTheOrder
  <1> QED
    BY <1>1, CounterInvariant, PTL

(* What an administrator is told has been done was done, also by a call    *)
(* whose answer was lost and that was repeated, and nothing undoes it      *)
(* while the message stands (Commerce.tsx, the handlers after the await).  *)
THEOREM AnswersTrue == CounterSpec => []AnswersAreTrue
  <1>1. CounterInv => AnswersAreTrue
    <2> SUFFICES ASSUME CounterInv,
                        NEW ask \in {c.ask : c \in {d \in calls : d.phase = "done"}} \cup {said}
                 PROVE  AskDone(ask)
      BY DEF AnswersAreTrue, AskDone
    <2> QED
      BY DEF CounterInv, SaidInv, CallsInv
  <1> QED
    BY <1>1, CounterInvariant, PTL
=============================================================================
