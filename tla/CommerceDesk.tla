---------------------------- MODULE CommerceDesk ----------------------------
(***************************************************************************)
(* The commerce page of an administrator                                   *)
(* (frontend/src/pages/admin/Commerce.tsx) in front of the back office     *)
(* (Commerce), where other administrators and the students go on working.  *)
(*                                                                         *)
(* A tab shows the rows it has read last, and a button acts on the row as  *)
(* it was then.  An open dialog is the call its button would make: `form`. *)
(* A call reaches the server later than the button is pressed, its answer  *)
(* comes later still or not at all, and meanwhile the dialog may be closed *)
(* and another one opened.  A tab that was left forgets everything; its    *)
(* calls go on.                                                            *)
(*                                                                         *)
(* Texts and currencies are left out.  Students and targets are picked     *)
(* from lists that may be out of date: the server checks each choice, so   *)
(* any may be made.                                                        *)
(***************************************************************************)
EXTENDS Commerce

CONSTANTS
  NoRows,    \* nothing to press: the rows could not be read
  Loading,   \* a spinner stands in place of the rows
  FreeCounts, \* numbers of free lessons an administrator types in
  Loads      \* the requests for rows that a tab may have under way

ASSUME FreeAssumption == 0 \in FreeCounts /\ FreeCounts \subseteq Int
(* Ids are never used up: a field that is not used may hold any of them.   *)
ASSUME FormAssumption == Offers # {} /\ AdminRefs # {}

VARIABLES
  free,      \* free_lesson_count of the courses
  tab,       \* the tab that is open
  filter,    \* which entitlements are asked for
  rows,      \* the rows of the tab as they were read
  fetching,  \* requests for rows under way, each with the rows it has read
  form,      \* what the button of the open dialog would ask
  busy,      \* what the buttons that are dead have asked
  said,      \* the success message: the call it is about
  calls      \* calls under way, also those of tabs that were left

deskVars == <<tab, filter, rows, fetching, form, busy, said, calls>>
counterVars == <<commerceVars, free, deskVars>>

Tabs == {"offers", "requests", "orders", "free", "entitlements"}
Filters == {"all", "active", "revoked"}
Ops == {"createOffer", "updateOffer", "archiveOffer", "decline", "orderRequest",
        "orderManually", "confirm", "grant", "revoke", "free"}
OfferStatus == {"draft", "active", "archived"}

Courses == {k \in Targets \ {Platform} : CourseOf[k] = k}

(* What may be asked: the fields an operation does not use hold these.     *)
Nothing == [op |-> "none", student |-> CHOOSE s \in Students : TRUE, target |-> Platform,
            offer |-> CHOOSE f \in Offers : TRUE, order |-> NoOrder, amount |-> 0,
            ref |-> CHOOSE r \in AdminRefs : TRUE, override |-> FALSE, status |-> "draft"]

Requests == [op : Ops \cup {"none"}, student : Students, target : Targets, offer : Offers,
             order : Orders \cup {NoOrder}, amount : Prices \cup FreeCounts \cup {0},
             ref : AdminRefs, override : BOOLEAN,
             status : OfferStatus \cup {"awaiting", "fulfilled", "canceled"}]

RowsOf(t) ==
  CASE t = "offers" -> [Offers -> [status : {"absent"} \cup OfferStatus, price : Prices]]
    [] t = "requests" -> SUBSET (Students \X Offers)
    [] t = "orders" -> [Orders -> [status : {"absent", "awaiting", "fulfilled", "canceled"},
                                   student : Students, target : Targets, amount : Prices]]
    [] t = "free" -> [Courses -> Nat]
    [] t = "entitlements" -> SUBSET Entitlements

(* formLoading, actionLoading and the like.  Some are the id of one row,   *)
(* whose button alone is dead; archiving has none.                         *)
Flag(op) == IF op \in {"createOffer", "updateOffer"} THEN "offerForm" ELSE op
(* A dead button comes back: it waits for a call of its own tab, whatever  *)
(* dialogs were closed and opened meanwhile.                               *)
CounterTypeOK ==
  /\ TypeOK
  /\ free \in [Courses -> Nat]
  /\ tab \in Tabs
  /\ filter \in Filters
  /\ rows \in {NoRows, Loading} \/ rows \in RowsOf(tab)
  /\ \A l \in fetching : /\ l.id \in Loads /\ l.which \in Filters
                         /\ l.rows \in {NoRows, Loading} \/ l.rows \in RowsOf(tab)
  /\ form \in Requests /\ said \in Requests
  /\ \A b \in busy : b \in Requests /\ \E c \in calls : c.live /\ Flag(c.ask.op) = Flag(b.op)
  /\ \A c \in calls : /\ c.ask \in Requests /\ c.which \in Filters /\ c.live \in BOOLEAN
                      /\ c.phase \in {"begun", "done", "failed"}

(* useApi: a request for the rows begins; they are read later.             *)
load(under, which) ==
  \E id \in Loads \ {l.id : l \in under} :
    fetching' = under \cup {[id |-> id, which |-> which, rows |-> Loading]}

CounterInit ==
  /\ CommerceInit
  /\ free = [k \in Courses |-> 0]
  /\ tab = "offers" /\ filter = "all"
  /\ rows = Loading
  /\ \E id \in Loads : fetching = {[id |-> id, which |-> "all", rows |-> Loading]}
  /\ form = Nothing /\ busy = {} /\ said = Nothing
  /\ calls = {}

(* The entitlements tab alone stays on the screen while its rows are read. *)
Drawn == rows # Loading \/ tab = "entitlements"
Table == rows \notin {NoRows, Loading}

-----------------------------------------------------------------------------
(* Tabs and rows.                                                          *)

(* The offers tab tells no offer that is being reopened from an archived   *)
(* one; the list of courses holds those that were not deleted.             *)
Read(t, which) ==
  CASE t = "offers" -> [f \in Offers |-> IF offer[f].status = "reopening"
                                         THEN [offer[f] EXCEPT !.status = "archived"]
                                         ELSE offer[f]]
    [] t = "requests" -> openReqs
    [] t = "orders" -> order
    [] t = "free" -> free
    [] t = "entitlements" -> {e \in ents : which \in {"all", e.status}}

setTab(t) ==
  /\ t # tab
  /\ tab' = t /\ filter' = "all"
  /\ rows' = Loading /\ load({}, "all")
  /\ form' = Nothing /\ busy' = {} /\ said' = Nothing
  /\ calls' = {[c EXCEPT !.live = FALSE] : c \in calls}
  /\ UNCHANGED <<commerceVars, free>>

FetchServed(l) ==
  /\ l \in fetching /\ l.rows = Loading
  /\ fetching' = (fetching \ {l}) \cup {[l EXCEPT !.rows = Read(tab, l.which)]}
  /\ UNCHANGED <<commerceVars, free, tab, filter, rows, form, busy, said, calls>>

(* Nothing cancels a request: the rows that were read first, or under an   *)
(* earlier filter, may be the last to come.                                *)
Fetched(l) ==
  /\ l \in fetching
  /\ fetching' = fetching \ {l}
  /\ rows' \in {l.rows, NoRows} \ {Loading}
  /\ UNCHANGED <<commerceVars, free, tab, filter, form, busy, said, calls>>

(* The handler reads the rows again under the filter that was set when its *)
(* button was pressed.                                                     *)
reload(which) == rows' = Loading /\ load(fetching, which)

setFilter(which) ==
  /\ tab = "entitlements" /\ form = Nothing /\ which # filter
  /\ filter' = which
  /\ reload(which)
  /\ UNCHANGED <<commerceVars, free, tab, form, busy, said, calls>>

-----------------------------------------------------------------------------
(* Dialogs.                                                                *)

Opened(ask) ==
  /\ form = Nothing
  /\ form' = ask
  /\ said' = IF ask.op = "grant" THEN Nothing ELSE said
  /\ UNCHANGED <<commerceVars, free, tab, filter, rows, fetching, busy, calls>>

(* An empty dialog is opened and filled in.                                *)
setShowCreate(t, price) ==
  /\ tab = "offers" /\ Drawn
  /\ Opened([Nothing EXCEPT !.op = "createOffer", !.target = t, !.amount = price])

setShowManualCreate(s, f) ==
  /\ tab = "orders" /\ Drawn
  /\ Opened([Nothing EXCEPT !.op = "orderManually", !.student = s, !.offer = f])

setShowGrant(s, t) ==
  /\ tab = "entitlements"
  /\ Opened([Nothing EXCEPT !.op = "grant", !.student = s, !.target = t])

(* A row fills the dialog.                                                 *)
openEdit(f) ==
  /\ tab = "offers" /\ Table /\ rows[f].status # "absent"
  /\ Opened([Nothing EXCEPT !.op = "updateOffer", !.offer = f, !.amount = rows[f].price,
                            !.status = rows[f].status])

setShowCreateOrder(s, f) ==
  /\ tab = "requests" /\ Table /\ <<s, f>> \in rows
  /\ Opened([Nothing EXCEPT !.op = "orderRequest", !.student = s, !.offer = f])

openOrder(o) ==
  /\ tab = "orders" /\ Table /\ rows[o].status # "absent"
  /\ Opened([Nothing EXCEPT !.op = "confirm", !.order = o, !.student = rows[o].student,
                            !.target = rows[o].target, !.amount = rows[o].amount,
                            !.status = rows[o].status])

(* The fields of the dialogs that a row has filled.                        *)
Typed(filled) ==
  /\ Drawn
  /\ form' = filled
  /\ UNCHANGED <<commerceVars, free, tab, filter, rows, fetching, busy, said, calls>>

OfferTyped(price, status) ==
  form.op = "updateOffer" /\ Typed([form EXCEPT !.amount = price, !.status = status])

PaymentTyped(price, ref, reason) ==
  /\ form.op = "confirm" /\ form.status = "awaiting"
  /\ Typed([form EXCEPT !.amount = price, !.ref = ref, !.override = reason])

onClose ==
  /\ form # Nothing /\ Drawn
  /\ form' = Nothing
  /\ UNCHANGED <<commerceVars, free, tab, filter, rows, fetching, busy, said, calls>>

-----------------------------------------------------------------------------
(* Buttons.                                                                *)

RowFlags == {"decline", "revoke", "free"}

Dead(ask) == IF ask.op \in RowFlags THEN ask \in busy
             ELSE \E b \in busy : Flag(b.op) = Flag(ask.op)

Unflagged(op) == {b \in busy : Flag(b.op) # Flag(op)}

Press(ask) ==
  /\ ~Dead(ask)
  /\ busy' = IF ask.op = "archiveOffer" THEN busy ELSE Unflagged(ask.op) \cup {ask}
  /\ said' = IF ask.op \in {"grant", "revoke"} THEN Nothing ELSE said
  /\ calls' = calls \cup {[ask |-> ask, which |-> filter, phase |-> "begun", live |-> TRUE]}
  /\ UNCHANGED <<commerceVars, free, tab, filter, rows, fetching, form>>

(* handleCreate, handleUpdate, handleCreateOrderFromRequest,               *)
(* handleConfirmPayment, handleManualCreate, handleGrant.                  *)
PressInDialog ==
  /\ form # Nothing /\ Drawn
  /\ form.op = "confirm" => form.status = "awaiting"
  /\ Press(form)

(* The row is sent as it was read, but for the status.                     *)
handleArchive(f) ==
  /\ tab = "offers" /\ Table /\ form = Nothing
  /\ rows[f].status \in {"draft", "active"}
  /\ Press([Nothing EXCEPT !.op = "archiveOffer", !.offer = f, !.amount = rows[f].price,
                           !.status = "archived"])

handleDecline(s, f) ==
  /\ tab = "requests" /\ Table /\ form = Nothing
  /\ <<s, f>> \in rows
  /\ Press([Nothing EXCEPT !.op = "decline", !.student = s, !.offer = f])

handleRevoke(e) ==
  /\ tab = "entitlements" /\ Table /\ form = Nothing
  /\ e \in rows /\ e.status = "active"
  /\ Press([Nothing EXCEPT !.op = "revoke", !.student = e.student, !.target = e.target,
                           !.order = e.order])

(* A negative number is sent as zero; what is not typed over is sent as it *)
(* was read.                                                               *)
handleSave(k, typed) ==
  LET n == IF typed < 0 THEN 0 ELSE typed IN
  /\ tab = "free" /\ Table
  /\ Press([Nothing EXCEPT !.op = "free", !.target = k, !.amount = n])

-----------------------------------------------------------------------------
(* Calls and answers.                                                      *)

Becomes(c, phase) == calls' = (calls \ {c}) \cup {[c EXCEPT !.phase = phase]}

(* Mutant: a confirmed order is answered as confirmed, by whatever payment. *)
AlreadyPaidSomehow(o, ref) == order[o].status = "fulfilled"

(* existingConfirmResult.                                                  *)
AlreadyPaid(o, ref) ==
  order[o].status = "fulfilled" /\ \E r \in payments : r.order = o /\ r.ref = ref

Entitlement(ask) ==
  [student |-> ask.student, target |-> ask.target, order |-> ask.order, status |-> "active"]

setCourseFreeAccess(k, n) ==
  /\ k \in live
  /\ free' = [free EXCEPT ![k] = n]
  /\ UNCHANGED commerceVars

Served(ask) ==
  \/ /\ \/ /\ ask.op = "createOffer"
           /\ \E f \in Offers : OfferTarget[f] = ask.target /\ CreateOffer(f, ask.amount)
        \/ ask.op \in {"updateOffer", "archiveOffer"}
           /\ \/ UpdateOffer(ask.offer, ask.status, ask.amount)
              \/ ask.status = "active" /\ Reactivate(ask.offer, ask.amount)
        \/ ask.op = "decline" /\ DeclinePurchaseRequest(ask.student, ask.offer)
        \/ ask.op = "orderRequest"
           /\ \E o \in Orders : CreateManualOrder(o, ask.student, ask.offer, TRUE)
        \/ ask.op = "orderManually"
           /\ \E o \in Orders : CreateManualOrder(o, ask.student, ask.offer, FALSE)
        \/ ask.op = "confirm"
           /\ \/ ManualConfirm(ask.order, ask.ref, ask.amount, ask.override)
              \/ AlreadyPaid(ask.order, ask.ref) /\ UNCHANGED commerceVars
        \/ ask.op = "grant" /\ ComplimentaryGrant(ask.student, ask.target)
        \/ ask.op = "revoke" /\ RevokeEntitlement(Entitlement(ask))
     /\ UNCHANGED free
  \/ ask.op = "free" /\ setCourseFreeAccess(ask.target, ask.amount)

(* The server does what it was asked, or refuses, or is not reached.       *)
Reaches(c) ==
  /\ c \in calls /\ c.phase = "begun"
  /\ \/ Served(c.ask) /\ Becomes(c, "done")
     \/ UNCHANGED <<commerceVars, free>> /\ Becomes(c, "failed")
  /\ UNCHANGED <<tab, filter, rows, fetching, form, busy, said>>

(* Whatever row the dialog of the handler shows by now is closed, and the  *)
(* rows are read again.                                                    *)
Succeeds(c) ==
  /\ c \in calls /\ c.phase = "done" /\ c.live
  /\ calls' = calls \ {c}
  /\ busy' = Unflagged(c.ask.op)
  /\ form' = IF form.op = c.ask.op THEN Nothing ELSE form
  /\ said' = IF c.ask.op \in {"grant", "revoke"} THEN c.ask ELSE said
  /\ reload(c.which)
  /\ UNCHANGED <<commerceVars, free, tab, filter>>

(* The server has refused, or its answer is lost.                          *)
Fails(c) ==
  /\ c \in calls /\ c.phase \in {"done", "failed"} /\ c.live
  /\ calls' = calls \ {c}
  /\ busy' = Unflagged(c.ask.op)
  /\ UNCHANGED <<commerceVars, free, tab, filter, rows, fetching, form, said>>

(* The tab that would look at the answer is gone.                          *)
AnswersNobody(c) ==
  /\ c \in calls /\ c.phase \in {"done", "failed"} /\ ~c.live
  /\ calls' = calls \ {c}
  /\ UNCHANGED <<commerceVars, free, tab, filter, rows, fetching, form, busy, said>>

(* After three seconds.                                                    *)
SuccessFades ==
  /\ said # Nothing
  /\ said' = Nothing
  /\ UNCHANGED <<commerceVars, free, tab, filter, rows, fetching, form, busy, calls>>

-----------------------------------------------------------------------------
Screen ==
  \/ \E t \in Tabs : setTab(t)
  \/ \E which \in Filters : setFilter(which)
  \/ \E l \in fetching : FetchServed(l) \/ Fetched(l)
  \/ onClose \/ SuccessFades

Dialogs ==
  \/ \E f \in Offers : openEdit(f)
  \/ \E t \in Targets, price \in Prices : setShowCreate(t, price)
  \/ \E s \in Students, f \in Offers : setShowManualCreate(s, f) \/ setShowCreateOrder(s, f)
  \/ \E s \in Students, t \in Targets : setShowGrant(s, t)
  \/ \E o \in Orders : openOrder(o)
  \/ \E price \in Prices, status \in OfferStatus : OfferTyped(price, status)
  \/ \E price \in Prices, ref \in AdminRefs, reason \in BOOLEAN :
       PaymentTyped(price, ref, reason)

Buttons ==
  \/ PressInDialog
  \/ \E f \in Offers : handleArchive(f)
  \/ \E s \in Students, f \in Offers : handleDecline(s, f)
  \/ \E e \in Entitlements : handleRevoke(e)
  \/ \E k \in Courses, typed \in FreeCounts : handleSave(k, typed)

CounterNext ==
  \/ Screen \/ Dialogs \/ Buttons
  \/ \E c \in calls : Reaches(c) \/ Succeeds(c) \/ Fails(c) \/ AnswersNobody(c)
  \/ CommerceNext /\ UNCHANGED <<free, deskVars>>

CounterSpec == CounterInit /\ [][CounterNext]_counterVars

-----------------------------------------------------------------------------
(* Properties.                                                             *)

(* Who confirms a payment sees the order that is paid: the student, the    *)
(* target and the price in the dialog are those of the order, and no row   *)
(* or dialog says of an order that it is settled or canceled before it is, *)
(* or awaits a payment that was never asked for.                           *)
DialogTellsTheOrder ==
  /\ CounterTypeOK
  /\ form.op = "confirm" =>
       /\ order[form.order].student = form.student /\ order[form.order].target = form.target
       /\ form.status # "awaiting" => form.amount = order[form.order].amount
       /\ form.status # "awaiting" => order[form.order].status = form.status
       /\ order[form.order].status # "absent"
  /\ tab = "orders" /\ Table =>
       \A o \in Orders : rows[o].status # "absent" =>
         /\ order[o] = [rows[o] EXCEPT !.status = order[o].status]
         /\ rows[o].status # "awaiting" => order[o].status = rows[o].status

Holds(s, t, o) == \E e \in ents : e.student = s /\ e.target = t /\ e.order = o
Paid(o, ref) == order[o].status = "fulfilled" /\ \E r \in payments : r.order = o /\ r.ref = ref

(* What the page is told has been done: an order that is confirmed was     *)
(* paid by the payment that was typed in, an entitlement that is granted   *)
(* exists, one that is revoked gives no access, though calls are repeated  *)
(* after lost answers and others act on the same rows.                     *)
AnswersAreTrue ==
  \A ask \in {c.ask : c \in {d \in calls : d.phase = "done"}} \cup {said} :
    /\ ask.op = "confirm" => Paid(ask.order, ask.ref)
    /\ ask.op = "grant" => Holds(ask.student, ask.target, NoOrder)
    /\ ask.op = "revoke" => [Entitlement(ask) EXCEPT !.status = "revoked"] \in ents
    /\ ask.op \in {"orderRequest", "orderManually"} =>
         \E o \in Orders : /\ order[o].status # "absent" /\ order[o].student = ask.student
                           /\ order[o].target = OfferTarget[ask.offer]
=============================================================================
