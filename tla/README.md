# Verification of pravoprosto

TLA+ models of *pravoprosto*, a course platform for children (Go over
PostgreSQL, a React frontend): what the server's handlers do to its tables, what
the pages of the frontend hold and send, and what becomes of both when requests
interleave, come late or are lost. TLC checks the models on small instances;
TLAPS proves every safety property the runs check, and the refinement of `Sales`,
for all instances.
Paths are relative to the repository; CO:432 is line 432 of the file
abbreviated CO in the inventory.

To check: `tlc -config MCBilling.cfg MCOnlineBilling.tla` for one of the runs
below, `tlapm CommerceProofs.tla` for one of the proof modules. `PROJECT.json`
lists the runs, the source lines behind every definition, the hazards, the
mutants (a plausible bug for each property, which its run must find) and the
theorems.

## 1. The system

Server (`src/backend/internal`):

| part | source | state it keeps | operations |
|---|---|---|---|
| Commerce back office (CS) | `commerce/service.go` | offers, purchase requests, orders, payment records, fulfilment log, entitlements, free lessons | create and update offers, request a purchase, manual order, manual confirmation, complimentary grant, revocation, archival of a course's offers |
| Online billing (OB) | `commerce/online_billing.go` | T-Bank payment sessions, and the tables above | checkout (student or parent), expiry of unpaid orders, provider notifications |
| Lesson runtime (LS, LH, LN) | `lessonruntime/service.go`, `helpers.go`, `navigation.go` | course and lesson progress, sessions, path, attempts, game state | start, next, answer, decision, back, retry, abandon; terminated by revocations |
| Courses (CO) | `courses/service.go` | courses, drafts, reviews, revisions; previews in memory | create, save, archive, submit, approve, reject, publish, preview |
| Graphs and validator (CG, CV) | `courses/graph.go`, `validator.go` | none | validate a draft |
| Access to teachers' courses (TA) | `teacheraccess/service.go` | links, grants | create, revoke, claim a link; administrator's grant |
| Guardianship (GD) | `guardianship/service.go` | invites, parent-child links | create, revoke, claim an invite |
| Identity (ID) | `identity/*.go` | accounts, identities, sessions | login, logout, role selection, block, unblock, impersonate |
| HTTP layer (RT) | `httpserver/*.go` | rate-limit counters | authentication, roles, CSRF, routing |
| Profiles, assets, evaluation, platform | the other directories | profile rows, upload slots, configuration | single-row reads and writes, a call to a language model, start-up |

Frontend (`src/frontend/src`):

| part | source | state of a page | operations |
|---|---|---|---|
| Calls and types (CL, TY) | `api/client.ts`, `api/types.ts` | none | send and normalise; convert lesson graphs between two formats |
| `useApi` (UA) | `hooks/useApi.ts` | rows, loading, error | fetch, reload |
| Lesson player (LP) and tree (CT) | `pages/student/LessonPlayer.tsx`, `CourseTree.tsx` | screen, step, key | start, walk, answer, go back, leave, retry |
| Lesson editors (LC, AL) | `pages/teacher/LessonConstructor.tsx`, `pages/admin/AdminLessonEditor.tsx` | the graph of a lesson | blocks, options, outcomes, transitions, save, preview |
| Course pages (CC, AC, TD) | `pages/teacher/CourseConstructor.tsx`, `TeacherDashboard.tsx`, `pages/admin/AdminCourseEditor.tsx` | a draft, its version, what was typed | modules and lessons, save, submit, publish, archive, share |
| Moderation (MO) | `pages/admin/Moderation.tsx` | queue, open review, its lessons | approve, reject |
| Preview (PP) | `pages/teacher/PreviewPlayer.tsx` | step, answer | walk a preview |
| Commerce page (CM) | `pages/admin/Commerce.tsx` | rows, dialog, flags of each tab | every call of the back office |
| Other pages | the rest | a read, or one form | one call each |

How they interact: the server's handlers run concurrently in one process, each
in one or more PostgreSQL transactions at READ COMMITTED; they lock the rows
they decide on and leave the rest to partial unique indexes. Publication decides
which revision the lesson runtime serves and whether links can be handed out;
entitlements and grants decide whether a lesson may be started, and their
revocation terminates sessions in the same transaction; archival of a course
archives its offers; guardianship lets a parent pay for a child. Calls that
leave the process are T-Bank (checkout, outside a transaction), the language
model (inside one, or with the mutex of the previews held), the identity
provider (before one). A page holds copies of rows, sends versions and keys
along, and learns what became of a call from an answer that may be lost, come
late, or find the page showing something else. Nothing cancels a call.

What is hard here:

* **checks before the transaction** that writes (ownership, publication, prices,
  roles): everything may run in between;
* **reads without a lock inside a transaction** (entitlements at checkout, the
  active course progress at a start, the slots of a child's parents);
* **calls to the provider between two transactions**, refused, lost, or answered
  after the customer has paid and the notification was delivered; notifications
  repeated, late and out of order; a server that stops anywhere;
* **unique violations that abort the transaction** in which the code meant to
  recover from them;
* **late, repeated and stale requests** of several tabs, and **answers that find
  another dialog, row or step on the page** than the one they were asked for;
* **two formats of one lesson**, edited in any order and read by a third party;
* **revisions published while a course is being taken**;
* liveness: a payment that was confirmed must lead to access.

The hazards of `PROJECT.json` name the line where each of these bites and the
properties that catch it.

## 2. Plan

By what an error would cost: money, then a child's progress, then what students
get to read, then who may do what; then the pages in front of each.

1. `Commerce`, `Sales` (abstract), `OnlineBilling`: done, with proofs.
2. `LessonRuntime` and `LessonPlayer` on top of it: done, with proofs.
3. `Publication`, `CourseAccess`, `CourseOutline`, and the pages over them,
   `CourseDesk` and `Moderation`: done, with proofs.
4. `Guardianship` and `Accounts`: done, with proofs.
5. `LessonGraph`, the two formats and the validator, and `LessonEditor`: done,
   with proofs.
6. `Preview`, server and page: done, with proofs.
7. `CommerceDesk` in front of `Commerce`: done, with proofs.
8. Left: `Commerce` composed with `LessonRuntime` (a revocation and the sessions
   it takes away are now treated from either side); the remaining pages, with
   profiles.

## 3. The modules

On the server an action is a committed transaction, or one statement of a
handler that is not one transaction; an error rolls back and is a stuttering
step unless it leaves something behind. A lock held between two actions of a
handler is a guard of the actions that would wait for it. On a page an action is
one event: a press, an answer, a page left. Names follow the code.

```
Sales <- Commerce <- OnlineBilling          (<- : implemented or extended by)
                  <- CommerceDesk
LessonRuntime <- LessonPlayer
Publication <- CourseAccess <- CourseDesk <- Moderation     CourseDesk uses CourseOutline
LessonGraph <- LessonEditor
Preview     Guardianship     Accounts
```

**`Commerce`** (back office). A *target* is the platform, a course or a lesson
(`CourseOf` maps a lesson to its course). `offer`, `openReqs`, `order`,
`payments`, `log`, `ents` are the tables. `UpdateOffer` that activates an offer
is two actions (`BeginReactivation`, `Reactivate`), for the target is validated
without a lock. Prices are members of a small set; wording and currency are gone.

**`Sales`** (abstract). An order is placed, and then closed or settled once;
money and access appear in the very step that settles it. `Commerce` and
`OnlineBilling` refine it: `SaleProtocol` is `Sale!Spec` with `stage` read off
the order's status, `funded` off the payment records and `granted` off the
purchase entitlements.

**`OnlineBilling`** extends `Commerce`: a checkout is a program counter
(`checkout[c].phase`) through guard, commit, provider call and record; it can
be lost in every phase that outlives a transaction (`CheckoutLost`: the server
stops, the answer is lost). The provider and the customer (`InitAccepted`,
`CustomerPays`, `PaymentDies`, `Notify`) are the environment, external in the
map. `notes` only grows and every element can be received at any time, which is
repetition, delay, loss and reordering at once. The webhook's branches are one
action each. `ListParentChildOffers` also expires orders and is an action.

**`CommerceDesk`** extends `Commerce` with the administrator's page. A tab shows
the rows it read last (`rows`, `fetching`); an open dialog is the call its button
would make (`form`); a call is sent, served or refused, and answered or not
(`calls`), while the dialog may be closed and another opened. A fetch carries the
filter its caller had when its button was pressed (`which`) and, once it was
served, the rows as they were then, so that the answer of a fetch that was
overtaken may come last and stay. `busy` are the
flags that disable buttons, `said` the message after a success. Leaving a tab
forgets all but the calls. Commerce's own actions go on as other administrators.

**`LessonRuntime`**: one student and one course, for no handler touches two
students and two courses share only the game state. `progress`, `lp`, `session`,
`path`, `attempts`, `xp` are the tables, `looking` and `opening` the requests
under way. `StartLesson` is looked-for progress, resolved revision, check, insert;
`Retry` is check and insert; other handlers lock the session's row and are one
action. The version and node in a request are arbitrary. The verdict of a free
text is any outcome of the node. `AccessChanges`, `RevokeEntitlement` and
`PublishRevision` are what the other parts do to it. Hearts (nothing lowers
them) and streaks are left out.

**`LessonPlayer`** extends `LessonRuntime` with tabs that walk it: `tab[t]` is
the screen, the step, the key, the result and the request under way. A request
is handled and answered in one step, as the page can do nothing meanwhile;
requests and answers may be lost, and a tab closed with its request on the way,
which the server handles for nobody. The abandonment of a session is the
exception: while it is awaited (`exit`) the page goes on with everything it
offers, and when it is answered or lost the page is left from wherever it is by
then. Exit may be asked for while a lesson is loading. A call is made with the version, node and
key the page holds, so the arbitrary requests of `LessonRuntime` become the
requests the page can send.

**`Publication`**: drafts with their version, saves and submissions that check
first and write later (`SaveBegins`, `UpdateDraft`; `SubmitBegins`,
`SubmitReview`), archival, reviews, revisions. **`CourseAccess`** adds links,
claims and grants; `CreateLink` and `AdminGrant` check and insert apart.
**`CourseOutline`** holds the operations of the pages on modules and lessons and
the server's checks of them; an outline is a sequence of modules, a module a
sequence of lessons, a graph blank, of the editor's or of the server's format.

**`CourseDesk`** is the course pages and, as the place where a draft is held
too, the lesson pages: `page[p]` is where it is, the draft it read (`base`), its
version, what was typed; `asked[q]` says what the page means to do with the
answer of the call q. Submitting and publishing are a save and a second call. A
page that was left learns nothing more, but its calls go on. `base` is a history
variable: the content the page's version stands for.

**`Moderation`** adds the moderator's page: the queue as it was read, the review
in the dialog, fetches of lessons with their cancellation, decisions under way.
While the queue is fetched (`loading`) the page shows nothing else; a fetch that
an earlier one overtakes is not told apart, as a queue is old in any case and a
review in it may have been decided already.

**`LessonGraph`**: blocks, exits and transitions in the editor's format (nodes
and a function from edges to targets) and in the server's (exits inside the
blocks, an older form of free text among them), the conversions, the editing
helpers of `types.ts`, and the validator. A stored block also has what no editor
writes and another client of the API may: a story can be marked as a final one
(`terminal`), a free text can have a rubric of either form, one that lacks texts
or none. **`LessonEditor`** is both pages: each
editing operation is an action, storing succeeds when the validator admits the
graph. Texts are "filled or not", since an empty one is what is refused.

**`Preview`**: previews in memory in the order of their last use, so eviction is
`Tail`; the answer to a free text is the only handler of two steps, and the
mutex it holds is the guard `MutexFree` of all others. `page` and `calls` are as
in the other pages. `Restarts` forgets all. `PreviewMax` stands for a field the
service sets to 1024 and nothing else writes (CO:39); that it is positive is
therefore assumed, though CO:1298 would keep every preview if it were not. Stories
and free texts may lack an exit, as the validator admits final stories and free
texts without a rubric.

**`Guardianship`**: a claim reads the links and chooses a slot, then inserts; it
holds its invite's lock in between, so an invite is revoked only when no claim
holds it. The two unique indexes are `Taken`.

**`Accounts`**: a login looks up, creates or meets a conflict, and inserts the
session after the commit. Handlers of an account or an administrator are let in
(`Begin`) and act later (`Finish`). An impersonation is let in, looks at its
target (`ImpersonationChecked`) and inserts the session, in three steps; a request
with a session of a blocked account revokes it, expired or not.

`MC*` modules hold small instances, symmetry and bounds, `*Proofs` the theorems.
Definitions preceded by a comment *Mutant* are the deliberate bugs of
`PROJECT.json`; nothing else uses them.

## 4. The runs

| run | instance | what it shows |
|---|---|---|
| `MCBilling` | 1 offer, 2 orders, 2 checkouts, 2 payments, 2 prices, 1 typed reference | `ProviderRecordsJustified`, `ConfirmedNeverDropped`, `PaidSessionFulfilled`, `FulfilledOnce`, `PaymentsBelong` and the refinement of `Sales` |
| `MCBillingLiveness` | 1 order, 1 payment, fair | `ConfirmedIsSettled` |
| `MCBillingStuck` | the same | *violated*: `ConfirmedIsAlwaysSettled`, see section 6 |
| `MCCommerceDesk` | a platform and a course, 1 offer, 2 orders, 2 references, 2 prices | `DialogTellsTheOrder`: a row or dialog may be old, never wrong. `AnswersAreTrue`: what is reported done was done. `NoDoubleUse`, `SalesAreFinal` with the page's calls |
| `MCLessonCourse` | 2 revisions, 3 lessons (one with a choice to walk and take back), 3 sessions, 2 concurrent starts, one session walked at a time (`WalkedOnce`) | `OneOpenSession`, `PrerequisitesEarned`, `CompletionEarned` |
| `MCLessonPlayer` | a lesson with every kind of block, 2 sessions, 2 tabs, 5 keys | `PageTrailsSession`, `FeedbackIsRecorded`, `ReloadResumes`; `OneAwardPerVisit`, `PathIsWalk` |
| `MCLessonEditor` | a new lesson, one stored in the older form, a quiz, and three no editor writes (`PlainLesson`, `LessonWithoutRubric`, `FinalStory`); up to 3 blocks | `OpensAsSaved`, `ShowsWhatIsStored`, `AddingKeepsItWired`, `EditorTypeOK`: transitions lead forward. `StoredCanBeFinished`: what editors make and the validator admits has an end for every student, and so has every admitted lesson but those with a `DeadEnd` |
| `MCLessonDeadEnd` | the same | *violated*: `AdmittedCanBeFinished`, the same without that exception |
| `MCCourseDesk` | 2 courses of teachers, 1 of the platform, 2 modules, 2 lessons, 2 pages, 2 calls, 2 reviews, a link | `NoLostEdit`, `KeepsTyping`, `OutlineAccepted`, `InReviewIsPending`, `PublishedByReview`, `GrantedWasApproved`, `LessonsOfSelected` |
| `MCCourseApproved` | the same | *violated*: `ApprovedAsSubmitted` |
| `MCPreview` | 4 drafts (one with a loop, one with two blocks that lead nowhere, an invalid one), 3 previews of which 2 are kept, 3 tabs of 2 authors | `PreviewTypeOK` (never more previews than fit), `HistoryIsWalk`, `PageTrailsPreview`, `OneStepPerPress` |
| `MCPeople` | an administrator and a person, 2 logins, 3 sessions; and, while nobody logs in, 3 parents, 2 children, 4 invites | `OneAccountPerPerson`, `ProfileOfTheRole`, `ImpersonatesUsersOnly`; `AtMostTwoParents`, `LinkedByInvite` |

Type invariants are conjuncts of one property of their run where a page's flags
or keys make them worth running (`CounterTypeOK` in `DialogTellsTheOrder`,
`ModerationTypeOK` in `LessonsOfSelected`, `PlayerTypeOK` in `PageTrailsSession`,
`AccountsTypeOK` in `OneAccountPerPerson`); all are also proved, from the
inductive invariants of section 5.

Bounds, and why they suffice. Ids are finite sets, and a second or third id is
there wherever two actors must meet: two checkouts reuse one order, a reference
is tried on two orders, a third parent finds two slots taken and a fourth invite
repeats one of the parents, two tabs walk one session or preview, two pages save
one draft, a third preview evicts one of two. Versions: a draft's is at most 3,
which makes a page stale twice; a lesson session goes up to 4 steps in one tab,
enough to go to the question, back to the decision and to either end again; a
preview goes far enough to walk a loop once and back. One page at a time awaits
the abandonment of its session, within the first three versions of the two
sessions together: another tab can walk the session, or a second one be opened,
under the page that is about to be left. Two fetches of rows are under way at
once on the commerce page, so one can overtake the other. The larger runs visit
the cases that can interfere one by one, each named in its `MC` module: billing
among checkouts of two prices or among all of the back office (`CheckoutsOnly`,
`BackOfficeRaces`); the commerce page tab by tab, as a tab works on its own
table (`OneTabAtATime`); courses by what is going on around the draft
(`OneCaseAtATime`), as courses share no row; previews in one preview in two tabs
or in many previews hardly walked (`Worlds`); accounts and guardianship one
while the other rests, as no handler writes rows of both (`PeopleNext`), with
invites and parents numbered as they appear (`InOrder`) and one invite that
grows old or is revoked. A model that reaches its bounds stops, which is why
deadlock is checked only in the lesson runs (`MCLessonCourse`, `MCLessonPlayer`,
`MCLessonEditor`), where one can always press something. Symmetry is over ids
that no definition chooses from in a way that shows, and not used in the
liveness runs.

Fairness. `FairSpec` (`OnlineBilling`) assumes (a) strong fairness of processing
a payment's notification while the server has not acknowledged it: the provider
repeats a notification until it is answered with OK, and an aborted transaction
answers with an error, so it repeats; strong rather than weak because a checkout
may hold the order's row each time; (b) weak fairness of the commit or rollback
of a checkout whose transaction has begun: PostgreSQL ends transactions, and a
dropped connection rolls back. Nothing is assumed of the customer, of the
administrator or of checkouts that wait for the provider. The pages promise
nothing that must happen: whoever sits in front of one may leave.

## 5. What is proved

For all values of the constants that satisfy the modules' assumptions, so for any
number of students, orders, sessions, pages and calls, and any lesson graphs.
Each module proves an inductive invariant (`...Inv`) and draws the properties
from it; where there are many actions they are grouped by how they change the
tables, with one lemma for each way.

* **`CommerceProofs`**: `CommerceInv == TypeOK /\ FulfilledOnce /\ NoDoubleUse` is
  inductive. The evidence of the next fulfilment needs references and active
  entitlements to be unique, so the two safety properties go together. From it
  the refinement of `Sales` (`CommerceRefinesSale`) and `SalesAreFinal`.
* **`CounterProofs`**, the administrator's page: every step of it is a step of the
  back office or leaves the tables alone (`CounterIsCommerce`: `CounterSpec =>
  CommerceSpec`), so the theorems above hold with the page in front. What a row,
  a dialog or an answer has once said stays true, for payments, entitlements and
  placed orders do not vanish and a settled or canceled order does not move
  (`Lasting`); hence `DialogTellsTheOrder` and `AnswersAreTrue`. `AskFits` says
  that a dialog never asks for what its handler could not be sent.
* **`BillingProofs`**: `BillingInv` adds to `CommerceInv` what is in flight: orders
  locked by a checkout are awaiting and locked once (`Held`), payments belong to
  orders that exist (`Placed`), a confirmation announced is of a confirmed
  payment (`Announced`). These are needed because a fulfilment trusts the
  notification, the notification trusts the provider's order id, and a checkout
  cancels orders it read in an earlier action. From it
  `ProviderRecordsJustified`, `FulfilledOnce` with any number of checkouts,
  payments and notifications, and the refinement of `Sales`. `RecordsInv` says
  what sessions and acknowledgements mean: a session names a payment of its
  order, a paid one belongs to a fulfilled order, and an acknowledged confirmation
  fulfilled its order, raised an alert or was of another amount. The steps of
  checkouts and webhook only add to that, a fulfilled order stays so,
  and there follow `PaymentsBelong`, `PaidSessionFulfilled`,
  `ConfirmedNeverDropped`.
* **`LessonProofs`**, the runtime: a step opens and walks nothing (`Quiet`), lets a
  session be opened (`Checked`), inserts one (`Inserted`) or moves one (`Walk`).
  `OpenInv` carries `OneOpenSession` and `PrerequisitesEarned` across the gap
  between check and insert: progress rows are in order, nothing was done about a
  lesson in a later progress while one of its sessions is open (`LaterUntouched`),
  and what was checked still holds (`StillChecked`). `WalkInv` adds that attempts
  are of versions the session has left behind (`AttemptsBehind`), which makes
  `OneAwardPerVisit` and `PathIsWalk` inductive. `CompletionEarned` compares sets
  though the code compares counts: the completed lessons are among those of the
  revision, and equal cardinalities make them equal.
* **`LessonProofs`**, the player: the tabs take only steps of the runtime
  (`PagesTakeItsSteps`: `PlayerSpec => Spec`). `PlayerInv` says that what a page
  shows of a session is so or was so at an earlier version (`Trailing`), that no
  two tabs hold one key, and that a request that is opening a session has its tab
  waiting. What a page knows survives any step of the tables (`Persists`), and so
  `PageTrailsSession`, `FeedbackIsRecorded`, `ReloadResumes`.
* **`CourseProofs`**, the server: `ServerSpec` lets every handler step with
  arbitrary arguments at any time. A course in review has one pending review
  (`OnePending`), revisions are counted by approved reviews (`RevisionsCounted`),
  and everything that gives access, or is about to, is about an approved course
  (`AccessApproved`). There follow `InReviewIsPending`, `PublishedByReview`,
  `GrantedWasApproved`.
* **`CourseProofs`**, the pages: they only make steps of the server
  (`PagesOnlyUseTheServer`: `Spec => ServerSpec`). Whatever a page, a fetched
  draft or a save under way remembers of a draft is an earlier version of it or its
  very content (`IsBehind`), also when the answer that would have said so was
  lost; so `NoLostEdit`. `KeepsTyping` and `LessonsOfSelected` follow with
  `RequestsAttached`: a call whose page still listens is about what the page
  shows. `OutlineAccepted` follows from `FormsFiled`: no module and no lesson is
  twice in what a page holds, in whatever order they were arranged, renamed, moved
  or deleted, and what is so filed passes the server's checks.
* **`PreviewProofs`**: a preview only moves on (`Later`), so that a step once shown
  is a step of it or was one (`IsStep`). Of the calls of a tab at most one is
  answered, from the step on show (`CallOf`, `Apart`): an answer moves the version
  past every other call. There follow `PreviewTypeOK` with the bound on the
  server's memory, `HistoryIsWalk`, `PageTrailsPreview`, `OneStepPerPress`.
* **`EditorProofs`**, the lesson editors: `EditorInv` is `StoredInv` and `PageInv`.
  The stored lesson is well formed, admitted by the validator, and its exits lead
  forward in its list; the graph on the page has blocks of different ids, their
  options and verdicts fit their kind, edges go from an exit that exists to a
  later block, and none of its blocks is called "start". None of this follows
  without the rest: what is stored is what the page had, what the page opens is
  what was stored, and a lesson that looked like the placeholder would open empty.
  The order of the list is the heart of it (`EditorTypeOK`): normalisation turns
  any list of such blocks, with edges that lead forward, into such a graph, and
  every handler makes such a list; insertion, removal and move are shown to, case
  by case, from what the three do to positions. Converting to the server's format
  and back gives every field, exit and edge as it was (`OpensAsSaved`,
  `ShowsWhatIsStored`). `StoredCanBeFinished`: a walk
  from any block comes, with each step, to an end or at least one place further
  down the list, and the list ends; that every block which is no end leads on is
  what the validator sees to, except in a `DeadEnd` (`AdmittedEnds`), and no editor
  writes one (`NoDeadEndIsWritten`). `AddingKeepsItWired`, a property of steps:
  where edges lead forward, all blocks are reached and none of their exits is open
  if and only if the first is the start, each exit has its edge and each other
  block is where some edge leads (`Wired`); those are conditions on single edges,
  which an added block can be checked against.
* **`PeopleProofs`**, accounts: identities and existing accounts are in bijection
  (`Identified`), whatever refers to an account refers to one that exists
  (`Referenced`), an impersonation was let in for a person whose role is chosen
  and stays (`Chosen`). There follow `OneAccountPerPerson`, `ProfileOfTheRole`,
  `ImpersonatesUsersOnly`.
* **`PeopleProofs`**, guardianship: `GuardianshipInv` adds that a claim in progress
  holds an active invite and that no two links of a child share slot or parent;
  two slots and an injection give `AtMostTwoParents` (`NoThirdParent`), and
  `LinkedByInvite` is inductive with it.

Assumptions are the named `ASSUME`s of the modules, and TLC evaluates them in
every run: the platform is a target of its own; typed references and the
provider's are disjoint; lessons are finite and revisions counted from 1; there
are offers and references to fill a dialog with; bounds (`MaxVersion`,
`PreviewMax`) are positive; the values that stand for "nothing" (`NoStep`,
`NoKey`, `NoPreview` and the like) are not ids; a block may have two options and
there are as many new option ids as it may have. The lessons that are there before
the pages open them were admitted by the validator, list their blocks so that
exits lead forward, and have a block called "start" only if they are the
placeholder (`PagesAssumption`). The editors write no others; the validator does
not see to the order, and a lesson put into the draft by another client of the
API may have its blocks in any.

Only model-checked: `ConfirmedIsSettled`, since liveness is out of the prover's
reach, and the three violations of section 6. Reachability in a lesson is computed by a
recursive function; that it exists (`WalkExists`), and what the proofs need of its
values (`ReachIsWalk`), is shown by the least number of steps at which it would
fail, for which no theorem with an operator for a parameter is needed.

## 6. Where code and promises differ

Checked by a run that must find the violation:

* **A paid order may wait for ever** (`MCBillingStuck`). If the student got the
  target by a grant between checkout and confirmation, the insert of the
  entitlement fails; OB:602 means to go on, but PostgreSQL has aborted the
  transaction, so this and every redelivery fails and the order stays
  `awaiting_confirmation`.
* **An approval publishes the current draft** (`MCCourseApproved`), not the
  version submitted (CO:1118; DB_SCHEMA.md:284).
* **A lesson may be admitted that nobody can finish** (`MCLessonDeadEnd`). The
  validator asks no next block of a story marked as terminal (CV:230) and no
  outcomes of a free text without a rubric (CV:416). The runtime finishes lessons
  at blocks of kind `end` only: it refuses to go on from the former (LS:559) and
  every answer to the latter (LH:645). ARCHITECTURE.md:1204 calls such a story a
  final one and ends the lesson there (:1261), and asks a rubric of every free
  text (:1203). No editor writes either; a client of the API may.

Found while modelling, without a run of their own; a property named in brackets
is defined in the module, and TLC refutes it when it is added to a cfg.

Server:

* `ChargedTheSnapshot` (`OnlineBilling`): a checkout that reuses an order asks the
  provider for the offer's new price (OB:373), not the order's snapshot
  (ARCHITECTURE.md:222). The confirmation then ends as a mismatch.
* `PinnedRevision` (`LessonRuntime`): two starts around a publication leave a
  session of one revision under the progress of another (LH:756;
  ARCHITECTURE.md:1250).
* `ResumedInItsRevision` (`LessonRuntime`): a replay of a finished course is shown,
  after a publication, with the new revision's graph (LS:348; ARCHITECTURE.md:155).
* `BlockedHasNoSession` (`Accounts`): a login or an impersonation that was under way
  opens a session for an account blocked meanwhile (ID:262; DB_SCHEMA.md:120). The
  next request with it is refused, unless the account was unblocked before.
* A decision that leads to an end leaves the session open and the lesson
  unfinished (LS:836; ARCHITECTURE.md:1261), and the player's "complete" screen
  makes no call (LP:214).
* An offer may be activated for a course archived meanwhile (CS:287); a review of
  an archived course stays in the queue and can be approved (CO:1102).
* A session may be opened across a revocation (LS:393); its requests are refused.
* A replay pays the same XP again (LS:660; USER_STORIES.md:76).
* A second payment of an order that is fulfilled is acknowledged without an
  alert (OB:529).
* After the unique violation of its insert, StartLesson reads in the transaction
  PostgreSQL has aborted (LS:412): the fallback always fails, the next try works.
* Two claims of one child by two parents may tell the second that the limit is
  reached though a slot is free (GD:295).
* The evaluation of a free text in a preview holds the mutex of all previews
  (CO:844), that of a lesson holds its rows and a pool connection (LS:652).

Pages:

* Player: when the call that leaves a lesson fails, the progress the dialog said
  would be lost (LP:571) is not; when the answer that finished a lesson is lost,
  "try again" starts a new session; a key is never sent twice, so a repeated
  answer is recognised by its version only.
* Editors: the speaker of a story is typed in but not stored (TY:629); a story
  added behind an end leaves the end the start, and the lesson cannot be saved;
  in a lesson with two ends (the editors do not make one, the validator admits it)
  an added block goes before the first end and may be reached from nowhere, and
  the lesson cannot be saved until it is connected by hand;
  five of the validator's codes have no translation in `editorErrors.ts`.
* Courses: "save" and "submit", or "save" and "preview", pressed together send one
  version twice and the second is refused; what is typed while a submission is
  under way is overwritten by the draft read after it (CC:94), on the
  administrator's page it is not; the way to a lesson is taken even if the page
  was left meanwhile; a save on the lesson page takes a draft out of review.
* Moderation: the queue carries no version, so the table always says v1; an
  approval can be sent while a rejection is under way; its answer closes
  whatever review is open then.
* Preview: a step taken back, answered after "finish" was pressed, leaves the
  page finished; after a lost answer to a decision the page is refused until it
  is loaded anew.
* Commerce: archiving and editing an offer send the row as it was read, so a
  change made meanwhile is undone (CM:131); the answer about one order closes the
  dialog of another (CM:380); rows of an earlier filter may come last and stay
  (UA:12); numbers of free lessons that were typed keep covering those read
  anew.

## 7. What is not modelled

* **Other pages** (catalogue, profiles, onboarding, parents, users, sign-in): a
  read and a view of it, or a form that sends one call; the calls are actions of
  the server's modules with arbitrary inputs. Preview buttons of the moderation
  page start previews as the editors do.
* **Data**: texts, titles, e-mails, currencies, receipts, signatures, tokens and
  their encryption, timestamps beyond "expired or not". No property is about them.
* **Authorization** other than the checks that are guards of an action: CSRF,
  cookies, rate limits, decoding and error mapping of the router.
* **Profiles, assets, lists and views**: reads, or updates of one's own row.
* **Connection pools, latency, lock order**: a deadlock that PostgreSQL breaks is
  a stuttering step.
* **Migrations, configuration, logging, start-up, test kit and mock server**: no
  state of the running system beyond what the parts above keep.
