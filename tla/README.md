# Edufy: a TLA+ model of the course platform

Edufy is a NestJS application: people sign up, choose a role, publish courses,
buy them through a payment gateway, and open support tickets. One Node.js
process serves HTTP requests; all lasting state is in PostgreSQL. Its handlers
are `async` functions, and **no transaction encloses two statements**. Between
two `await`s a handler is alone; across an `await` any other handler may run.
Most handlers read an entity, check it, change it, and write the *whole* entity
back one `await` later. What that pattern can and cannot break is the subject of
this project.

## 1. The system

| Component | State | Operations that change it | Model |
|---|---|---|---|
| Courses, checkout, payment confirmation (`CourseController`, `PurchaseService`, `UserWebhook`) | tables `course`, `purchase`, `enrollment` | `POST /courses`, `POST /courses/:id/checkout`, `POST /users/webhook` | `Purchases` |
| Accounts and authentication (`UserController`, `UserService`, `AdminController`, `JwtGuard`) | table `user`; access tokens held by clients | `POST /users`, `POST /admin/support-agents`, `POST /users/login`, `POST /users/self-assign-role`, `PATCH /users/me` | `Users` |
| Support tickets (`TicketController`) | table `ticket` (replies are one JSON column) | `POST /tickets`, `POST /tickets/:id/reply`, `POST /tickets/:id/resolve` | `Tickets` |
| Payment gateway (an interface and a stub) | intents, payments, acknowledged confirmations | `createPaymentIntent`; calls the webhook | environment of `Purchases` |
| Accounts and shop in one process, over one table `user` | all of the above but tickets | all of the above but tickets | `Edufy` |
| Guards (`AdminGuard`, `WebHookGuard`), validation pipes | none | none | only how the webhook turns calls away (`Unverified` and 400 in `DeliverForeign`) |
| Read endpoints, history query, read DTOs | none | none | only the price the purchase history shows |
| Job queue (`libs/queue`: `QueueModule`, `PgBossQueue`, over pg-boss) | pg-boss's tables; a connection, a static map of queues, workers | start-up and shutdown; the operations of `Queue`; workers that run a processor's `process` | `QueueModule` |
| Migrations, configuration, bootstrap, debug endpoint, in-memory repositories | | | not modelled |

How they interact. `JwtGuard` reads the caller's row of `user` before an
authenticated handler starts and attaches the entity to the request; the user
handlers change and save that very entity, the other handlers use its `id` and
`role`. The checkout writes a `purchase` row and then asks the gateway for an
intent; the gateway answers much later, by calling the webhook, maybe more than
once. The webhook writes `purchase` and then `enrollment`. Tickets name users by
their ids. The three groups of tables have no handler that writes two of them. No module of
the application imports the job queue yet; it has integration tests of its own.

What is hard here, and what must be true in spite of it:

- *Interleaving.* Checks are made on rows read one `await` earlier: the 409 of
  the checkout, of the self-assignment and of the signup, the 400 of a ticket
  that is not open. Which guarantees survive the races, and which do not?
- *Whole-entity saves.* A save writes columns the request did not touch. It must
  never change whose purchase a row is or at what price, credentials, or who is
  a support agent; it may lose a concurrent update, but only in an overlap.
- *Failure between two writes.* A crash or rejected statement between the
  webhook's two writes leaves a completed purchase without an enrollment; one
  between the checkout's save and its gateway call leaves a purchase nobody can
  pay. Money must never be asked for a purchase the application forgot.
- *Start-up and shutdown.* Nest makes one instance of `QueueModule` for every
  dynamic module, each with an `onModuleInit` over the shared pg-boss. Is every
  queue there when the first caller comes? Is a job ever lost or left active?
- *Delivery.* The gateway repeats confirmations, also while one is still being
  handled. A student who paid is enrolled in the end, and stays enrolled.

`PROJECT.json` lists these hazards one by one, each at its line.

## 2. The modules

    PurchaseLedger        what the purchase service promises (abstract)
    Purchases             the handlers that keep the promise
    AccountBook           what accounts promise (abstract)
    Users                 the handlers of accounts
    TicketBoard           what a support ticket promises (abstract)
    Tickets               the handlers of tickets
    Edufy                 accounts and shop composed
    QueueModule           the job queue
    ..._proofs            the theorems about each of the eight
    MCPurchases, MCUsers, MCTickets, MCEdufy    symmetry sets for TLC

`Purchases`, `Users` and `Tickets` INSTANCE the `_proofs` module of their abstract
specification, and `Edufy` those of `Users` and `Purchases`, so that the theorems
of a part can be cited in the whole.

### The common shape of the handlers' modules

`req` maps each *slot* of `Request` to the local state of the request that
occupies it: `[pc |-> "idle"]` when free, otherwise the name of the statement
the handler awaits and the local variables its continuation will use. **One
action is one awaited statement together with the code that runs on its
result**, up to the next `await`: `FindPurchases(r)` evaluates the SELECT and
decides between the 409 and the save; `SavePurchase(r, p)` is the INSERT that
follows. Steps of different slots interleave freely. A finished handler leaves
`Done(status, ...)`, and the delivery of the response frees the slot.

`Reject` is any awaited call that fails (connection lost, statement refused): the
exception reaches Nest's filter, the request is answered 500, and what earlier
statements wrote stays. `Crash` is the death and restart of the process: every
request in flight is forgotten, the tables stay. Both draw on `MaxFaults`.

`randomUUID()` is a choice of an id no row has. The supply is finite, so a
request that will need an id is accepted only while one is left
(`CourseIdLeft`, `PurchaseIdLeft`, `UserIdLeft`); these are bounds of the model
and not of the code, placed where a request enters so that no handler ever gets
stuck half-way.

### Purchases and PurchaseLedger

| Action | Code |
|---|---|
| `CreateCourse`, `SaveCourse` | `CourseController.createCourse`: role check; INSERT |
| `CheckoutCourse`, `FindCourse` | `CourseController.checkoutCourse`: role check; `findOneById`, 404 |
| `FindPurchases`, `SavePurchase`, `CreatePaymentIntent` | `PurchaseService.processPurchase`: `findAllBy` and 409; `save`; gateway call |
| `FindPurchase`, `SaveCompleted`, `Enroll` | `UserWebhook.handleUserWebhook`: `findById` and 404; `save`; INSERT of the enrollment, 500 when the primary key refuses it |
| `Deliver`, `DeliverForeign`, `Pay` | the gateway: confirmations of paid purchases, events about nothing known, payments |
| `Reply`, `Reject`, `Crash` | the end of a request, in its three forms |

Details that matter: `save` is INSERT without `confirmed_at`, or UPDATE of every
column on a conflict (`Saved`); enrollments are INSERTed only. The identity and
role a handler sees are those `JwtGuard` read some time before, so `Caller` lets
any user act in any role; nothing proved about purchases depends on which.
Titles, descriptions and the constant currency `'BRL'` are left out. The gateway
is assumed to confirm only payments it received, each with the time of the
payment: the repository contains only its interface, a stub, and a guard that
accepts signed events.

`PurchaseLedger` knows no requests or deliveries: a purchase is opened for one
student, course and price, paid, completed, and turned into an enrollment, in
this order, each for good. `ImplementsLedger` maps the tables and the gateway to
it. The tables keep the ledger's promise under all races and failures: that is
what the design of the webhook achieves, which has no transaction either.

### Users

The guard's read and the handler's save are the two steps of an authenticated
request (`SelfAssignRole` or `UpdateUser`, then `SaveUser`); a creation is the
look-up of the e-mail (`CreateUser`) and the INSERT (`InsertUser`), which the
UNIQUE constraint may refuse. The argon2 hash is awaited between the two and
touches nothing shared, so it is part of the first. `Updated` is the UPSERT's
UPDATE: every column but the e-mail. The fields of the profile are a constant,
`Field`, with `name` (NOT NULL) among them; `biography`, `interests` and
`profilePictureUrl` are handled alike, and one of them is enough for a run. A field that is absent
from a PATCH, or falsy in it, is `Null`. Tokens do not expire, and guards let no
invalid one through.

`AccountBook` is what a client may think the handlers are: registering,
assigning a role and editing fields, each in one step. `account` is the table
without its ids. The table is **not** always such a book, and
`FreshSavesAreAtomic` says when a step of it is: always, but for the save of a
request that is `Stale`, about to write back an old value of a field or to
replace a role; and a request becomes stale only when another one saves the
same account.

### Tickets

`Create` is one statement. `Reply` and `Resolve` are the read of the ticket with
its checks, and `SaveTicket` the UPSERT of the whole row. The guard's read of the
caller is merged into the first step: it comes before, and a step of `Tickets`
neither changes nor reads `user`. `TicketBoard` is to `Tickets` what `AccountBook`
is to `Users`: opening, answering and resolving in single steps. Here a request is
`Stale` when the row in the table is not the one it read. No variable keeps that
row; `RowRead` makes it out from what the request will save: a reply is the row
read with one more answer, a resolution the row read with status and resolver
set. `SupportAgent` is a constant set because no
step ever changes who is an agent: that is `AgentsAreAppointed` of `Users`.

### Edufy

`Purchases` lets any user act in any role. `Edufy` replaces that by what happens:
`JwtGuard` reads the caller's row of `user`, the handler checks the role on the
entity at once (`Enter`), and the course or purchase is written several awaits
later. `AccountStep` and `ShopStep` are the steps of the two components over
their own slots and tables; the only joint step is `Crash`, as there is one
process. `raced` records the users whose role was replaced after it had been
assigned, which `Users` shows to need two overlapping requests of that user.

The components are instances of their proof modules, so that the theorems about
them can be cited: `ImplementsUsers` and `ImplementsPurchases` carry every
property of theirs over to the composition. The INSERTs of `Purchases` are never
refused by a foreign key to `user`; `RolesRespected` shows that none would be.
`Tickets` is not composed: all it needs to know of users is who is an agent,
which never changes (`AgentsAreAppointed`).

### QueueModule

| Action | Code |
|---|---|
| `Boot`, `OnModuleInit`, `CreateQueue`, `StartBoss`, `BossStarted`, `SetupProcessor`, `SetupEventListeners` | `QueueModule.onModuleInit`, once for every instance, statement by statement |
| `AddJob`, `RemoveJob`, `CancelJob`, `ResumeJob`, `Purge`, `ScheduleJob`, `Unschedule`, `Publish`, `SubscribeTo`, `UnsubscribeFrom` | the operations of `PgBossQueue`, one call of pg-boss each |
| `Fetch`, `Settle`, `Expire`, `Cron` | pg-boss (external) |
| `Process` | the handler `setupProcessors` maps to a queue |
| `Close`, `OnModuleDestroy` | the application is closed (`app.close()`), and the first `onModuleDestroy` calls `pgBoss.stop`; the `onModuleDestroy` of an instance returns |
| `TimeUp`, `Disconnect` | what `stop` does meanwhile in pg-boss (external) |
| `Crash` | the process dies |

`forRoot` and every `registerQueue` return a dynamic module of the same class, so
there is one instance for each, and `onModuleInit` runs for all of them, one
after another. All share one `PgBoss` and the static `queues`, so each creates
every queue and maps every processor: there are as many workers of a processor
as instances, and two of them can hold one job, after it expired. `createQueues`
comes before `pgBoss.start`; whether pg-boss does anything when it is not
connected is not in the repository, so those calls may have an effect or none.
`start` is two steps, its call and its return, because pg-boss can emit an error
in between. An `onModuleInit` that rejects (a processor that is not a `JobWorker`, a lost
connection) ends the process, which is a `Crash`. Listeners of queue events only
observe and have no step of their own; job data, options and results are left
out. Pg-boss's part is modelled from how the code and its tests use it: a job is
retried up to `RetryLimit` times, `stop` ends polling, waits for workers, fails
what one holds when its time is up, disconnects, and only then returns. While it
waits, handlers return or throw, jobs expire, and callers, whom the HTTP server
still serves, go on using the queues. Each instance's `onModuleDestroy` awaits `stop`
(where it was called before it has no effect), one instance after another, and
the process is gone when the last has returned.

## 3. What is checked

All passing runs check deadlock too. Ids, prices, times, texts and slots are
interchangeable, so the safety runs use symmetry; the liveness run does not.

**purchases_safety** (102 thousand states): 2 users, 1 course, 2 purchases, 3
requests, 2 prices, 2 times, 1 fault. Two purchases and three requests are what
it takes for two overlapping deliveries of a confirmation while a checkout of
the same course is past its check; two times tell the time of the event from any
other. (With two courses the same properties hold in a million states.)

- `TypeOK`.
- `EnrolledOnlyIfPaid`, `CompletedWhenPaid`, `IntentIsRecorded`,
  `AckedOnlyIfEnrolled`: no access without a payment; a purchase is completed
  exactly when it is dated, by its own payment; money is asked only for stored
  purchases, at the stored and shown price; a 2xx means enrolled.
- `RequestsKnow`: what a request holds between two `await`s is never contradicted
  by the tables.
- `BoughtIsFinal`: the 409 check fails *only* while a checkout is between its check
  and its save. `NothingIsTakenBack`: stale whole-entity saves change nothing
  that is settled.
- `ImplementsLedger`: every statement is one step of `PurchaseLedger` or none.

**purchases_liveness** (19 thousand states, 2 faults): `PaidIsEnrolled`, a
student who paid is in the end enrolled. Two faults let the webhook fail twice
in a row, or once after each of two writes.

**users_safety** (626 thousand states): 2 accounts, 2 e-mails, a name and one more
field, 3 requests, 1 fault. `EmailsUnique` and `TokenNamesUser` across racing and failing signups;
`AccountIsStable` and `AgentsAreAppointed`: no stale save touches credentials,
or makes or unmakes a support agent; `SettledRoleIsFinal`: a role can be
replaced only by a request that read the account before it had one;
`OutdatedByOverlap`: an update is lost only to an overlapping save of the same
account; `SavesKnow`, what a pending save knows about the row it will overwrite;
`FreshSavesAreAtomic`: the read, the checks and the save of a handler, with other
requests in between, are one step of `AccountBook`, and only another save of the
same account makes it otherwise. The run checks the last one under all overlaps,
where most reachable states have one.

**tickets_safety** (520 thousand states): 1 ticket (tickets share nothing), 2
agents and another user, 3 requests, at most 2 replies, 1 fault.
`ClosedByAgent`: a ticket is closed exactly when it names an agent who resolved
it; `SettledIsFinal` and `OutdatedByOverlap`: a closed ticket is reopened, and a
reply dropped, only by a save that overlapped another; `SavesKnow`;
`FreshSavesAreAtomic`: a handler whose ticket nobody else saved meanwhile is one
step of `TicketBoard`.

**edufy_safety** (1.34 million states): 2 accounts, 1 course, 1 purchase, 2
requests about accounts, 1 to the shop, 1 fault of either side (a death of the
process counts for both). Two accounts are needed for the customers' part:
an account that teaches and buys has been both, and so is in `raced`; with a
second one there are courses taught by one settled account and bought and
attended by another, and customers whose role is raced for while the lecturer's
is settled. One request to the shop is enough for the hazard, which lies between
its role check and its save, against the two requests about the account: a row
of the shop depends on the role its own request saw, and other requests of the
shop touch neither. (One account with two requests to the shop was checked as
well, in 1.76 million states.) The profile is the name alone.

- `RolesRespected`: who teaches is an instructor, who buys or attends is a student,
  unless requests of the account itself raced for its role.
- `AgentsStayOut`: no race gives a support agent a part in the shop.

**queue_lifecycle** (529 thousand states): 1 queue with a processor, hence 2
module instances and 2 workers of it, 1 event, 2 jobs, 1 retry, 1 shutdown or
death. Two instances are the fewest there can be, and enough for a call in vain
and its repetition, and for two workers at one expired job; two jobs let one
pass the other. No symmetry, because of the liveness property. (The same
properties hold with a second queue, which no processor works on, and 1 job, in
344 thousand states; and the safety properties with two queues, two jobs and no
shutdown in 4 million.)

- `QueuesExist`: every queue exists when the first caller can use it, although the
  first instance's `createQueues` may have been in vain.
- `ErrorsAreHeard`: an `'error'` of pg-boss finds no listener, and so ends the
  process, in one window only: from the first `onModuleInit`'s call of `start` to
  its `on('error')`.
- `CompletedWasProcessed`: a job is completed only after a `process` of it returned,
  whatever expires, is cancelled, resumed, or taken twice.
- `OnlyDeathOrphans`: a job comes to be active without a worker only when a process
  dies. Nothing else does it: not an expiry at a slow worker after which a doubled
  worker takes the job, whichever of the two settles first; not a cancellation
  and resumption at work; not a later instance that maps its workers; and not a
  shutdown, where hooks, handlers, expiry and the end of `stop` interleave. If
  `onModuleDestroy` did not await `stop`, the process would leave jobs so.
- `JobsAreHandled`: a job for a processor does not wait, or stay active, for ever.

Every property of a passing run has a mutant of the code (in the module, just
before the definition it replaces) that violates it.

### Where the code does not do what it says

Six runs each end in a counterexample; `PROJECT.json` quotes the line that says
otherwise.

| Run | What happens |
|---|---|
| purchases_bought_twice | One request at a time. The check of the checkout sees completed purchases only, so two checkouts before the first payment give two payable intents. Both can be paid; the second buys nothing, and its confirmation is answered 500 for ever. |
| purchases_duplicate | A repeated confirmation is answered 500: the INSERT of the enrollment is refused. The test that says it is ignored is still a `todo`. |
| users_role_race | Two self-assignments both pass the check, or an update in flight takes the role back. |
| tickets_lost_reply | Of two replies in flight one is lost, although both are answered 204. |
| tickets_reopened | A reply in flight reopens a ticket that was resolved meanwhile. |
| queue_unsubscribe | `unsubscribeFrom` passes queue and event to pg-boss in the wrong order. The queue stays subscribed and gets a job for the next event. |

Two more races are in the passing models, as behaviours their properties allow
for: a confirmation may complete a purchase between the check and the save of
another checkout (`BoughtIsFinal` names that window), and the second of two
racing signups is answered 500 and not 409 (`InsertUser`).

### Fairness

Two properties need it.

`PaidIsEnrolled`: `WF_vars(Handle(r))`, because Node's event loop resumes every
handler whose awaited call has settled, and calls settle (a statement that never
answers is a rejection by timeout, which is a fault). `SF_vars(Redeliver(p))`: the
gateway repeats a confirmation until it gets a 2xx. It has to be strong, because
a delivery is possible only while a slot is free, and slots fill and empty all
the time. Nothing is assumed of clients, payments or faults. The gateway's
persistence is an assumption about a service outside the repository; without it
the property is false, for a single crash between the webhook's writes.

`JobsAreHandled`: weak fairness of start-up (the process is started again and its
statements settle), of each worker's handler, of the expiry of each active job,
and of `ShutDown` (`stop` has a time limit). `SF` of the fetch of each
job: pg-boss polls, and takes the oldest job first, so a job that is there again
and again is not passed over for ever; a weak form would not do, as workers are
free now and busy then. Nothing is assumed of callers or of `process`, which may
throw each time.

## 4. What is proved

The theorems hold for every value of the constants: any number of users,
courses, requests in flight, queues, jobs and faults. They assume
`PurchasesAssumption`, `UsersAssumption`, `TicketsAssumption`, `QueueAssumption` and
`EdufyAssumption`: bounds are natural numbers, `Null` is no id, value or entity,
the profile has a name,
support agents are users, processors work on registered queues, and the module
of `forRoot` is none of a registered queue.

Each component has an inductive invariant `IInv`, and the safety theorems are
consequences of `Spec => []IInv` (`Invariance`). The safety invariants alone are
not inductive, because what a step writes is decided by what its request read
earlier; `IInv` adds what is known in between:

- `Purchases`: `RequestsKnow` (a purchase to be saved is a snapshot of its row that
  differs in status and date only; a pending delivery carries its purchase's
  payment; a checkout's price is its course's; a 2xx on its way is true already)
  and `RowsAgree` (rows carry their own ids, purchases refer to stored courses at
  their price, payments have intents).
- `Users`: `SavesKnow` (a pending save has the account's own credentials, a name,
  and the agent's role exactly if the account has it) and `IdsAgree`.
- `Tickets`: `SavesKnow` (a pending save has the ticket's own opener and is closed
  exactly when it names an agent) and `IdsAgree`.
- `QueueModule`: `BootKnows` (how far start-up is: an instance that has returned from
  `onModuleInit` leaves pg-boss connected and heard, so the calls of every later
  one take effect; there are two instances at least; only a shutdown
  disconnects), `WorkersAreMapped` (a worker is there once its instance has mapped
  it, and while pg-boss is connected) and `WorkersKnow` (what a worker holds exists,
  and is processed once its handler has returned).
- `Edufy`: the invariants of both components, `RowsFit` and `RequestsFit` (whoever is
  in a row of the shop, or about to be, has or had the role and is no agent).

| Module | Theorem | States |
|---|---|---|
| Purchases_proofs | `TypeCorrect` | `TypeOK` |
| | `Invariance`, `RequestsKnowAlways` | `IInv`, `RequestsKnow` |
| | `EnrollmentsArePaid`, `CompletionsArePaid`, `IntentsAreRecorded`, `AcksAreEnrolled` | the four safety invariants |
| | `Stability`, `BoughtForGood` | `NothingIsTakenBack`, `BoughtIsFinal` |
| | `Refinement` | `ImplementsLedger` |
| Users_proofs | `TypeCorrect`, `Invariance`, `SavesAreSound`, `EmailsAreUnique`, `TokensNameUsers` | `IInv` and four of its parts |
| | `AccountsAreStable`, `OnlyAdminAppoints`, `RolesSettle`, `UpdatesAreLostByOverlap` | the action properties |
| Tickets_proofs | `TypeCorrect`, `Invariance`, `SavesAreSound`, `ClosedTicketsHaveAgents` | `IInv` and three of its parts |
| | `SettledTicketsAreFinal`, `TicketsAreLostByOverlap` | the action properties |
| QueueModule_proofs | `TypeCorrect`, `Invariance`, `QueuesAreCreated`, `ErrorsAreHeardAlways`, `CompletedJobsWereProcessed` | `TypeOK`, `IInv` and the safety invariants |
| | `OnlyDeathOrphansJobs` | `OnlyDeathOrphans` |
| Edufy_proofs | `Invariance` | `IInv` |
| | `ImplementsUsers`, `ImplementsPurchases` | the composition implements either component |
| | `RolesAreRespected`, `AgentsStayOutAlways` | the two invariants of `Edufy` |

About the abstract specifications and what implements them:

| Module | Theorem | States |
|---|---|---|
| PurchaseLedger_proofs | `AccessIsPaidFor`, `EntriesAreFinal` | who has access has paid; nothing in the ledger is undone |
| AccountBook_proofs | `EmailsAreUnique`, `AccountsAreKept` | an e-mail names one account, which keeps credentials, role and filled-in fields |
| TicketBoard_proofs | `AnswersAreKept`, `ClosureIsFinal` | no answer is lost; a closed ticket never changes |
| Purchases_proofs | `LedgerPromises` | both promises of the ledger hold of the tables |
| | `OnePurchaseWithoutRival` | `[]NoRival` implies `[]OnePurchasePerCourse` |
| Users_proofs | `SavesAreAtomic` | `FreshSavesAreAtomic` |
| | `NoOverlapKeepsFresh`, `BookImplemented`, `RoleFinalWithoutOverlap` | `[]NoOverlap` implies that no save is stale, that the table is an `AccountBook`, and `RoleIsFinal` |
| Tickets_proofs | `SavesAreAtomic` | `FreshSavesAreAtomic` |
| | `NoOverlapKeepsFresh`, `BoardImplemented`, `RepliesKeptWithoutOverlap`, `ClosedFinalWithoutOverlap` | `[]NoOverlap` implies that no save is stale, that the table is a `TicketBoard`, `RepliesAreKept` and `ClosedIsFinal` |
| Edufy_proofs | `ImplementsTheLedger` | the shop implements the ledger, whatever the accounts do |
| | `ImplementsTheBook`, `RolesHeldWithoutOverlap` | `[]U!NoOverlap` implies that the accounts are an `AccountBook`, and `RolesHeld`: `RolesRespected` without its exception |
| | `OnePurchaseWithoutRival` | as in `Purchases` |

### When the refuted claims hold

Three of the six counterexamples of section 3 are races of two requests, a fourth is
one of two purchases, and the natural question is whether the race is *all* that
is wrong. The theorems with
`Without` in their names answer it for every value of the constants: the claim
that the run refutes (`RoleIsFinal`, `RepliesAreKept`, `ClosedIsFinal`,
`OnePurchasePerCourse`) holds in every behaviour without the race. The hypotheses
are about who is at work and not about what is in the tables:

- `NoOverlap` (`Users`, `Tickets`): no two requests are between the read and the save of
  the same row. A lock on the row (`SELECT ... FOR UPDATE` in a transaction) or a
  version column would give this. Different accounts and tickets may be at work
  at once, and crashes and rejected statements are allowed.
- `NoRival` (`Purchases`): nobody stores a purchase of a course while another checkout
  of theirs is about to store one, or while they have one not yet confirmed.
  This asks for more than a lock: the check looks for completed purchases only,
  and a purchase whose payment never comes is a rival for ever.

They are hypotheses about behaviours, and not vacuous: whatever a single request
does alone satisfies them, with any failure, and so do all interleavings of
requests about different rows. `NoOverlap` and `NoRival` have been used as TLC
constraints as well, on the constants of the safety runs: the conclusions hold in
all remaining states (74 thousand of `Purchases`, 60 thousand of `Users`, 9
thousand of `Tickets`, 74 thousand of `Edufy`), and the counterexample runs show
that without them they do not. These checks are not among the runs, as the
theorems say more.

The argument for `Users` and `Tickets` has three parts. *A fresh save is atomic*:
`SavesAct` and `SavesKnow` say what a pending save is made of, so that over a row
that has not changed since the read, the UPSERT of the whole row is one
operation of the abstract specification, whose guard (no role yet; still open)
holds because the handler checked it on that very row. *Only a save makes stale*:
every other step leaves the row and the request alone. *Without overlap nobody is
stale*: the save that would make a request stale would overlap it. The claims
then follow from the theorems about the abstract specification. `OnePurchaseWithoutRival`
has an inductive invariant of its own, `OnePurchase`: there is at most one purchase
of a course by a student, and none while a checkout is past its check;
`NoRival` is needed where a checkout finds no completed purchase.

### How the proofs go

The proof that a step preserves `IInv` has one lemma per kind of step: those
that write a table, and one `EnterStep` (or the like) for all that only move a
request. The action properties split a step by who can write the row
(`Writers`, `TicketWriters`) and by how a pending save came to be
(`SaveStarts`). `Refinement` maps each statement to the ledger's step it takes, and
`StepOnBook` and its counterpart for the board each save to an operation there.

`QueuesAreCreated` is the theorem behind the doubled start-up: `Root` is no queue, so
if there is a queue there are two instances, and the second finds pg-boss
connected. `OnlyDeathOrphansJobs` needs `WorkersAreMapped` in two places: an instance
that maps its processors finds no worker of its own at work, and the last
`onModuleDestroy` finds none at all, as it has awaited the `stop` that disconnects.
For the rest, a worker that lets a job go leaves it settled, failed or waiting
(`SettleStep`, `TimeUpStep`), and calls and expiry make no job active
(`JobsActivateNone`). In `Edufy` a step of one component leaves the other's state
alone, so its invariant is the component's own lemma (`IInvInit`, `IInvNext`, cited
through the instance) plus what the step does to `RowsFit` and `RequestsFit`; for
these, `StaysOnItsSide` of `Users_proofs` says which roles a step of `Users` may
replace, and `CourseOrigin`, `PurchaseOrigin` and `RequestOrigin` of
`Purchases_proofs` say from which request a row, and from which caller a request,
comes.

Every safety and action property the passing runs check is a theorem. Only
model-checked: `PaidIsEnrolled` and `JobsAreHandled` (liveness and ENABLED are
out of the prover's reach) and the six counterexamples.

## 5. What is not modelled

- Start-up, configuration, validation of DTOs, serialisation, logging.
- `AdminGuard`, `WebHookGuard` and the signature of tokens: pure checks of one
  request. Admin requests of `Users`, deliveries of `Purchases` and tokens are
  those that pass; `DeliverForeign` has the answers to calls that do not.
- Read endpoints: each is one SELECT, which changes nothing and whose rows are
  returned as they are. The one derived value a property speaks of, the price in
  the purchase history, is `ShownPrice`.
- Data, options and results of jobs, events of queues, and the inside of pg-boss.
- The deletion of rows: no handler deletes.
- In-memory repositories and the gateway spy: test doubles.

## 6. Plan

Done, in this order, the most important behaviour first: `PurchaseLedger` and
`Purchases` with their proofs; `Users` with its proofs; `Tickets` with its proofs;
`QueueModule` with its proofs; `Edufy`, composing accounts and shop, with its
proofs; `TicketBoard` and `AccountBook`, and the conditions under which `Tickets`,
`Users` and `Purchases` keep what the documentation says.

Left:

1. An abstract specification of a job queue (a job is waiting, active, or settled)
   and the theorem that `QueueModule` implements it through start-up and deaths.
2. The condition under which `OnlySubscribersGetJobs` holds: subscriptions of events
   that no queue gives up.
3. When a module of the application imports the queue: its processors in place of
   the arbitrary `Process`, composed with the tables they write.
