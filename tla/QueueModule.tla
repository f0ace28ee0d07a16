----------------------------- MODULE QueueModule -----------------------------
(***************************************************************************)
(* libs/queue: start-up and shutdown of the job queue, its workers, and    *)
(* the operations of PgBossQueue, over pg-boss as an external service.     *)
(*                                                                         *)
(* forRoot and every registerQueue return a dynamic module of one class,   *)
(* so Nest makes one instance of it for each and calls onModuleInit of     *)
(* each, one after another.  They share one PgBoss and the static map of   *)
(* queues: every instance creates all queues and maps all processors.      *)
(***************************************************************************)
EXTENDS Integers, FiniteSets, Functions

CONSTANTS
  Queue,        \* QueueModule.queues: the names given to registerQueue
  Root,         \* the dynamic module forRoot returns
  Processor,    \* the queues a class decorated @Processor works on
  Event,        \* names given to publish and subscribeTo
  JobId,
  Null,
  RetryLimit,   \* of pg-boss
  MaxStops      \* bound on the ends of the process: shutdowns and deaths

VARIABLES
  \* tables of pg-boss
  queue,         \* the queues that exist
  job,
  subscription,  \* pairs of an event and the queue that gets a job for it
  schedule,      \* queues with a cron schedule
  \* the process
  phase,
  opened,        \* PgBoss is connected, or start has begun to connect it
  heard,         \* PgBoss has a listener for its 'error' event
  initialised,   \* instances past onModuleInit and not past onModuleDestroy
  starting,      \* the onModuleInit at work
  worker,        \* workers of pg-boss, one per module instance and processor
  \* history
  wanted,        \* as subscription, by what the callers asked for
  processed,     \* jobs whose process() has returned
  stops

tables  == <<queue, job, subscription, schedule>>
process == <<phase, opened, heard, initialised, starting, worker>>
vars    == <<tables, process, wanted, processed, stops>>

-----------------------------------------------------------------------------
(* Types.                                                                  *)

QueueInstance == {Root} \cup Queue
Worker        == QueueInstance \X Processor

\* "removed" stands for a row that is gone; its id is not used again
JobState == {"created", "retry", "active", "completed", "cancelled", "failed",
             "removed"}
Job == [queue : Queue, state : JobState, retries : 0..RetryLimit]

ASSUME QueueAssumption ==
  /\ RetryLimit \in Nat /\ MaxStops \in Nat
  /\ Processor \subseteq Queue
  /\ Root \notin Queue
  /\ Null \notin Job

Phase == {"down", "booting", "up", "closing"}

\* No onModuleInit is at work
Waiting == [at |-> "waiting"]
Starting ==
  [at : {"waiting"}]
  \cup [at : {"createQueues"}, module : QueueInstance, left : SUBSET Queue]
  \cup [at : {"start"}, module : QueueInstance]
  \cup [at : {"setupProcessors"}, module : QueueInstance, left : SUBSET Processor]

Off  == [does |-> "off"]
Free == [does |-> "free"]
WorkerState ==
  [does : {"off", "free"}]
  \cup [does : {"fetched", "returned", "threw"}, job : JobId]

TypeOK ==
  /\ queue \subseteq Queue
  /\ job \in [JobId -> Job \cup {Null}]
  /\ subscription \subseteq Event \X Queue
  /\ schedule \subseteq Queue
  /\ phase \in Phase
  /\ opened \in BOOLEAN
  /\ heard \in BOOLEAN
  /\ initialised \subseteq QueueInstance
  /\ starting \in Starting
  /\ worker \in [Worker -> WorkerState]
  /\ wanted \subseteq Event \X Queue
  /\ processed \subseteq JobId
  /\ stops \in 0..MaxStops

Init ==
  /\ queue = {} /\ job = [j \in JobId |-> Null]
  /\ subscription = {} /\ schedule = {}
  /\ phase = "down" /\ opened = FALSE /\ heard = FALSE
  /\ initialised = {} /\ starting = Waiting
  /\ worker = [w \in Worker |-> Off]
  /\ wanted = {} /\ processed = {} /\ stops = 0

-----------------------------------------------------------------------------
(* QueueModule.onModuleInit, once for every instance.                      *)

Boot ==
  /\ phase = "down"
  /\ phase' = "booting"
  /\ UNCHANGED <<tables, opened, heard, initialised, starting, worker, wanted,
                 processed, stops>>

\* Mutant: only the first instance creates the queues
OnModuleInitOnce(m) ==
  /\ phase = "booting" /\ starting = Waiting /\ m \notin initialised
  /\ starting' = [at |-> "createQueues", module |-> m,
                  left |-> IF opened THEN {} ELSE Queue]
  /\ UNCHANGED <<tables, phase, opened, heard, initialised, worker, wanted,
                 processed, stops>>

OnModuleInit(m) ==
  /\ phase = "booting" /\ starting = Waiting /\ m \notin initialised
  /\ starting' = [at |-> "createQueues", module |-> m, left |-> Queue]
  /\ UNCHANGED <<tables, phase, opened, heard, initialised, worker, wanted,
                 processed, stops>>

\* createQueues comes before pgBoss.start: the calls of the first instance find
\* no open connection, and may have no effect.
CreateQueue(q) ==
  /\ starting.at = "createQueues" /\ q \in starting.left
  /\ \/ queue' = queue \cup {q}
     \/ ~opened /\ UNCHANGED queue
  /\ starting' = [starting EXCEPT !.left = @ \ {q}]
  /\ UNCHANGED <<job, subscription, schedule, phase, opened, heard, initialised,
                 worker, wanted, processed, stops>>

\* pgBoss.start is called, and connects; it has no effect when it was called
\* before.  From here on pg-boss can emit an 'error'.
StartBoss ==
  /\ starting.at = "createQueues" /\ starting.left = {}
  /\ opened' = TRUE
  /\ starting' = [at |-> "start", module |-> starting.module]
  /\ UNCHANGED <<tables, phase, heard, initialised, worker, wanted, processed,
                 stops>>

\* The awaited start has returned
BossStarted ==
  /\ starting.at = "start"
  /\ starting' = [at |-> "setupProcessors", module |-> starting.module,
                  left |-> Processor]
  /\ UNCHANGED <<tables, phase, opened, heard, initialised, worker, wanted,
                 processed, stops>>

\* Mutant: no processor is found
SetupProcessorSkipped(q) ==
  /\ starting.at = "setupProcessors" /\ q \in starting.left
  /\ starting' = [starting EXCEPT !.left = @ \ {q}]
  /\ UNCHANGED <<tables, phase, opened, heard, initialised, worker, wanted,
                 processed, stops>>

\* pgBoss.work(queueName, ...) for one processor.  The worker polls at once.
SetupProcessor(q) ==
  /\ starting.at = "setupProcessors" /\ q \in starting.left
  /\ worker' = [worker EXCEPT ![<<starting.module, q>>] = Free]
  /\ starting' = [starting EXCEPT !.left = @ \ {q}]
  /\ UNCHANGED <<tables, phase, opened, heard, initialised, wanted, processed,
                 stops>>

\* Mutant: no listener for 'error'
SetupEventListenersDeaf ==
  /\ starting.at = "setupProcessors" /\ starting.left = {}
  /\ initialised' = initialised \cup {starting.module}
  /\ starting' = Waiting
  /\ phase' = IF initialised' = QueueInstance THEN "up" ELSE phase
  /\ UNCHANGED <<tables, opened, heard, worker, wanted, processed, stops>>

\* setupEventListeners and on('error'), the end of onModuleInit; when the last
\* instance has returned from it the application is up.
SetupEventListeners ==
  /\ starting.at = "setupProcessors" /\ starting.left = {}
  /\ heard' = TRUE
  /\ initialised' = initialised \cup {starting.module}
  /\ starting' = Waiting
  /\ phase' = IF initialised' = QueueInstance THEN "up" ELSE phase
  /\ UNCHANGED <<tables, opened, worker, wanted, processed, stops>>

-----------------------------------------------------------------------------
(* PgBossQueue.  Each operation is one call of pg-boss; callers have the   *)
(* application up, or shutting down with pg-boss still connected.          *)

Serving == phase \in {"up", "closing"} /\ opened

\* Mutant: a job without a count of its retries
NewJobUncounted(q) == [queue |-> q, state |-> "created", retries |-> Null]

NewJob(q) == [queue |-> q, state |-> "created", retries |-> 0]

\* A job of queue q in one of the states
Is(j, q, states) ==
  job[j] # Null /\ job[j].queue = q /\ job[j].state \in states

Set(j, state) == job' = [job EXCEPT ![j].state = state]

\* boss.send: a queue that does not exist gets no job
AddJob(q, j) ==
  /\ Serving /\ q \in queue /\ job[j] = Null
  /\ job' = [job EXCEPT ![j] = NewJob(q)]
  /\ UNCHANGED <<queue, subscription, schedule, process, wanted, processed, stops>>

RemoveJob(q, j) ==
  /\ Serving /\ Is(j, q, JobState \ {"removed"})
  /\ Set(j, "removed")
  /\ UNCHANGED <<queue, subscription, schedule, process, wanted, processed, stops>>

CancelJob(q, j) ==
  /\ Serving /\ Is(j, q, {"created", "retry", "active"})
  /\ Set(j, "cancelled")
  /\ UNCHANGED <<queue, subscription, schedule, process, wanted, processed, stops>>

ResumeJob(q, j) ==
  /\ Serving /\ Is(j, q, {"cancelled"})
  /\ Set(j, "created")
  /\ UNCHANGED <<queue, subscription, schedule, process, wanted, processed, stops>>

Purge(q) ==
  /\ Serving
  /\ job' = [j \in JobId |-> IF Is(j, q, {"created", "retry"})
                               THEN [job[j] EXCEPT !.state = "removed"]
                               ELSE job[j]]
  /\ UNCHANGED <<queue, subscription, schedule, process, wanted, processed, stops>>

\* boss.subscribe(eventName, this.name)
SubscribeTo(q, e) ==
  /\ Serving
  /\ subscription' = subscription \cup {<<e, q>>}
  /\ wanted' = wanted \cup {<<e, q>>}
  /\ UNCHANGED <<queue, job, schedule, process, processed, stops>>

\* boss.unsubscribe(this.name, eventName): its parameters are, as those of
\* subscribe, an event and a queue, and here they are swapped.
UnsubscribeFrom(q, e) ==
  /\ Serving
  /\ subscription' = subscription \ {<<q, e>>}
  /\ wanted' = wanted \ {<<e, q>>}
  /\ UNCHANGED <<queue, job, schedule, process, processed, stops>>

\* boss.publish: a job of its own for every queue subscribed to the event
Subscribers(e) == {q \in queue : <<e, q>> \in subscription}

Publish(e) ==
  /\ Serving
  /\ \E fresh \in SUBSET {j \in JobId : job[j] = Null} :
       \E for \in Bijection(fresh, Subscribers(e)) :
         job' = [j \in JobId |-> IF j \in fresh THEN NewJob(for[j]) ELSE job[j]]
  /\ UNCHANGED <<queue, subscription, schedule, process, wanted, processed, stops>>

ScheduleJob(q) ==
  /\ Serving /\ q \in queue
  /\ schedule' = schedule \cup {q}
  /\ UNCHANGED <<queue, job, subscription, process, wanted, processed, stops>>

Unschedule(q) ==
  /\ Serving
  /\ schedule' = schedule \ {q}
  /\ UNCHANGED <<queue, job, subscription, process, wanted, processed, stops>>

-----------------------------------------------------------------------------
(* Jobs at work.                                                           *)

\* pg-boss: the schedule is due
Cron(q, j) ==
  /\ opened /\ q \in schedule /\ q \in queue /\ job[j] = Null
  /\ job' = [job EXCEPT ![j] = NewJob(q)]
  /\ UNCHANGED <<queue, subscription, schedule, process, wanted, processed, stops>>

\* pg-boss: a worker polls its queue and takes one job
Fetch(w, j) ==
  /\ phase \in {"booting", "up"} /\ worker[w] = Free
  /\ Is(j, w[2], {"created", "retry"})
  /\ Set(j, "active")
  /\ worker' = [worker EXCEPT ![w] = [does |-> "fetched", job |-> j]]
  /\ UNCHANGED <<queue, subscription, schedule, phase, opened, heard, initialised,
                 starting, wanted, processed, stops>>

\* Mutant: the handler does not wait for process(job)
ProcessNotAwaited(w) ==
  /\ worker[w].does = "fetched"
  /\ worker' = [worker EXCEPT ![w].does = "returned"]
  /\ UNCHANGED <<tables, phase, opened, heard, initialised, starting, wanted,
                 processed, stops>>

\* The handler mapped to the queue: it resolves a request-scoped processor, if
\* the processor is one, and awaits its process(job), which returns or throws.
Process(w) ==
  /\ worker[w].does = "fetched"
  /\ \/ /\ worker' = [worker EXCEPT ![w].does = "returned"]
        /\ processed' = processed \cup {worker[w].job}
     \/ /\ worker' = [worker EXCEPT ![w].does = "threw"]
        /\ UNCHANGED processed
  /\ UNCHANGED <<tables, phase, opened, heard, initialised, starting, wanted, stops>>

\* pg-boss: what becomes of an active job that was not completed
Failed(e) ==
  IF e.retries < RetryLimit THEN [e EXCEPT !.state = "retry", !.retries = @ + 1]
                            ELSE [e EXCEPT !.state = "failed"]

\* pg-boss: the handler has settled.  A job that was cancelled, removed or
\* expired meanwhile is left as it is.
Settle(w) ==
  /\ worker[w].does \in {"returned", "threw"}
  /\ LET j == worker[w].job
     IN  job' = [job EXCEPT ![j] =
                   IF @.state # "active" THEN @
                   ELSE IF worker[w].does = "threw" THEN Failed(@)
                   ELSE [@ EXCEPT !.state = "completed"]]
  /\ worker' = [worker EXCEPT ![w] = Free]
  /\ UNCHANGED <<queue, subscription, schedule, phase, opened, heard, initialised,
                 starting, wanted, processed, stops>>

\* pg-boss: a job has been active for too long; its worker may be dead or slow
Expire(j) ==
  /\ opened /\ job[j] # Null /\ job[j].state = "active"
  /\ job' = [job EXCEPT ![j] = Failed(@)]
  /\ UNCHANGED <<queue, subscription, schedule, process, wanted, processed, stops>>

-----------------------------------------------------------------------------
(* Ends of the process.                                                    *)

\* The process is gone; pg-boss's tables stay.
Exit ==
  /\ phase' = "down" /\ opened' = FALSE /\ heard' = FALSE
  /\ initialised' = {} /\ starting' = Waiting
  /\ worker' = [w \in Worker |-> Off]

\* The application is closed: the onModuleDestroy of the first instance calls
\* pgBoss.stop, after which no worker takes another job.
Close ==
  /\ phase = "up" /\ stops < MaxStops
  /\ phase' = "closing"
  /\ stops' = stops + 1
  /\ UNCHANGED <<tables, opened, heard, initialised, starting, worker, wanted,
                 processed>>

AtWork(w) == worker[w].does \in {"fetched", "returned", "threw"}
Held(j)   == \E w \in Worker : AtWork(w) /\ worker[w].job = j
Orphan(j) == job[j] # Null /\ job[j].state = "active" /\ ~Held(j)

\* pg-boss: stop does not wait longer for a worker, and gives its job up
TimeUp(w) ==
  /\ phase = "closing" /\ AtWork(w)
  /\ LET j == worker[w].job
     IN  job' = [job EXCEPT ![j] = IF @.state = "active" THEN Failed(@) ELSE @]
  /\ worker' = [worker EXCEPT ![w] = Off]
  /\ UNCHANGED <<queue, subscription, schedule, phase, opened, heard, initialised,
                 starting, wanted, processed, stops>>

\* pg-boss: no job is at work any more; stop disconnects, and returns
Disconnect ==
  /\ phase = "closing" /\ opened
  /\ \A w \in Worker : ~AtWork(w)
  /\ opened' = FALSE
  /\ worker' = [w \in Worker |-> Off]
  /\ UNCHANGED <<tables, phase, heard, initialised, starting, wanted, processed,
                 stops>>

\* The hook of one instance is done; with the last one the process is gone.
Leave(m) ==
  IF initialised = {m}
    THEN Exit
    ELSE /\ initialised' = initialised \ {m}
         /\ UNCHANGED <<phase, opened, heard, starting, worker>>

\* Mutant: onModuleDestroy does not wait for stop
OnModuleDestroyNotAwaited(m) ==
  /\ phase = "closing" /\ m \in initialised
  /\ Leave(m)
  /\ UNCHANGED <<tables, wanted, processed, stops>>

\* onModuleDestroy awaits stop, in every instance; where stop was called before
\* it has no effect.
OnModuleDestroy(m) ==
  /\ phase = "closing" /\ m \in initialised
  /\ ~opened
  /\ Leave(m)
  /\ UNCHANGED <<tables, wanted, processed, stops>>

\* The process dies.  A rejected onModuleInit ends it too, and so does an 'error'
\* of pg-boss that has no listener.
Crash ==
  /\ phase # "down" /\ stops < MaxStops
  /\ stops' = stops + 1
  /\ Exit
  /\ UNCHANGED <<tables, wanted, processed>>

-----------------------------------------------------------------------------
(* Specification.                                                          *)

StartUp ==
  \/ Boot
  \/ \E m \in QueueInstance : OnModuleInit(m)
  \/ \E q \in Queue : CreateQueue(q) \/ SetupProcessor(q)
  \/ StartBoss \/ BossStarted
  \/ SetupEventListeners

Call ==
  \/ \E q \in Queue, j \in JobId :
       AddJob(q, j) \/ RemoveJob(q, j) \/ CancelJob(q, j) \/ ResumeJob(q, j)
  \/ \E q \in Queue : Purge(q) \/ ScheduleJob(q) \/ Unschedule(q)
  \/ \E q \in Queue, e \in Event : SubscribeTo(q, e) \/ UnsubscribeFrom(q, e)
  \/ \E e \in Event : Publish(e)

Work ==
  \/ \E q \in Queue, j \in JobId : Cron(q, j)
  \/ \E w \in Worker, j \in JobId : Fetch(w, j)
  \/ \E w \in Worker : Process(w) \/ Settle(w)
  \/ \E j \in JobId : Expire(j)

ShutDown ==
  \/ \E w \in Worker : TimeUp(w)
  \/ Disconnect
  \/ \E m \in QueueInstance : OnModuleDestroy(m)

Next == StartUp \/ Call \/ Work \/ Close \/ ShutDown \/ Crash

Spec == Init /\ [][Next]_vars

\* The process is started again and its start-up goes on; a handler settles, or
\* its job expires; a shutdown goes on, as stop has a time limit; and a job is not passed over for ever, because pg-boss
\* fetches the oldest first.
Fairness ==
  /\ WF_vars(StartUp)
  /\ \A w \in Worker : WF_vars(Process(w) \/ Settle(w))
  /\ \A j \in JobId : SF_vars(\E w \in Worker : Fetch(w, j))
  /\ \A j \in JobId : WF_vars(Expire(j))
  /\ WF_vars(ShutDown)

FairSpec == Spec /\ Fairness

-----------------------------------------------------------------------------
(* Properties.                                                             *)

\* Every registered queue exists before the first caller can use it, although
\* createQueues runs before pgBoss.start: the calls the first instance makes in
\* vain are made again by a later one, and there are at least two.
QueuesExist == Serving => queue = Queue

\* An 'error' of pg-boss ends the process in one window only: from the first
\* instance's call of start until that instance adds its listener.
ErrorsAreHeard ==
  opened /\ ~heard =>
    /\ phase = "booting" /\ initialised = {}
    /\ starting.at \in {"start", "setupProcessors"}

\* A job is completed only when its process() has returned: the handler mapped
\* to the queue awaits it, whichever of the doubled workers took the job, and
\* however often the job expired, was cancelled or was resumed.
CompletedWasProcessed ==
  \A j \in JobId : job[j] # Null /\ job[j].state = "completed" => j \in processed

\* A job is at work and has no worker only because a process died: not when it
\* expires at a slow worker and a doubled one takes it, whichever of the two
\* settles first; not when it is cancelled and resumed at work; and not when the
\* application is closed, however its hooks and the workers interleave.
OnlyDeathOrphans ==
  [][\A j \in JobId : Orphan(j)' /\ ~Orphan(j) => phase' = "down" /\ stops' # stops]_vars

\* A job for a processor does not wait for ever: whatever dies or is closed
\* while the job waits or is at work, it is in the end completed, failed,
\* cancelled or removed.
JobsAreHandled ==
  \A j \in JobId :
    LET Pending == \E q \in Processor : Is(j, q, {"created", "retry", "active"})
    IN  Pending ~> ~Pending

\* Queue.publish: "Queues that are subscribed to this event will create a job".
\* A queue that has asked not to be any more gets none.
OnlySubscribersGetJobs ==
  [][\A e \in Event : Publish(e) =>
       \A j \in JobId : job[j] = Null /\ job'[j] # Null =>
         <<e, job'[j].queue>> \in wanted]_vars

-----------------------------------------------------------------------------
(* The inductive invariant.                                                *)

\* What start-up has done so far: an instance that has returned from its
\* onModuleInit leaves pg-boss connected and heard, and the one after it finds
\* the connection open, so that none of its calls is in vain.  Only a shutdown
\* disconnects pg-boss again.
BootKnows ==
  /\ phase = "down" => ~opened /\ ~heard /\ initialised = {}
  /\ phase = "up" \/ Serving => initialised = QueueInstance
  /\ starting # Waiting => phase = "booting" /\ starting.module \notin initialised
  /\ initialised # {} => heard /\ (opened \/ phase = "closing")
  /\ phase = "closing" => heard /\ starting = Waiting
  /\ starting.at \in {"start", "setupProcessors"} => opened
  /\ opened => initialised # {} \/ starting.at \in {"start", "setupProcessors"}
  /\ initialised # {} =>
       /\ starting.at = "createQueues" => Queue \ starting.left \subseteq queue
       /\ starting.at \in {"start", "setupProcessors"} => queue = Queue
  /\ \A m, n \in initialised : m # n => queue = Queue

\* A worker is there once its instance has mapped it, and while pg-boss is
\* connected.
WorkersAreMapped ==
  \A w \in Worker : worker[w] # Off =>
    /\ opened
    /\ \/ w[1] \in initialised
       \/ /\ starting.at = "setupProcessors" /\ w[1] = starting.module
          /\ w[2] \notin starting.left

\* What a worker at work holds is a job that exists, and one that has returned
\* has processed it.
WorkersKnow ==
  \A w \in Worker : AtWork(w) =>
    /\ job[worker[w].job] # Null
    /\ worker[w].does = "returned" => worker[w].job \in processed

IInv == TypeOK /\ BootKnows /\ WorkersAreMapped /\ WorkersKnow /\ CompletedWasProcessed
=============================================================================
