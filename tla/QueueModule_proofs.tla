------------------------ MODULE QueueModule_proofs ------------------------
EXTENDS QueueModule, TLAPS

-----------------------------------------------------------------------------
(* Jobs.                                                                   *)

\* What may become of the table of jobs when nothing completes: no job is
\* forgotten, and none is completed that was not.
KeepsJobs ==
  /\ job' \in [JobId -> Job \cup {Null}]
  /\ \A j \in JobId : job[j] # Null =>
       /\ job'[j] # Null
       /\ job'[j].state = "completed" => job[j].state = "completed"
  /\ \A j \in JobId : job[j] = Null /\ job'[j] # Null => job'[j].state = "created"

LEMMA NewJobType ==
  ASSUME NEW q \in Queue
  PROVE  NewJob(q) \in Job /\ NewJob(q).state = "created"
  BY QueueAssumption DEF NewJob, Job, JobState

\* A job that failed, is retried or not, and is active no more.
LEMMA FailedType ==
  ASSUME NEW e \in Job
  PROVE  /\ Failed(e) \in Job
         /\ Failed(e).state \in {"retry", "failed"}
<1>1. e.retries \in 0..RetryLimit /\ RetryLimit \in Nat
  BY QueueAssumption DEF Job
<1>2. CASE e.retries < RetryLimit
  <2>1. e.retries + 1 \in 0..RetryLimit
    BY <1>1, <1>2
  <2>2. Failed(e) = [e EXCEPT !.state = "retry", !.retries = e.retries + 1]
    BY <1>2 DEF Failed
  <2> QED
    BY <2>1, <2>2 DEF Job, JobState
<1>3. CASE ~(e.retries < RetryLimit)
  <2>1. Failed(e) = [e EXCEPT !.state = "failed"]
    BY <1>3 DEF Failed
  <2> QED
    BY <2>1 DEF Job, JobState
<1> QED
  BY <1>2, <1>3

LEMMA AddKeepsJobs ==
  ASSUME TypeOK, NEW q \in Queue, NEW j \in JobId, job[j] = Null,
         job' = [job EXCEPT ![j] = NewJob(q)]
  PROVE  KeepsJobs
<1> DEFINE new == NewJob(q)
<1>1. new \in Job /\ new.state = "created"
  BY NewJobType
<1>2. job' = [job EXCEPT ![j] = new]
  OBVIOUS
<1> HIDE DEF new
<1> QED
  BY <1>1, <1>2 DEF KeepsJobs, TypeOK

LEMMA SetKeepsJobs ==
  ASSUME TypeOK, NEW j \in JobId, job[j] # Null,
         NEW state \in JobState \ {"completed"}, Set(j, state)
  PROVE  KeepsJobs
<1> DEFINE e == [job[j] EXCEPT !.state = state]
<1>1. e \in Job /\ e.state = state /\ e # Null
  BY QueueAssumption DEF TypeOK, Job
<1>2. job' = [job EXCEPT ![j] = e]
  BY DEF Set
<1> HIDE DEF e
<1> QED
  BY <1>1, <1>2, QueueAssumption DEF KeepsJobs, TypeOK

LEMMA PurgeKeepsJobs ==
  ASSUME TypeOK, NEW q \in Queue, Purge(q)
  PROVE  KeepsJobs
<1> DEFINE gone(j) == [job[j] EXCEPT !.state = "removed"]
<1>1. \A j \in JobId : job[j] # Null =>
        gone(j) \in Job /\ gone(j) # Null /\ gone(j).state = "removed"
  BY QueueAssumption DEF TypeOK, Job, JobState
<1>2. \A j \in JobId : \/ job'[j] = job[j]
                       \/ job[j] # Null /\ job'[j] = gone(j)
  BY DEF Purge, Is
<1>3. job' = [j \in JobId |-> job'[j]]
  BY DEF Purge
<1> HIDE DEF gone
<1> QED
  BY <1>1, <1>2, <1>3, QueueAssumption DEF KeepsJobs, TypeOK

LEMMA PublishKeepsJobs ==
  ASSUME TypeOK, NEW e \in Event, Publish(e)
  PROVE  KeepsJobs
<1>1. PICK fresh \in SUBSET {j \in JobId : job[j] = Null} :
        \E for \in Bijection(fresh, Subscribers(e)) :
          job' = [j \in JobId |-> IF j \in fresh THEN NewJob(for[j]) ELSE job[j]]
  BY DEF Publish
<1>2. PICK for \in Bijection(fresh, Subscribers(e)) :
        job' = [j \in JobId |-> IF j \in fresh THEN NewJob(for[j]) ELSE job[j]]
  BY <1>1
<1>3. \A j \in fresh : for[j] \in Queue
  BY <1>2 DEF Bijection, Injection, Surjection, Subscribers, TypeOK
<1>4. \A j \in fresh : NewJob(for[j]) \in Job /\ NewJob(for[j]).state = "created"
  BY <1>3, NewJobType
<1> DEFINE new(j) == NewJob(for[j])
<1>5. \A j \in fresh : job[j] = Null /\ job'[j] = new(j)
  BY <1>2
<1>6. \A j \in JobId \ fresh : job'[j] = job[j]
  BY <1>2
<1>7. job' = [j \in JobId |-> job'[j]]
  BY <1>2
<1>8. \A j \in fresh : new(j) \in Job /\ new(j).state = "created"
  BY <1>4
<1> HIDE DEF new
<1> QED
  BY <1>5, <1>6, <1>7, <1>8, QueueAssumption DEF KeepsJobs, TypeOK

LEMMA FailKeepsJobs ==
  ASSUME TypeOK, NEW S \in SUBSET JobId, \A j \in S : job[j] # Null,
         job' = [j \in JobId |-> IF j \in S THEN Failed(job[j]) ELSE job[j]]
  PROVE  /\ KeepsJobs
         /\ \A j \in S : job'[j].state \in {"retry", "failed"}
<1>1. \A j \in S : /\ Failed(job[j]) \in Job
                   /\ Failed(job[j]).state \in {"retry", "failed"}
  BY FailedType DEF TypeOK
<1> DEFINE f(j) == Failed(job[j])
<1>2. \A j \in S : f(j) \in Job /\ f(j).state \in {"retry", "failed"} /\ job'[j] = f(j)
  BY <1>1
<1>3. \A j \in JobId \ S : job'[j] = job[j]
  OBVIOUS
<1>4. job' = [j \in JobId |-> job'[j]]
  OBVIOUS
<1> HIDE DEF f
<1> QED
  BY <1>2, <1>3, <1>4, QueueAssumption DEF KeepsJobs, TypeOK

\* Every step that changes jobs but completes none keeps what is known of the
\* workers and of completed jobs, if the workers stay as they are.
LEMMA HeldInType ==
  ASSUME TypeOK, NEW w \in Worker, AtWork(w)
  PROVE  /\ worker[w].job \in JobId
         /\ worker[w] = [does |-> worker[w].does, job |-> worker[w].job]
         /\ worker[w] # Off /\ worker[w] # Free
  BY DEF TypeOK, WorkerState, AtWork, Off, Free

LEMMA KeptJobs ==
  ASSUME IInv, KeepsJobs, UNCHANGED <<worker, processed>>
  PROVE  WorkersKnow' /\ CompletedWasProcessed'
<1>1. \A w \in Worker : AtWork(w) => worker[w].job \in JobId
  BY HeldInType DEF IInv
<1>2. WorkersKnow'
  BY <1>1 DEF IInv, WorkersKnow, KeepsJobs, AtWork
<1>3. CompletedWasProcessed'
  BY DEF IInv, CompletedWasProcessed, KeepsJobs
<1> QED
  BY <1>2, <1>3

-----------------------------------------------------------------------------
(* Start-up.                                                               *)

\* What start-up looks at and changes, the workers it maps aside
booted == <<queue, phase, opened, heard, initialised, starting>>

LEMMA BootFrame ==
  ASSUME BootKnows, UNCHANGED booted
  PROVE  BootKnows'
  BY DEF booted, BootKnows, Serving

\* Steps of workers that are there bring no other there.
LEMMA MappedFrame ==
  ASSUME WorkersAreMapped, UNCHANGED <<opened, initialised, starting>>,
         \A w \in Worker : worker[w] # Off \/ worker'[w] = worker[w]
  PROVE  WorkersAreMapped'
  BY DEF WorkersAreMapped

\* The onModuleInit at work, in each of its two loops
LEMMA StartingShape ==
  ASSUME TypeOK
  PROVE  /\ starting.at \in {"waiting", "createQueues", "start", "setupProcessors"}
         /\ starting.at = "start" => starting.module \in QueueInstance
         /\ starting.at = "waiting" <=> starting = Waiting
         /\ starting.at = "createQueues" =>
              /\ starting.module \in QueueInstance /\ starting.left \in SUBSET Queue
              /\ \A S \in SUBSET Queue :
                   [starting EXCEPT !.left = S]
                     = [at |-> "createQueues", module |-> starting.module, left |-> S]
         /\ starting.at = "setupProcessors" =>
              /\ starting.module \in QueueInstance
              /\ starting.left \in SUBSET Processor
              /\ \A S \in SUBSET Processor :
                   [starting EXCEPT !.left = S]
                     = [at |-> "setupProcessors", module |-> starting.module,
                        left |-> S]
  BY DEF TypeOK, Starting, Waiting

LEMMA BootStep ==
  ASSUME IInv, Boot
  PROVE  IInv'
<1>1. TypeOK'
  BY DEF Boot, IInv, TypeOK, Phase, tables
<1>2. starting = Waiting /\ starting' = Waiting
  BY DEF Boot, IInv, BootKnows
<1>3. BootKnows'
  BY <1>2 DEF Boot, IInv, BootKnows, Serving, Waiting
<1>4. KeepsJobs
  BY DEF Boot, KeepsJobs, IInv, TypeOK, tables
<1>5. WorkersAreMapped'
  BY MappedFrame DEF Boot, IInv
<1> QED
  BY <1>1, <1>3, <1>4, <1>5, KeptJobs DEF Boot, IInv

LEMMA OnModuleInitStep ==
  ASSUME IInv, NEW m \in QueueInstance, OnModuleInit(m)
  PROVE  IInv'
<1>1. starting' = [at |-> "createQueues", module |-> m, left |-> Queue]
  BY DEF OnModuleInit
<1>2. starting' \in Starting /\ starting' # Waiting
  BY <1>1 DEF Starting, Waiting
<1>3. TypeOK'
  BY <1>2 DEF OnModuleInit, IInv, TypeOK, tables
<1>4. opened => initialised # {}
  BY DEF OnModuleInit, IInv, BootKnows, Waiting
<1>5. BootKnows'
  BY <1>1, <1>4 DEF OnModuleInit, IInv, BootKnows, Serving, tables
<1>6. KeepsJobs
  BY DEF OnModuleInit, KeepsJobs, IInv, TypeOK, tables
<1>7. WorkersAreMapped'
  <2>1. starting.at = "waiting"
    BY DEF OnModuleInit, Waiting
  <2> QED
    BY <2>1 DEF OnModuleInit, IInv, WorkersAreMapped
<1> QED
  BY <1>3, <1>5, <1>6, <1>7, KeptJobs DEF OnModuleInit, IInv

LEMMA CreateQueueStep ==
  ASSUME IInv, NEW q \in Queue, CreateQueue(q)
  PROVE  IInv'
<1> DEFINE next == [at |-> "createQueues", module |-> starting.module,
                    left |-> starting.left \ {q}]
<1>1. /\ starting' = next /\ starting.module \in QueueInstance
      /\ starting.left \in SUBSET Queue
  BY StartingShape DEF CreateQueue, IInv
<1>2. next \in Starting
  BY <1>1 DEF Starting
<1>3. queue \subseteq queue' /\ queue' \subseteq Queue /\ (opened => q \in queue')
  BY DEF CreateQueue, IInv, TypeOK
<1>4. TypeOK'
  BY <1>1, <1>2, <1>3 DEF CreateQueue, IInv, TypeOK
<1>5. /\ starting # Waiting /\ starting'.at = "createQueues"
      /\ starting'.module = starting.module /\ starting'.left = starting.left \ {q}
  BY <1>1 DEF CreateQueue, Waiting
<1>6. BootKnows'
  BY <1>3, <1>5 DEF CreateQueue, IInv, BootKnows, Serving, TypeOK
<1>7. KeepsJobs
  BY DEF CreateQueue, KeepsJobs, IInv, TypeOK
<1>8. WorkersAreMapped'
  BY DEF CreateQueue, IInv, WorkersAreMapped
<1> QED
  BY <1>4, <1>6, <1>7, <1>8, KeptJobs DEF CreateQueue, IInv

LEMMA StartBossStep ==
  ASSUME IInv, StartBoss
  PROVE  IInv'
<1>1. starting.module \in QueueInstance /\ starting # Waiting
  BY StartingShape DEF StartBoss, IInv, Waiting
<1>2. starting' = [at |-> "start", module |-> starting.module]
  BY DEF StartBoss
<1>3. starting' \in Starting
  BY <1>1, <1>2 DEF Starting
<1>4. TypeOK'
  BY <1>3 DEF StartBoss, IInv, TypeOK, tables
<1>5. starting'.at = "start" /\ starting'.module = starting.module
  BY <1>2
<1>6. BootKnows'
  BY <1>1, <1>5 DEF StartBoss, IInv, BootKnows, Serving, TypeOK, tables
<1>7. KeepsJobs
  BY DEF StartBoss, KeepsJobs, IInv, TypeOK, tables
<1>8. WorkersAreMapped'
  BY DEF StartBoss, IInv, WorkersAreMapped
<1> QED
  BY <1>4, <1>6, <1>7, <1>8, KeptJobs DEF StartBoss, IInv

LEMMA BossStartedStep ==
  ASSUME IInv, BossStarted
  PROVE  IInv'
<1>1. starting.module \in QueueInstance /\ starting # Waiting
  BY StartingShape DEF BossStarted, IInv, Waiting
<1>2. starting' = [at |-> "setupProcessors", module |-> starting.module,
                   left |-> Processor]
  BY DEF BossStarted
<1>3. starting' \in Starting
  BY <1>1, <1>2 DEF Starting
<1>4. TypeOK'
  BY <1>3 DEF BossStarted, IInv, TypeOK, tables
<1>5. starting'.at = "setupProcessors" /\ starting'.module = starting.module
  BY <1>2
<1>6. BootKnows'
  BY <1>1, <1>5 DEF BossStarted, IInv, BootKnows, Serving, TypeOK, tables
<1>7. KeepsJobs
  BY DEF BossStarted, KeepsJobs, IInv, TypeOK, tables
<1>8. WorkersAreMapped'
  BY DEF BossStarted, IInv, WorkersAreMapped
<1> QED
  BY <1>4, <1>6, <1>7, <1>8, KeptJobs DEF BossStarted, IInv

LEMMA SetupProcessorStep ==
  ASSUME IInv, NEW q \in Queue, SetupProcessor(q)
  PROVE  IInv'
<1> DEFINE next == [at |-> "setupProcessors", module |-> starting.module,
                    left |-> starting.left \ {q}]
<1>1. /\ starting' = next /\ starting.module \in QueueInstance
      /\ starting.left \in SUBSET Processor /\ starting # Waiting
  BY StartingShape DEF SetupProcessor, IInv, Waiting
<1>2. next \in Starting /\ Free \in WorkerState
  BY <1>1 DEF Starting, Free, WorkerState
<1>3. <<starting.module, q>> \in Worker
  BY <1>1 DEF SetupProcessor, Worker
<1>4. /\ worker' \in [Worker -> WorkerState]
      /\ \A w \in Worker : worker'[w] = worker[w] \/ worker'[w] = Free
  BY <1>2, <1>3 DEF SetupProcessor, IInv, TypeOK
<1>5. TypeOK'
  BY <1>1, <1>2, <1>4 DEF SetupProcessor, IInv, TypeOK, tables
<1>6. starting'.at = starting.at /\ starting'.module = starting.module
  BY <1>1 DEF SetupProcessor
<1>7. BootKnows'
  BY <1>1, <1>6 DEF SetupProcessor, IInv, BootKnows, Serving, tables
<1>8. WorkersKnow' /\ CompletedWasProcessed'
  BY <1>4 DEF SetupProcessor, IInv, WorkersKnow, CompletedWasProcessed, AtWork, Free,
              tables
<1>9. WorkersAreMapped'
  <2> SUFFICES ASSUME NEW w \in Worker, worker'[w] # Off
               PROVE  /\ opened'
                      /\ \/ w[1] \in initialised'
                         \/ /\ starting'.at = "setupProcessors"
                            /\ w[1] = starting'.module /\ w[2] \notin starting'.left
    BY DEF WorkersAreMapped
  <2>1. opened' /\ starting'.left = starting.left \ {q}
    BY <1>1 DEF SetupProcessor, IInv, BootKnows
  <2>2. CASE w = <<starting.module, q>>
    BY <1>6, <2>1, <2>2 DEF SetupProcessor
  <2>3. CASE w # <<starting.module, q>>
    <3>1. worker'[w] = worker[w]
      BY <2>3, <1>3 DEF SetupProcessor, IInv, TypeOK
    <3> QED
      BY <1>6, <2>1, <3>1 DEF SetupProcessor, IInv, WorkersAreMapped
  <2> QED
    BY <2>2, <2>3
<1> QED
  BY <1>5, <1>7, <1>8, <1>9 DEF IInv

\* onModuleInit returns.  It is here that a second instance, whose calls all found
\* the connection open, has made sure of every queue.
LEMMA SetupEventListenersStep ==
  ASSUME IInv, SetupEventListeners
  PROVE  IInv'
<1> DEFINE m == starting.module
<1>1. m \in QueueInstance /\ m \notin initialised /\ starting # Waiting
  BY StartingShape DEF SetupEventListeners, IInv, BootKnows, Waiting
<1>2. /\ initialised' = initialised \cup {m} /\ heard' = TRUE /\ opened' = opened
      /\ starting' = Waiting /\ queue' = queue /\ opened /\ phase = "booting"
  BY <1>1 DEF SetupEventListeners, IInv, BootKnows, tables
<1>3. phase' = IF initialised' = QueueInstance THEN "up" ELSE "booting"
  BY <1>2 DEF SetupEventListeners
<1>4. TypeOK'
  <2>1. starting' \in Starting /\ phase' \in Phase
    BY <1>2, <1>3 DEF Starting, Waiting, Phase
  <2> QED
    BY <1>1, <1>2, <2>1 DEF SetupEventListeners, IInv, TypeOK, tables
<1>5. initialised # {} => queue = Queue
  BY DEF SetupEventListeners, IInv, BootKnows
<1>6. \A k, n \in initialised' : k # n => queue' = Queue
  BY <1>2, <1>5
<1>7. starting'.at = "waiting"
  BY <1>2 DEF Waiting
<1>8. BootKnows'
  BY <1>2, <1>3, <1>6, <1>7 DEF BootKnows, Serving
<1>9. KeepsJobs
  BY DEF SetupEventListeners, KeepsJobs, IInv, TypeOK, tables
<1>10. WorkersAreMapped'
  BY <1>2 DEF SetupEventListeners, IInv, WorkersAreMapped
<1> QED
  BY <1>4, <1>8, <1>9, <1>10, KeptJobs DEF SetupEventListeners, IInv

-----------------------------------------------------------------------------
(* Callers, workers, and the end of the process.                           *)

\* A step that changes jobs and completes none
LEMMA JobStep ==
  ASSUME IInv, KeepsJobs,
         UNCHANGED <<queue, subscription, schedule, process, wanted, processed, stops>>
  PROVE  IInv'
<1>1. TypeOK'
  BY DEF IInv, TypeOK, KeepsJobs, process
<1>2. BootKnows'
  BY BootFrame DEF IInv, booted, process
<1>3. WorkersKnow' /\ CompletedWasProcessed'
  BY KeptJobs DEF process
<1>4. WorkersAreMapped'
  BY MappedFrame DEF IInv, process
<1> QED
  BY <1>1, <1>2, <1>3, <1>4 DEF IInv

LEMMA CallStep ==
  ASSUME IInv, Call
  PROVE  IInv'
<1>0. TypeOK
  BY DEF IInv
<1>1. ASSUME NEW q \in Queue, NEW j \in JobId, AddJob(q, j)
      PROVE  IInv'
  BY <1>0, <1>1, AddKeepsJobs, JobStep DEF AddJob
<1>2. ASSUME NEW q \in Queue, NEW j \in JobId,
             RemoveJob(q, j) \/ CancelJob(q, j) \/ ResumeJob(q, j)
      PROVE  IInv'
  <2>1. /\ job[j] # Null
        /\ Set(j, "removed") \/ Set(j, "cancelled") \/ Set(j, "created")
        /\ UNCHANGED <<queue, subscription, schedule, process, wanted, processed, stops>>
    BY <1>2 DEF RemoveJob, CancelJob, ResumeJob, Is
  <2>2. {"removed", "cancelled", "created"} \subseteq JobState \ {"completed"}
    BY DEF JobState
  <2>3. KeepsJobs
    BY <1>0, <2>1, <2>2, SetKeepsJobs
  <2> QED
    BY <2>1, <2>3, JobStep
<1>3. ASSUME NEW q \in Queue, Purge(q)
      PROVE  IInv'
  BY <1>0, <1>3, PurgeKeepsJobs, JobStep DEF Purge
<1>4. ASSUME NEW e \in Event, Publish(e)
      PROVE  IInv'
  BY <1>0, <1>4, PublishKeepsJobs, JobStep DEF Publish
<1>5. ASSUME TypeOK', UNCHANGED <<queue, job, process, processed>>
      PROVE  IInv'
  <2>1. KeepsJobs
    BY <1>0, <1>5 DEF KeepsJobs, TypeOK
  <2>2. BootKnows'
    BY <1>5, BootFrame DEF IInv, booted, process
  <2>3. WorkersKnow' /\ CompletedWasProcessed'
    BY <1>5, <2>1, KeptJobs DEF process
  <2>4. WorkersAreMapped'
    BY <1>5, MappedFrame DEF IInv, process
  <2> QED
    BY <1>5, <2>2, <2>3, <2>4 DEF IInv
<1>6. ASSUME NEW q \in Queue, ScheduleJob(q) \/ Unschedule(q)
      PROVE  IInv'
  <2>1. TypeOK' /\ UNCHANGED <<queue, job, process, processed>>
    BY <1>0, <1>6 DEF ScheduleJob, Unschedule, TypeOK, process
  <2> QED
    BY <2>1, <1>5
<1>7. ASSUME NEW q \in Queue, NEW e \in Event,
             SubscribeTo(q, e) \/ UnsubscribeFrom(q, e)
      PROVE  IInv'
  <2>1. TypeOK' /\ UNCHANGED <<queue, job, process, processed>>
    BY <1>0, <1>7 DEF SubscribeTo, UnsubscribeFrom, TypeOK, process
  <2> QED
    BY <2>1, <1>5
<1> QED
  BY <1>1, <1>2, <1>3, <1>4, <1>6, <1>7 DEF Call

LEMMA FetchStep ==
  ASSUME IInv, NEW w \in Worker, NEW j \in JobId, Fetch(w, j)
  PROVE  IInv'
<1> DEFINE taken == [does |-> "fetched", job |-> j]
<1>1. KeepsJobs /\ job[j] # Null /\ job'[j] # Null
  <2>1. job[j] # Null /\ Set(j, "active") /\ "active" \in JobState \ {"completed"}
    BY DEF Fetch, Is, JobState
  <2>2. KeepsJobs
    BY <2>1, SetKeepsJobs DEF IInv
  <2> QED
    BY <2>1, <2>2 DEF KeepsJobs
<1>2. taken \in WorkerState /\ taken.does = "fetched" /\ taken.job = j
  BY DEF WorkerState
<1>3. worker' = [worker EXCEPT ![w] = taken]
  BY DEF Fetch
<1> HIDE DEF taken
<1>4. TypeOK'
  BY <1>1, <1>2, <1>3 DEF Fetch, IInv, TypeOK, KeepsJobs
<1>5. BootKnows'
  BY BootFrame DEF Fetch, IInv, booted
<1>6. WorkersKnow'
  <2>1. \A v \in Worker : AtWork(v) => worker[v].job \in JobId
    BY HeldInType DEF IInv
  <2>2. worker'[w] = taken /\ \A v \in Worker : v # w => worker'[v] = worker[v]
    BY <1>3 DEF IInv, TypeOK
  <2> QED
    BY <1>1, <1>2, <2>1, <2>2 DEF Fetch, IInv, WorkersKnow, KeepsJobs, AtWork
<1>7. CompletedWasProcessed'
  BY <1>1 DEF Fetch, IInv, CompletedWasProcessed, KeepsJobs
<1>8. WorkersAreMapped'
  <2>1. worker[w] # Off
    BY DEF Fetch, Free, Off
  <2> QED
    BY <1>3, <2>1, MappedFrame DEF Fetch, IInv, TypeOK
<1> QED
  BY <1>4, <1>5, <1>6, <1>7, <1>8 DEF IInv

LEMMA ProcessStep ==
  ASSUME IInv, NEW w \in Worker, Process(w)
  PROVE  IInv'
<1> DEFINE j == worker[w].job
<1>1. worker[w] = [does |-> "fetched", job |-> j] /\ j \in JobId
  BY DEF Process, IInv, TypeOK, WorkerState
<1>2. PICK s \in {"returned", "threw"} :
        /\ worker' = [worker EXCEPT ![w].does = s]
        /\ processed' \in SUBSET JobId /\ processed \subseteq processed'
        /\ s = "returned" => j \in processed'
  BY <1>1 DEF Process, IInv, TypeOK
<1>3. /\ worker'[w] = [does |-> s, job |-> j]
      /\ \A v \in Worker : v # w => worker'[v] = worker[v]
      /\ worker' \in [Worker -> WorkerState]
  <2> DEFINE settled == [does |-> s, job |-> j]
  <2>1. settled \in WorkerState
    BY <1>1 DEF WorkerState
  <2>2. worker' = [worker EXCEPT ![w] = settled]
    <3>1. [worker[w] EXCEPT !.does = s] = settled
      BY <1>1
    <3> QED
      BY <1>2, <3>1
  <2> HIDE DEF settled
  <2>3. /\ worker'[w] = settled
        /\ \A v \in Worker : v # w => worker'[v] = worker[v]
        /\ worker' \in [Worker -> WorkerState]
    BY <2>1, <2>2 DEF IInv, TypeOK
  <2> QED
    BY <2>3 DEF settled
<1>4. TypeOK'
  BY <1>2, <1>3 DEF Process, IInv, TypeOK, tables
<1>5. BootKnows'
  BY BootFrame DEF Process, IInv, booted, tables
<1>6. job' = job
  BY DEF Process, tables
<1>7. WorkersKnow'
  BY <1>1, <1>2, <1>3, <1>6 DEF IInv, WorkersKnow, AtWork
<1>8. CompletedWasProcessed'
  BY <1>2, <1>6 DEF IInv, CompletedWasProcessed
<1>9. WorkersAreMapped'
  <2>1. worker[w] # Off
    BY <1>1 DEF Off
  <2> QED
    BY <1>3, <2>1, MappedFrame DEF Process, IInv
<1> QED
  BY <1>4, <1>5, <1>7, <1>8, <1>9 DEF IInv

\* The only step that completes a job
LEMMA SettleStep ==
  ASSUME IInv, NEW w \in Worker, Settle(w)
  PROVE  /\ IInv'
         /\ worker[w].job \in JobId
         /\ job'[worker[w].job].state # "active"
         /\ \A k \in JobId : k # worker[w].job => job'[k] = job[k]
<1> DEFINE j == worker[w].job
           e == IF job[j].state # "active" THEN job[j]
                ELSE IF worker[w].does = "threw" THEN Failed(job[j])
                ELSE [job[j] EXCEPT !.state = "completed"]
<1>1. j \in JobId /\ worker[w].does \in {"returned", "threw"}
  BY DEF Settle, IInv, TypeOK, WorkerState
<1>2. /\ job[j] \in Job /\ job[j] # Null
      /\ worker[w].does = "returned" => j \in processed
  BY <1>1 DEF Settle, IInv, WorkersKnow, TypeOK, AtWork
<1>3. /\ e \in Job /\ e # Null
      /\ e.state = "completed" => j \in processed
      /\ e.state # "active"
  <2>1. CASE job[j].state # "active"
    BY <1>1, <1>2, <2>1, QueueAssumption DEF IInv, CompletedWasProcessed
  <2>2. CASE job[j].state = "active" /\ worker[w].does = "threw"
    BY <1>2, <2>2, FailedType, QueueAssumption
  <2>3. CASE job[j].state = "active" /\ worker[w].does = "returned"
    BY <1>2, <2>3, QueueAssumption DEF Job, JobState
  <2> QED
    BY <1>1, <2>1, <2>2, <2>3
<1>4. job' = [job EXCEPT ![j] = e] /\ worker' = [worker EXCEPT ![w] = Free]
  BY DEF Settle
<1> HIDE DEF e, j
<1>5. /\ job' \in [JobId -> Job \cup {Null}]
      /\ job'[j] = e /\ \A k \in JobId : k # j => job'[k] = job[k]
      /\ worker' \in [Worker -> WorkerState] /\ worker'[w] = Free
      /\ \A v \in Worker : v # w => worker'[v] = worker[v]
  BY <1>1, <1>3, <1>4 DEF IInv, TypeOK, Free, WorkerState
<1>6. TypeOK'
  BY <1>5 DEF Settle, IInv, TypeOK
<1>7. BootKnows'
  BY BootFrame DEF Settle, IInv, booted
<1>8. WorkersKnow'
  <2>1. \A v \in Worker : AtWork(v) => worker[v].job \in JobId
    BY HeldInType DEF IInv
  <2> QED
    BY <1>3, <1>5, <2>1 DEF Settle, IInv, WorkersKnow, AtWork, Free
<1>9. CompletedWasProcessed'
  BY <1>3, <1>5 DEF Settle, IInv, CompletedWasProcessed
<1>10. WorkersAreMapped'
  <2>1. worker[w] # Off
    BY <1>1 DEF Off
  <2> QED
    BY <1>5, <2>1, MappedFrame DEF Settle, IInv
<1> QED
  BY <1>1, <1>3, <1>5, <1>6, <1>7, <1>8, <1>9, <1>10 DEF IInv, j

LEMMA WorkStep ==
  ASSUME IInv, Work
  PROVE  IInv'
<1>0. TypeOK
  BY DEF IInv
<1>1. ASSUME NEW q \in Queue, NEW j \in JobId, Cron(q, j)
      PROVE  IInv'
  BY <1>0, <1>1, AddKeepsJobs, JobStep DEF Cron
<1>2. ASSUME NEW j \in JobId, Expire(j)
      PROVE  IInv'
  <2> DEFINE S == {j}
  <2>1. /\ S \in SUBSET JobId /\ \A k \in S : job[k] # Null
        /\ job' = [k \in JobId |-> IF k \in S THEN Failed(job[k]) ELSE job[k]]
    BY <1>0, <1>2 DEF Expire, TypeOK
  <2> HIDE DEF S
  <2>2. KeepsJobs
    BY <1>0, <2>1, FailKeepsJobs
  <2> QED
    BY <1>2, <2>2, JobStep DEF Expire
<1> QED
  BY <1>1, <1>2, FetchStep, ProcessStep, SettleStep DEF Work

\* However the process ends, it leaves nothing of start-up behind, and no job
\* completed that was not.
LEMMA ExitStep ==
  ASSUME IInv, Exit, KeepsJobs, stops' \in 0..MaxStops,
         UNCHANGED <<queue, subscription, schedule, wanted, processed>>
  PROVE  IInv'
<1>1. \A w \in Worker : worker'[w] = Off
  BY DEF Exit
<1>2. TypeOK'
  <2>1. Waiting \in Starting /\ Off \in WorkerState
    BY DEF Starting, Waiting, Off, WorkerState
  <2> QED
    BY <2>1 DEF Exit, IInv, TypeOK, KeepsJobs, Phase
<1>3. BootKnows'
  BY DEF Exit, BootKnows, Serving, Waiting
<1>4. WorkersKnow' /\ WorkersAreMapped'
  BY <1>1 DEF WorkersKnow, WorkersAreMapped, AtWork, Off
<1>5. CompletedWasProcessed'
  BY DEF IInv, CompletedWasProcessed, KeepsJobs
<1> QED
  BY <1>2, <1>3, <1>4, <1>5 DEF IInv

\* A job that stop gives up has failed, or waits to be retried.
LEMMA TimeUpStep ==
  ASSUME IInv, NEW w \in Worker, TimeUp(w)
  PROVE  /\ IInv' /\ KeepsJobs
         /\ worker[w].job \in JobId
         /\ job'[worker[w].job].state # "active"
         /\ \A k \in JobId : k # worker[w].job => job'[k] = job[k]
<1> DEFINE j == worker[w].job
           S == {k \in JobId : k = j /\ job[k].state = "active"}
<1>1. j \in JobId /\ worker[w] # Off /\ job[j] # Null
  BY HeldInType DEF TimeUp, IInv, WorkersKnow
<1>2. job' = [k \in JobId |-> IF k \in S THEN Failed(job[k]) ELSE job[k]]
  BY <1>1 DEF TimeUp, IInv, TypeOK
<1>3. KeepsJobs /\ \A k \in S : job'[k].state \in {"retry", "failed"}
  BY <1>1, <1>2, FailKeepsJobs DEF IInv
<1>4. worker' = [worker EXCEPT ![w] = Off] /\ Off \in WorkerState
  BY DEF TimeUp, Off, WorkerState
<1>5. TypeOK'
  BY <1>3, <1>4 DEF TimeUp, IInv, TypeOK, KeepsJobs
<1>6. BootKnows'
  BY BootFrame DEF TimeUp, IInv, booted
<1>7. WorkersAreMapped'
  BY <1>1, <1>4, MappedFrame DEF TimeUp, IInv, TypeOK
<1>8. WorkersKnow'
  <2>1. \A v \in Worker : AtWork(v)' => AtWork(v) /\ worker'[v] = worker[v]
    BY <1>4 DEF IInv, TypeOK, AtWork, Off
  <2>2. \A v \in Worker : AtWork(v) => worker[v].job \in JobId
    BY HeldInType DEF IInv
  <2> QED
    BY <1>3, <2>1, <2>2 DEF TimeUp, IInv, WorkersKnow, KeepsJobs
<1>9. CompletedWasProcessed'
  BY <1>3 DEF TimeUp, IInv, CompletedWasProcessed, KeepsJobs
<1>10. job'[j].state # "active" /\ \A k \in JobId : k # j => job'[k] = job[k]
  BY <1>1, <1>2, <1>3
<1> QED
  BY <1>1, <1>3, <1>5, <1>6, <1>7, <1>8, <1>9, <1>10 DEF IInv

LEMMA DisconnectStep ==
  ASSUME IInv, Disconnect
  PROVE  IInv'
<1>1. /\ \A w \in Worker : worker'[w] = Off
      /\ worker' \in [Worker -> WorkerState]
  BY DEF Disconnect, Off, WorkerState
<1>2. TypeOK'
  BY <1>1 DEF Disconnect, IInv, TypeOK, tables
<1>3. starting.at = "waiting"
  BY DEF Disconnect, IInv, BootKnows, Waiting
<1>4. BootKnows'
  BY <1>3 DEF Disconnect, IInv, BootKnows, Serving, tables
<1>5. WorkersAreMapped' /\ WorkersKnow'
  BY <1>1 DEF WorkersAreMapped, WorkersKnow, AtWork, Off
<1>6. CompletedWasProcessed'
  BY DEF Disconnect, IInv, CompletedWasProcessed, tables
<1> QED
  BY <1>2, <1>4, <1>5, <1>6 DEF IInv

\* When a hook is done pg-boss has no worker left.
LEMMA DestroyStep ==
  ASSUME IInv, NEW m \in QueueInstance, OnModuleDestroy(m)
  PROVE  /\ IInv' /\ job' = job
         /\ \A w \in Worker : worker[w] = Off
<1>1. \A w \in Worker : worker[w] = Off
  BY DEF OnModuleDestroy, IInv, WorkersAreMapped
<1>2. KeepsJobs
  BY DEF OnModuleDestroy, KeepsJobs, IInv, TypeOK, tables
<1>3. CASE initialised = {m}
  <2>1. stops' \in 0..MaxStops
    BY DEF OnModuleDestroy, IInv, TypeOK
  <2> QED
    BY <1>1, <1>2, <1>3, <2>1, ExitStep DEF OnModuleDestroy, Leave, tables
<1>4. CASE initialised # {m}
  <2>1. /\ initialised' = initialised \ {m} /\ initialised' # {}
        /\ UNCHANGED <<tables, phase, opened, heard, starting, worker, wanted,
                       processed, stops>>
        /\ phase = "closing" /\ ~opened
    BY <1>4 DEF OnModuleDestroy, Leave
  <2>2. TypeOK'
    BY <2>1 DEF IInv, TypeOK, tables
  <2>3. starting.at = "waiting"
    BY <2>1 DEF IInv, BootKnows, Waiting
  <2>4. BootKnows'
    BY <2>1, <2>3 DEF IInv, BootKnows, Serving, tables
  <2>5. WorkersAreMapped'
    BY <1>1, <2>1 DEF WorkersAreMapped
  <2>6. WorkersKnow' /\ CompletedWasProcessed'
    BY <1>2, <2>1, KeptJobs
  <2> QED
    BY <1>1, <2>1, <2>2, <2>4, <2>5, <2>6 DEF IInv, tables
<1> QED
  BY <1>3, <1>4

LEMMA CrashStep ==
  ASSUME IInv, Crash
  PROVE  IInv' /\ phase' = "down" /\ stops' # stops
<1>1. KeepsJobs
  BY DEF Crash, KeepsJobs, IInv, TypeOK, tables
<1>2. stops' \in 0..MaxStops /\ stops' # stops
  BY QueueAssumption DEF Crash, IInv, TypeOK
<1> QED
  BY <1>1, <1>2, ExitStep DEF Crash, Exit, tables

LEMMA CloseStep ==
  ASSUME IInv, Close
  PROVE  IInv'
<1>1. starting' = starting /\ starting = Waiting /\ starting.at = "waiting"
  BY DEF Close, IInv, BootKnows, Waiting
<1>2. TypeOK'
  BY QueueAssumption DEF Close, IInv, TypeOK, Phase, tables
<1>3. BootKnows'
  <2>1. initialised # {} /\ heard /\ opened /\ initialised = QueueInstance
    BY DEF Close, IInv, BootKnows, QueueInstance
  <2> QED
    BY <1>1, <2>1 DEF Close, IInv, BootKnows, Serving, tables
<1>4. KeepsJobs
  BY DEF Close, KeepsJobs, IInv, TypeOK, tables
<1>5. WorkersAreMapped'
  BY MappedFrame DEF Close, IInv
<1> QED
  BY <1>2, <1>3, <1>4, <1>5, KeptJobs DEF Close, IInv

-----------------------------------------------------------------------------
(* The theorems.                                                           *)

LEMMA InvInit == Init => IInv
<1> SUFFICES ASSUME Init PROVE IInv
  OBVIOUS
<1>1. TypeOK
  <2>1. Waiting \in Starting /\ Off \in WorkerState
    BY DEF Starting, Waiting, Off, WorkerState
  <2>2. 0 \in 0..MaxStops
    BY QueueAssumption
  <2>3. /\ job \in [JobId -> Job \cup {Null}]
        /\ worker \in [Worker -> WorkerState]
    BY <2>1 DEF Init
  <2> QED
    BY <2>1, <2>2, <2>3 DEF Init, TypeOK, Phase
<1>2. BootKnows
  BY DEF Init, BootKnows, Serving, Waiting
<1>3. WorkersAreMapped /\ WorkersKnow /\ CompletedWasProcessed
  BY DEF Init, WorkersAreMapped, WorkersKnow, CompletedWasProcessed, AtWork, Off
<1> QED
  BY <1>1, <1>2, <1>3 DEF IInv

LEMMA InvNext == IInv /\ [Next]_vars => IInv'
<1> SUFFICES ASSUME IInv, [Next]_vars PROVE IInv'
  OBVIOUS
<1>1. CASE StartUp
  BY <1>1, BootStep, OnModuleInitStep, CreateQueueStep, StartBossStep,
     BossStartedStep, SetupProcessorStep, SetupEventListenersStep DEF StartUp
<1>2. CASE UNCHANGED vars
  BY <1>2 DEF vars, tables, process, IInv, TypeOK, BootKnows, Serving,
              WorkersAreMapped, WorkersKnow, AtWork, CompletedWasProcessed
<1>3. CASE ShutDown
  BY <1>3, TimeUpStep, DisconnectStep, DestroyStep DEF ShutDown
<1> QED
  BY <1>1, <1>2, <1>3, CallStep, WorkStep, CloseStep, CrashStep DEF Next

\* The inductive invariant holds of every instance of the queue module, whatever
\* queues, processors and jobs there are and however often the process ends.
THEOREM Invariance == Spec => []IInv
  BY InvInit, InvNext, PTL DEF Spec

\* Tables, start-up and workers stay in their types.
THEOREM TypeCorrect == Spec => []TypeOK
<1>1. IInv => TypeOK
  BY DEF IInv
<1> QED
  BY <1>1, Invariance, PTL

\* Every registered queue exists before the first caller can use it: with a queue
\* there are two instances of the module, and the second creates it if the first
\* could not.
THEOREM QueuesAreCreated == Spec => []QueuesExist
<1>1. IInv => QueuesExist
  <2> SUFFICES ASSUME IInv, Serving PROVE queue = Queue
    BY DEF QueuesExist
  <2>1. initialised = {Root} \cup Queue /\ queue \subseteq Queue
    BY DEF IInv, TypeOK, BootKnows, QueueInstance
  <2>2. CASE Queue = {}
    BY <2>1, <2>2
  <2>3. CASE Queue # {}
    <3>1. PICK q \in Queue : TRUE
      BY <2>3
    <3>2. q # Root
      BY QueueAssumption
    <3> QED
      BY <2>1, <3>2 DEF IInv, BootKnows
  <2> QED
    BY <2>2, <2>3
<1> QED
  BY <1>1, Invariance, PTL

\* pg-boss is started without a listener for its errors only while the first
\* instance awaits start and maps its processors.
THEOREM ErrorsAreHeardAlways == Spec => []ErrorsAreHeard
<1>1. IInv => ErrorsAreHeard
  BY DEF IInv, BootKnows, ErrorsAreHeard, Waiting
<1> QED
  BY <1>1, Invariance, PTL

\* A completed job has been processed, whichever workers expiry, cancellation and
\* resumption gave it to.
THEOREM CompletedJobsWereProcessed == Spec => []CompletedWasProcessed
<1>1. IInv => CompletedWasProcessed
  BY DEF IInv
<1> QED
  BY <1>1, Invariance, PTL

\* Calls, expiry and cron make no job active, and leave the workers alone.
LEMMA JobsActivateNone ==
  ASSUME IInv, Call \/ (\E q \in Queue, j \in JobId : Cron(q, j))
                    \/ (\E j \in JobId : Expire(j))
  PROVE  /\ worker' = worker
         /\ \A j \in JobId : job'[j] # Null /\ job'[j].state = "active" =>
              job[j] # Null /\ job[j].state = "active"
<1>0. \A q \in Queue : NewJob(q).state = "created"
  BY DEF NewJob
<1> DEFINE Kept == \A j \in JobId : job'[j] # Null /\ job'[j].state = "active" =>
                     job[j] # Null /\ job[j].state = "active"
<1>1. ASSUME NEW q \in Queue, NEW j \in JobId, AddJob(q, j) \/ Cron(q, j)
      PROVE  worker' = worker /\ Kept
  <2> DEFINE new == NewJob(q)
  <2>1. job' = [job EXCEPT ![j] = new] /\ worker' = worker
    BY <1>1 DEF AddJob, Cron, process
  <2>2. new.state = "created"
    BY <1>0
  <2> HIDE DEF new
  <2> QED
    BY <2>1, <2>2 DEF IInv, TypeOK
<1>2. ASSUME NEW q \in Queue, NEW j \in JobId,
             RemoveJob(q, j) \/ CancelJob(q, j) \/ ResumeJob(q, j)
      PROVE  worker' = worker /\ Kept
  <2>1. PICK state \in {"removed", "cancelled", "created"} :
          job' = [job EXCEPT ![j] = [job[j] EXCEPT !.state = state]]
    BY <1>2 DEF RemoveJob, CancelJob, ResumeJob, Set
  <2>2. job[j] \in Job
    BY <1>2 DEF RemoveJob, CancelJob, ResumeJob, Is, IInv, TypeOK
  <2>3. [job[j] EXCEPT !.state = state].state = state
    BY <2>2 DEF Job
  <2>4. worker' = worker
    BY <1>2 DEF RemoveJob, CancelJob, ResumeJob, process
  <2> QED
    BY <2>1, <2>3, <2>4 DEF IInv, TypeOK
<1>3. ASSUME NEW q \in Queue, Purge(q)
      PROVE  worker' = worker /\ Kept
  <2>1. \A j \in JobId : job[j] # Null => [job[j] EXCEPT !.state = "removed"].state = "removed"
    BY DEF IInv, TypeOK, Job
  <2>2. \A j \in JobId : \/ job'[j] = job[j]
                         \/ job[j] # Null /\ job'[j] = [job[j] EXCEPT !.state = "removed"]
    BY <1>3 DEF Purge, Is
  <2>3. worker' = worker
    BY <1>3 DEF Purge, process
  <2> QED
    BY <2>1, <2>2, <2>3
<1>4. ASSUME NEW e \in Event, Publish(e)
      PROVE  worker' = worker /\ Kept
  <2>1. KeepsJobs
    BY <1>4, PublishKeepsJobs DEF IInv
  <2>2. \A j \in JobId : job[j] # Null => job'[j] = job[j]
    BY <1>4 DEF Publish
  <2>3. worker' = worker
    BY <1>4 DEF Publish, process
  <2> QED
    BY <2>1, <2>2, <2>3 DEF KeepsJobs
<1>5. ASSUME NEW j \in JobId, Expire(j)
      PROVE  worker' = worker /\ Kept
  <2> DEFINE failed == Failed(job[j])
  <2>1. job' = [job EXCEPT ![j] = failed] /\ worker' = worker
    BY <1>5 DEF Expire, process
  <2>2. failed.state \in {"retry", "failed"}
    BY <1>5, FailedType DEF Expire, IInv, TypeOK
  <2> HIDE DEF failed
  <2> QED
    BY <2>1, <2>2 DEF IInv, TypeOK
<1>6. ASSUME NEW q \in Queue, NEW e \in Event,
             \/ ScheduleJob(q) \/ Unschedule(q)
             \/ SubscribeTo(q, e) \/ UnsubscribeFrom(q, e)
      PROVE  worker' = worker /\ Kept
  BY <1>6 DEF ScheduleJob, Unschedule, SubscribeTo, UnsubscribeFrom, process
<1>7. ASSUME NEW q \in Queue, ScheduleJob(q) \/ Unschedule(q)
      PROVE  worker' = worker /\ Kept
  BY <1>7 DEF ScheduleJob, Unschedule, process
<1> QED
  BY <1>1, <1>2, <1>3, <1>4, <1>5, <1>6, <1>7 DEF Call

\* A worker that takes a job holds it, and one that lets a job go leaves it settled.
LEMMA WorkOrphansNone ==
  ASSUME IInv, NEW j \in JobId, NEW w \in Worker,
         \/ \E k \in JobId : Fetch(w, k)
         \/ Process(w) \/ Settle(w) \/ TimeUp(w),
         Orphan(j)'
  PROVE  Orphan(j)
<1>0. /\ job'[j] # Null /\ job'[j].state = "active"
      /\ \A v \in Worker : AtWork(v)' => worker'[v].job # j
  BY DEF Orphan, Held
<1>1. ASSUME NEW k \in JobId, Fetch(w, k)
      PROVE  Orphan(j)
  <2>1. /\ worker'[w] = [does |-> "fetched", job |-> k]
        /\ \A v \in Worker : v # w => worker'[v] = worker[v]
        /\ worker[w] = Free
    BY <1>1 DEF Fetch, IInv, TypeOK
  <2>2. j # k
    BY <1>0, <2>1 DEF AtWork
  <2>3. job'[j] = job[j]
    BY <1>1, <2>2 DEF Fetch, Set, IInv, TypeOK
  <2>4. \A v \in Worker : AtWork(v) => AtWork(v)' /\ worker'[v].job = worker[v].job
    BY <2>1 DEF AtWork, Free
  <2> QED
    BY <1>0, <2>3, <2>4 DEF Orphan, Held
<1>2. ASSUME Process(w)
      PROVE  Orphan(j)
  <2>1. worker[w] = [does |-> "fetched", job |-> worker[w].job]
    BY <1>2, HeldInType DEF Process, AtWork, IInv
  <2>2. /\ worker'[w].does \in {"returned", "threw"}
        /\ worker'[w].job = worker[w].job
        /\ \A v \in Worker : v # w => worker'[v] = worker[v]
    <3>1. PICK s \in {"returned", "threw"} : worker' = [worker EXCEPT ![w].does = s]
      BY <1>2 DEF Process
    <3>2. [worker[w] EXCEPT !.does = s] = [does |-> s, job |-> worker[w].job]
      BY <2>1
    <3>3. worker'[w] = [does |-> s, job |-> worker[w].job]
      BY <3>1, <3>2 DEF IInv, TypeOK
    <3> QED
      BY <3>1, <3>3 DEF IInv, TypeOK
  <2>3. job' = job
    BY <1>2 DEF Process, tables
  <2>4. \A v \in Worker : AtWork(v) => AtWork(v)' /\ worker'[v].job = worker[v].job
    BY <2>2 DEF AtWork
  <2> QED
    BY <1>0, <2>3, <2>4 DEF Orphan, Held
<1>3. ASSUME Settle(w) \/ TimeUp(w)
      PROVE  Orphan(j)
  <2>1. /\ worker[w].job \in JobId
        /\ job'[worker[w].job].state # "active"
        /\ \A k \in JobId : k # worker[w].job => job'[k] = job[k]
    <3>1. CASE Settle(w)
      BY <3>1, SettleStep
    <3>2. CASE TimeUp(w)
      BY <3>2, TimeUpStep
    <3> QED
      BY <1>3, <3>1, <3>2
  <2>2. \A v \in Worker : v # w => worker'[v] = worker[v]
    BY <1>3 DEF Settle, TimeUp, IInv, TypeOK
  <2>3. j # worker[w].job /\ job'[j] = job[j]
    BY <1>0, <2>1
  <2>4. \A v \in Worker : AtWork(v) /\ worker[v].job = j =>
          AtWork(v)' /\ worker'[v].job = j
    BY <2>2, <2>3 DEF AtWork
  <2> QED
    BY <1>0, <2>3, <2>4 DEF Orphan, Held
<1> QED
  BY <1>1, <1>2, <1>3

\* An instance maps its processors over no worker that holds a job.
LEMMA StartUpOrphansNone ==
  ASSUME IInv, StartUp \/ Close
  PROVE  job' = job /\ \A w \in Worker : AtWork(w) => worker'[w] = worker[w]
<1>1. ASSUME NEW q \in Queue, SetupProcessor(q)
      PROVE  job' = job /\ \A w \in Worker : AtWork(w) => worker'[w] = worker[w]
  <2> DEFINE v == <<starting.module, q>>
  <2>1. v \in Worker
    BY <1>1, StartingShape DEF SetupProcessor, IInv, Worker
  <2>2. worker[v] = Off
    BY <1>1, <2>1 DEF SetupProcessor, IInv, WorkersAreMapped, BootKnows, Waiting
  <2>3. \A w \in Worker : w # v => worker'[w] = worker[w]
    BY <1>1, <2>1 DEF SetupProcessor, IInv, TypeOK
  <2> QED
    BY <1>1, <2>2, <2>3 DEF SetupProcessor, tables, AtWork, Off
<1>2. ASSUME \/ Boot \/ StartBoss \/ BossStarted \/ SetupEventListeners \/ Close
             \/ \E m \in QueueInstance : OnModuleInit(m)
             \/ \E q \in Queue : CreateQueue(q)
      PROVE  job' = job /\ worker' = worker
  BY <1>2 DEF Boot, StartBoss, BossStarted, SetupEventListeners, Close, OnModuleInit,
              CreateQueue, tables
<1> QED
  BY <1>1, <1>2 DEF StartUp

\* A job is left at work without a worker by the death of a process alone, however
\* many workers, instances and jobs there are.
THEOREM OnlyDeathOrphansJobs == Spec => OnlyDeathOrphans
<1> DEFINE A == \A j \in JobId : Orphan(j)' /\ ~Orphan(j) =>
                  phase' = "down" /\ stops' # stops
<1>1. IInv /\ [Next]_vars => [A]_vars
  <2> SUFFICES ASSUME IInv, Next, NEW j \in JobId, Orphan(j)', ~Orphan(j)
               PROVE  phase' = "down" /\ stops' # stops
    BY DEF A
  <2>1. ASSUME job' = job, \A w \in Worker : AtWork(w) => worker'[w] = worker[w]
        PROVE  FALSE
    BY <2>1 DEF Orphan, Held, AtWork
  <2>2. ~StartUp /\ ~Close
    BY <2>1, StartUpOrphansNone
  <2>3. ASSUME /\ worker' = worker
               /\ \A k \in JobId : job'[k] # Null /\ job'[k].state = "active" =>
                    job[k] # Null /\ job[k].state = "active"
        PROVE  FALSE
    BY <2>3 DEF Orphan, Held, AtWork
  <2>4. ~Call /\ ~Work
    BY <2>3, JobsActivateNone, WorkOrphansNone DEF Work
  <2>5. ~ShutDown
    <3>1. \A w \in Worker : ~TimeUp(w)
      BY WorkOrphansNone
    <3>2. ~Disconnect
      BY <2>1 DEF Disconnect, tables
    <3>3. \A m \in QueueInstance : ~OnModuleDestroy(m)
      BY <2>1, DestroyStep DEF AtWork, Off
    <3> QED
      BY <3>1, <3>2, <3>3 DEF ShutDown
  <2>6. Crash
    BY <2>2, <2>4, <2>5 DEF Next
  <2> QED
    BY <2>6, CrashStep
<1> QED
  BY <1>1, Invariance, PTL DEF Spec, OnlyDeathOrphans
=============================================================================
