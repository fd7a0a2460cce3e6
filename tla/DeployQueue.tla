---------------------------- MODULE DeployQueue ----------------------------
(***************************************************************************)
(* The in-process queue that runs agent deploy jobs one at a time, with    *)
(* its two ways of getting rid of a stale job (src/pipeline/deploy-queue.ts).*)
(*                                                                         *)
(* Time is the age of things, never a date: `age` is how long ago          *)
(* `acquiredAt` was written and `timer` how long ago the watchdog was      *)
(* armed, both saturating one tick past the limit.  A waiter whose promise *)
(* was resolved continues in a microtask, so it is "woken" for a while in  *)
(* which other code may run but no time passes and no timer fires.         *)
(***************************************************************************)
EXTENDS Naturals, Sequences, FiniteSets

CONSTANTS
  Jobs,     \* the jobs that will ask for the queue, each once
  Hung,     \* the jobs that never call their release function
  Stale,    \* STALE_JOB_MS in ticks
  None

ASSUME JobsAssumption == Hung \subseteq Jobs
ASSUME StaleAssumption == Stale \in Nat \ {0} /\ None \notin Nat

VARIABLES
  running,  \* DeployQueue.running
  age,      \* Date.now() - acquiredAt, or None
  timer,    \* time since startWatchdog armed the watchdog, or None
  queue,    \* the waiting promises, oldest first
  pc,       \* where each job is
  arrivals, \* history: the jobs in the order they asked for the queue
  forced    \* history: a job was force-released

vars == <<running, age, timer, queue, pc, arrivals, forced>>

Ages == 0..(Stale + 1)
Clocks == Ages \cup {None}
Older(a) == IF a = None THEN None ELSE IF a > Stale THEN a ELSE a + 1

TypeOK ==
  /\ running \in BOOLEAN
  /\ age \in Clocks
  /\ timer \in Clocks
  /\ queue \in Seq(Jobs)
  /\ pc \in [Jobs -> {"new", "waiting", "woken", "holding", "done"}]
  /\ arrivals \in Seq(Jobs)
  /\ forced \in BOOLEAN

Init ==
  /\ running = FALSE
  /\ age = None
  /\ timer = None
  /\ queue = <<>>
  /\ pc = [j \in Jobs |-> "new"]
  /\ arrivals = <<>>
  /\ forced = FALSE

-----------------------------------------------------------------------------
(* The first check of acquire: the recorded job is past its limit.         *)
StaleAtAcquire == running /\ age # None /\ age > Stale

(* acquire when nobody runs: the job takes the queue without waiting.      *)
AcquireNow(j) ==
  /\ pc[j] = "new"
  /\ arrivals' = Append(arrivals, j)
  /\ ~running
  /\ running' = TRUE
  /\ age' = 0
  /\ timer' = 0
  /\ pc' = [pc EXCEPT ![j] = "holding"]
  /\ UNCHANGED <<queue, forced>>

(* A plausible bug: the newcomer is put at the head of the queue.          *)
EnqueueFirst(j) ==
  /\ pc[j] = "new"
  /\ arrivals' = Append(arrivals, j)
  /\ running
  /\ ~StaleAtAcquire
  /\ queue' = <<j>> \o queue
  /\ pc' = [pc EXCEPT ![j] = "waiting"]
  /\ UNCHANGED <<running, age, timer, forced>>

(* acquire when a job runs: the caller waits behind the others.            *)
Enqueue(j) ==
  /\ pc[j] = "new"
  /\ arrivals' = Append(arrivals, j)
  /\ running
  /\ ~StaleAtAcquire
  /\ queue' = Append(queue, j)
  /\ pc' = [pc EXCEPT ![j] = "waiting"]
  /\ UNCHANGED <<running, age, timer, forced>>

(* acquire that finds a stale job: forceReleaseCurrent wakes the oldest    *)
(* waiter, and the caller takes the queue in the same synchronous block.   *)
AcquireStale(j) ==
  /\ pc[j] = "new"
  /\ arrivals' = Append(arrivals, j)
  /\ StaleAtAcquire
  /\ running' = TRUE
  /\ age' = 0
  /\ timer' = 0
  /\ IF queue = <<>>
       THEN queue' = queue /\ pc' = [pc EXCEPT ![j] = "holding"]
       ELSE /\ queue' = Tail(queue)
            /\ pc' = [pc EXCEPT ![j] = "holding", ![Head(queue)] = "woken"]
  /\ forced' = TRUE

(* A plausible bug: the woken job does not arm its own watchdog.           *)
ResumeUnwatched(j) ==
  /\ pc[j] = "woken"
  /\ pc' = [pc EXCEPT ![j] = "holding"]
  /\ age' = 0
  /\ UNCHANGED <<running, timer, queue, arrivals, forced>>

(* A woken waiter continues: it notes the time and arms the watchdog.      *)
Resume(j) ==
  /\ pc[j] = "woken"
  /\ pc' = [pc EXCEPT ![j] = "holding"]
  /\ age' = 0
  /\ timer' = 0
  /\ UNCHANGED <<running, queue, arrivals, forced>>

(* A plausible bug: the last holder leaves without resetting `running`.    *)
ReleaseKeepsRunning(j) ==
  /\ pc[j] = "holding"
  /\ timer' = None
  /\ IF queue = <<>>
       THEN age' = None /\ UNCHANGED queue /\ pc' = [pc EXCEPT ![j] = "done"]
       ELSE /\ queue' = Tail(queue)
            /\ pc' = [pc EXCEPT ![j] = "done", ![Head(queue)] = "woken"]
            /\ UNCHANGED age
  /\ UNCHANGED <<running, arrivals, forced>>

(* A plausible bug: the `released` flag is not consulted, so a second call *)
(* of the same release function wakes another waiter.                      *)
ReleaseAgain(j) ==
  /\ pc[j] \in {"holding", "done"}
  /\ timer' = None
  /\ IF queue = <<>>
       THEN /\ running' = FALSE
            /\ age' = None
            /\ UNCHANGED queue
            /\ pc' = [pc EXCEPT ![j] = "done"]
       ELSE /\ queue' = Tail(queue)
            /\ pc' = [pc EXCEPT ![j] = "done", ![Head(queue)] = "woken"]
            /\ UNCHANGED <<running, age>>
  /\ UNCHANGED <<arrivals, forced>>

(* The release function of j, called for the first time: the watchdog is   *)
(* cleared whoever armed it, and the queue passes to the oldest waiter.    *)
Release(j) ==
  /\ pc[j] = "holding"
  /\ timer' = None
  /\ IF queue = <<>>
       THEN /\ running' = FALSE
            /\ age' = None
            /\ UNCHANGED queue
            /\ pc' = [pc EXCEPT ![j] = "done"]
       ELSE /\ queue' = Tail(queue)
            /\ pc' = [pc EXCEPT ![j] = "done", ![Head(queue)] = "woken"]
            /\ UNCHANGED <<running, age>>
  /\ UNCHANGED <<arrivals, forced>>

(* No time passes and no timer fires while microtasks are pending.         *)
Settled == \A j \in Jobs : pc[j] # "woken"

(* The watchdog fires: forceReleaseCurrent if `running`, else nothing.     *)
Watchdog ==
  /\ Settled
  /\ timer # None
  /\ timer >= Stale
  /\ timer' = None
  /\ UNCHANGED arrivals
  /\ IF running
       THEN /\ running' = FALSE
            /\ age' = None
            /\ forced' = TRUE
            /\ IF queue = <<>> THEN UNCHANGED <<queue, pc>>
                 ELSE /\ queue' = Tail(queue)
                      /\ pc' = [pc EXCEPT ![Head(queue)] = "woken"]
       ELSE UNCHANGED <<running, age, forced, queue, pc>>

Tick ==
  /\ Settled
  /\ age' = Older(age)
  /\ timer' = Older(timer)
  /\ UNCHANGED <<running, queue, pc, arrivals, forced>>

Arrive(j) == AcquireNow(j) \/ Enqueue(j) \/ AcquireStale(j)

Next ==
  \/ \E j \in Jobs : Arrive(j) \/ Resume(j)
  \/ \E j \in Jobs \ Hung : Release(j)
  \/ Watchdog
  \/ Tick

Spec == Init /\ [][Next]_vars

(* Microtasks run, timers fire once due, time goes on, and a job that is   *)
(* not hung ends.  Nothing says that a new job ever arrives.               *)
Fairness ==
  /\ \A j \in Jobs : WF_vars(Resume(j))
  /\ \A j \in Jobs \ Hung : WF_vars(Release(j))
  /\ WF_vars(Watchdog)
  /\ WF_vars(Tick)

FairSpec == Spec /\ Fairness

-----------------------------------------------------------------------------
Active == {j \in Jobs : pc[j] \in {"woken", "holding"}}
InQueue == {queue[i] : i \in 1..Len(queue)}

(* Until a job is force-released the queue is a mutual exclusion lock, and *)
(* `running`, which the platform updater reads to postpone an update, is   *)
(* true exactly while a job has it (deploy-queue.ts acquire, release).     *)
OneAtATime ==
  ~forced => Cardinality(Active) <= 1 /\ (running <=> Active # {})

(* No lost wakeup, even after force-releases: whoever waits has a job      *)
(* ahead that has not released yet and will wake the next one.             *)
WaitersHaveAServer ==
  /\ queue # <<>> => Active # {}
  /\ \A j \in Jobs : pc[j] = "waiting" <=> j \in InQueue

(* First come, first served: until a job is force-released, whoever has    *)
(* got the queue leaves nobody waiting who asked for it earlier.           *)
FirstComeFirstServed ==
  ~forced => \A m, n \in 1..Len(arrivals) :
               m < n /\ pc[arrivals[n]] # "waiting" => pc[arrivals[m]] # "waiting"

(* The watchdog frees the waiters of a hung job ("self-healing for queued  *)
(* waiters"): every waiter gets the queue in the end.                      *)
WaitersAreServed == \A j \in Jobs : pc[j] = "waiting" ~> pc[j] = "holding"

(* The queue as a fair mutual exclusion lock, as long as no job has been   *)
(* force-released.                                                         *)
FairExclusion == OneAtATime /\ FirstComeFirstServed

=============================================================================
