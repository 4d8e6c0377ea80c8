----------------------------- MODULE WorkerPool -----------------------------
(****************************************************************************)
(* workerpool.WorkerPool (modules/workerpool/src/root.zig): worker threads  *)
(* take jobs off one shared queue and park on a futex when it is empty.     *)
(* The threads are the workers, the producers that submit, one thread that  *)
(* waits, one that shuts the pool down and one that pauses and resumes it.  *)
(* One step is one atomic access or futex call of the code.  The queue is   *)
(* the first-in first-out queue of module Fifo, acting at one instant.      *)
(****************************************************************************)
EXTENDS Integers, Sequences, FiniteSets

CONSTANTS
  NumWorkers,  \* the most workers a run spawns (Options.n_workers)
  Producer,
  Plans        \* what a run may consist of: the workers spawned, max_queued
               \* (0: unbounded), the submits of each producer, how many
               \* pushes the allocator may refuse and how many futex waits may
               \* end for no reason, and whether the pool is waited for,
               \* paused, and shut down how

PlanType ==
  [workers : 1..NumWorkers, max_queued : Nat, submits : [Producer -> Nat], refusals : Nat,
   spurious : Nat, wait : BOOLEAN, pause : BOOLEAN, shutdown : {"none", "drain", "now"}]

ASSUME PlansAssumption == NumWorkers \in Nat /\ Plans \subseteq PlanType
ASSUME ProducersAssumption == IsFiniteSet(Producer)

VARIABLES
  pool,     \* the pool's atomics and its queue
  wk,       \* worker -> where workerRun is, and its locals
  pr,       \* producer -> where enqueueJob is, and its locals
  wt,       \* where wait is, and its locals
  ow,       \* where drain or shutdownNow is
  pa,       \* where pause or resume is
  plan,     \* what is left of the plan
  hist      \* history: jobs accepted, run, dropped, submitted under a pause,
            \* and accepted before wait was called

vars == <<pool, wk, pr, wt, ow, pa, plan, hist>>

Worker == 1..NumWorkers
NoJob == <<>>
MaxQueued == plan.max_queued
Running == pool.state = "running"

Init ==
  /\ plan \in Plans
  /\ pool = [queue |-> <<>>, notify |-> 0, idle |-> 0, queued |-> 0, submitted |-> 0,
             started |-> 0, completed |-> 0, dropped |-> 0, state |-> "running",
             paused |-> FALSE, taking |-> {}, waiters |-> 0, done_gen |-> 0,
             parked_waiters |-> 0]
  /\ wk = [w \in Worker |-> [pc |-> IF w <= plan.workers THEN "top" ELSE "exited",
                             st |-> "running", gen |-> 0, job |-> NoJob, done |-> 0,
                             last |-> FALSE]]
  /\ pr = [p \in Producer |-> [pc |-> "out", job |-> NoJob]]
  /\ wt = [pc |-> "out", gen |-> 0, done |-> 0, spun |-> FALSE, result |-> FALSE]
  /\ ow = "out"
  /\ pa = [pc |-> "out", next |-> 0]
  /\ hist = [accepted |-> {}, ran |-> {}, dropped |-> {}, late |-> {}, before |-> {}]

----------------------------------------------------------------------------
(* The futexes: a thread whose word has moved does not sleep, and a wake      *)
(* reaches only threads already asleep.                                       *)

Awaken(S) == [w \in Worker |-> IF w \in S THEN [wk[w] EXCEPT !.pc = "woken"] ELSE wk[w]]

Asleep == {w \in Worker : wk[w].pc = "asleep"}

WaiterAwake == IF wt.pc = "asleep" THEN [wt EXCEPT !.pc = "woken"] ELSE wt

----------------------------------------------------------------------------
(* workerRun *)

W(w, pc) == wk' = [wk EXCEPT ![w].pc = pc]
WAt(w, pc) == wk[w].pc = pc
OnlyWorker == UNCHANGED <<pr, wt, ow, pa, plan>>
Looks == UNCHANGED <<pool, hist>> /\ OnlyWorker

(* A worker loads something and branches on it, or updates the pool. *)
Look(w, at, cond, yes, no) == WAt(w, at) /\ W(w, IF cond THEN yes ELSE no) /\ Looks
Update(w, at, p, to) ==
  WAt(w, at) /\ W(w, to) /\ pool' = p /\ UNCHANGED hist /\ OnlyWorker

(* Mutant: a worker leaves as soon as the pool is draining. *)
EagerTopOfLoop(w) ==
  /\ WAt(w, "top")
  /\ wk' = [wk EXCEPT ![w].st = pool.state, ![w].gen = 0, ![w].done = 0, ![w].last = FALSE,
              ![w].pc = IF Running THEN "isPaused" ELSE "exited"]
  /\ Looks

TopOfLoop(w) ==
  /\ WAt(w, "top")
  /\ wk' = [wk EXCEPT ![w].st = pool.state, ![w].gen = 0, ![w].done = 0, ![w].last = FALSE,
              ![w].pc = CASE pool.state = "stopping_now" -> "exited"
                          [] pool.state = "running" -> "isPaused"
                          [] OTHER -> "take"]
  /\ Looks

IsPaused(w) == Look(w, "isPaused", pool.paused, "pauseSnapshot", "take")

(* The generation to park on: before the pause is confirmed, or before the    *)
(* last look at the queue.                                                    *)
PauseSnapshot(w) ==
  /\ WAt(w, "pauseSnapshot")
  /\ wk' = [wk EXCEPT ![w].gen = pool.notify, ![w].pc = "pauseState"]
  /\ Looks

Snapshot(w) ==
  /\ WAt(w, "snapshot")
  /\ wk' = [wk EXCEPT ![w].gen = pool.notify, ![w].last = TRUE, ![w].pc = "take"]
  /\ Looks

ConfirmState(w) == Look(w, "pauseState", Running, "pauseFlag", "top")
ConfirmPause(w) == Look(w, "pauseFlag", pool.paused, "idle", "top")

(* takeJob: the handshake with pause, the pop, the counts. *)
Taking(w) == Update(w, "take", [pool EXCEPT !.taking = @ \union {w}], "takePaused")
TakePaused(w) == Look(w, "takePaused", pool.paused, "takeState", "pop")
TakeState(w) == Look(w, "takeState", Running, "clear", "pop")

Pop(w) ==
  /\ WAt(w, "pop")
  /\ IF pool.queue = <<>> THEN W(w, "clear") /\ UNCHANGED pool
     ELSE /\ wk' = [wk EXCEPT ![w].job = Head(pool.queue), ![w].pc = "started"]
          /\ pool' = [pool EXCEPT !.queue = Tail(@)]
  /\ UNCHANGED hist /\ OnlyWorker

Started(w) == Update(w, "started", [pool EXCEPT !.started = @ + 1], "release")

releaseSlot(p) == IF MaxQueued = 0 THEN p ELSE [p EXCEPT !.queued = @ - 1]

Release(w) == Update(w, "release", releaseSlot(pool), "clear")

ClearTaking(w) ==
  /\ WAt(w, "clear")
  /\ pool' = [pool EXCEPT !.taking = @ \ {w}]
  /\ W(w, IF wk[w].job # NoJob THEN "run"
          ELSE IF wk[w].last THEN "beforePark"
          ELSE IF wk[w].st = "draining" THEN "exited" ELSE "spin")
  /\ UNCHANGED hist /\ OnlyWorker

(* runJob *)
RunJob(w) ==
  /\ WAt(w, "run")
  /\ hist' = [hist EXCEPT !.ran = @ \union {wk[w].job}]
  /\ wk' = [wk EXCEPT ![w].job = NoJob, ![w].pc = "complete"]
  /\ UNCHANGED pool /\ OnlyWorker

Complete(w) ==
  /\ WAt(w, "complete")
  /\ pool' = [pool EXCEPT !.completed = @ + 1]
  /\ wk' = [wk EXCEPT ![w].done = pool.completed + 1, ![w].pc = "anyWaiter"]
  /\ UNCHANGED hist /\ OnlyWorker

AnyWaiter(w) == Look(w, "anyWaiter", pool.waiters > 0, "lastDone", "top")
LastDone(w) == Look(w, "lastDone", wk[w].done = pool.submitted, "bumpDone", "top")
BumpDone(w) == Update(w, "bumpDone", [pool EXCEPT !.done_gen = @ + 1], "anyParked")
AnyParked(w) == Look(w, "anyParked", pool.parked_waiters > 0, "wakeWaiter", "top")

WakeWaiter(w) ==
  /\ WAt(w, "wakeWaiter")
  /\ wt' = WaiterAwake
  /\ W(w, "top")
  /\ UNCHANGED <<pool, pr, ow, pa, plan, hist>>

(* Options.spin_ns: watch `notify` for a while before parking. *)
SpinSnapshot(w) ==
  /\ WAt(w, "spin")
  /\ wk' = [wk EXCEPT ![w].gen = pool.notify, ![w].pc = "spinning"]
  /\ Looks

SpinUntilChanged(w) ==
  /\ WAt(w, "spinning")
  /\ \/ pool.notify # wk[w].gen /\ W(w, "top")
     \/ W(w, "snapshot")
  /\ Looks


BeforePark(w) == Look(w, "beforePark", Running, "idle", "top")
CountIdle(w) == Update(w, "idle", [pool EXCEPT !.idle = @ + 1], "park")
Park(w) == Look(w, "park", pool.notify = wk[w].gen, "asleep", "woken")
Woken(w) == Update(w, "woken", [pool EXCEPT !.idle = @ - 1], "top")

(* The futex may also return for no reason. *)
SpuriousWake(w) ==
  /\ WAt(w, "asleep")
  /\ plan.spurious > 0
  /\ plan' = [plan EXCEPT !.spurious = @ - 1]
  /\ W(w, "woken")
  /\ UNCHANGED <<pool, pr, wt, ow, pa, hist>>

SpuriousWaiterWake ==
  /\ wt.pc = "asleep"
  /\ plan.spurious > 0
  /\ plan' = [plan EXCEPT !.spurious = @ - 1]
  /\ wt' = WaiterAwake
  /\ UNCHANGED <<pool, wk, pr, ow, pa, hist>>

WorkerStep(w) ==
  \/ TopOfLoop(w) \/ IsPaused(w) \/ PauseSnapshot(w) \/ ConfirmState(w) \/ ConfirmPause(w)
  \/ Snapshot(w)
  \/ Taking(w) \/ TakePaused(w) \/ TakeState(w) \/ Pop(w) \/ Started(w) \/ Release(w)
  \/ ClearTaking(w) \/ RunJob(w) \/ Complete(w) \/ AnyWaiter(w) \/ LastDone(w)
  \/ BumpDone(w) \/ AnyParked(w) \/ WakeWaiter(w) \/ SpinSnapshot(w) \/ SpinUntilChanged(w)
  \/ BeforePark(w) \/ CountIdle(w) \/ Park(w) \/ Woken(w)

----------------------------------------------------------------------------
(* enqueueJob.  Producers have quiesced while the pool is being shut down.    *)

P(p, pc) == pr' = [pr EXCEPT ![p].pc = pc]
PAt(p, pc) == pr[p].pc = pc
OnlyProducer == UNCHANGED <<wk, wt, ow, pa, plan>>
Out == [pc |-> "out", job |-> NoJob]
Returns(p) == pr' = [pr EXCEPT ![p] = Out]
PUpdate(p, at, q, to) ==
  PAt(p, at) /\ P(p, to) /\ pool' = q /\ UNCHANGED hist /\ OnlyProducer

NextJob(p) == <<p, plan.submits[p]>>

Submit(p) ==
  /\ PAt(p, "out")
  /\ ow \in {"out", "done"}
  /\ plan.submits[p] > 0
  /\ plan' = [plan EXCEPT !.submits[p] = @ - 1]
  /\ pr' = [pr EXCEPT ![p] = [pc |-> "state", job |-> NextJob(p)]]
  /\ hist' = [hist EXCEPT !.late = IF pa.pc = "held" THEN @ \union {NextJob(p)} ELSE @]
  /\ UNCHANGED <<pool, wk, wt, ow, pa>>

StillRunning(p) ==
  /\ PAt(p, "state")
  /\ IF Running THEN P(p, "reserve") ELSE Returns(p)
  /\ UNCHANGED <<pool, hist>> /\ OnlyProducer

(* Mutant: one job too many is admitted. *)
LaxReserveSlot(p) ==
  /\ PAt(p, "reserve")
  /\ IF MaxQueued # 0 /\ pool.queued > MaxQueued
     THEN Returns(p) /\ UNCHANGED pool
     ELSE /\ P(p, "count")
          /\ pool' = IF MaxQueued = 0 THEN pool ELSE [pool EXCEPT !.queued = @ + 1]
  /\ UNCHANGED hist /\ OnlyProducer

(* The compare-and-swap loop: QueueFull, or one more reserved. *)
reserveSlot(p) ==
  /\ PAt(p, "reserve")
  /\ IF MaxQueued # 0 /\ pool.queued >= MaxQueued
     THEN Returns(p) /\ UNCHANGED pool
     ELSE /\ P(p, "count")
          /\ pool' = IF MaxQueued = 0 THEN pool ELSE [pool EXCEPT !.queued = @ + 1]
  /\ UNCHANGED hist /\ OnlyProducer

CountSubmitted(p) == PUpdate(p, "count", [pool EXCEPT !.submitted = @ + 1], "push")
Push(p) == PUpdate(p, "push", [pool EXCEPT !.queue = Append(@, pr[p].job)], "notify")

(* The allocator refuses a block: withdraw the job. *)
PushFails(p) ==
  /\ PAt(p, "push")
  /\ plan.refusals > 0
  /\ plan' = [plan EXCEPT !.refusals = @ - 1]
  /\ P(p, "withdraw")
  /\ UNCHANGED <<pool, wk, wt, ow, pa, hist>>

Withdraw(p) == PUpdate(p, "withdraw", [pool EXCEPT !.submitted = @ - 1], "unreserve")
Unreserve(p) == PUpdate(p, "unreserve", releaseSlot(pool), "anyWaiter")

WithdrawnWaiters(p) ==
  /\ PAt(p, "anyWaiter")
  /\ IF pool.waiters > 0 THEN P(p, "bumpDone") ELSE Returns(p)
  /\ UNCHANGED <<pool, hist>> /\ OnlyProducer

(* wakeWaiters, in its two steps *)
WithdrawnBump(p) == PUpdate(p, "bumpDone", [pool EXCEPT !.done_gen = @ + 1], "wakeWaiter")

WithdrawnWake(p) ==
  /\ PAt(p, "wakeWaiter")
  /\ wt' = WaiterAwake
  /\ Returns(p)
  /\ UNCHANGED <<pool, wk, ow, pa, plan, hist>>

Notify(p) == PUpdate(p, "notify", [pool EXCEPT !.notify = @ + 1], "anyIdle")

Accepted(p) ==
  /\ Returns(p)
  /\ hist' = [hist EXCEPT !.accepted = @ \union {pr[p].job}]

AnyIdle(p) ==
  /\ PAt(p, "anyIdle")
  /\ IF pool.idle > 0 THEN P(p, "wakeOne") /\ UNCHANGED hist ELSE Accepted(p)
  /\ UNCHANGED pool /\ OnlyProducer

WakeOne(p) ==
  /\ PAt(p, "wakeOne")
  /\ IF Asleep = {} THEN UNCHANGED wk ELSE \E w \in Asleep : wk' = Awaken({w})
  /\ Accepted(p)
  /\ UNCHANGED <<pool, wt, ow, pa, plan>>

ProducerStep(p) ==
  \/ StillRunning(p) \/ reserveSlot(p) \/ CountSubmitted(p) \/ Push(p) \/ PushFails(p)
  \/ Withdraw(p) \/ Unreserve(p) \/ WithdrawnWaiters(p) \/ WithdrawnBump(p)
  \/ WithdrawnWake(p) \/ Notify(p) \/ AnyIdle(p) \/ WakeOne(p)

----------------------------------------------------------------------------
(* wait *)

T(pc) == wt' = [wt EXCEPT !.pc = pc]
OnlyWaiter == UNCHANGED <<wk, pr, ow, pa, plan>>
TLook(at, t) == wt.pc = at /\ wt' = t /\ UNCHANGED <<pool, hist>> /\ OnlyWaiter
TUpdate(at, q, to) == wt.pc = at /\ T(to) /\ pool' = q /\ UNCHANGED hist /\ OnlyWaiter

CallWait ==
  /\ wt.pc = "out" /\ plan.wait
  /\ plan' = [plan EXCEPT !.wait = FALSE]
  /\ pool' = [pool EXCEPT !.waiters = @ + 1]
  /\ hist' = [hist EXCEPT !.before = hist.accepted]
  /\ T("gen")
  /\ UNCHANGED <<wk, pr, ow, pa>>

WaitGen ==
  TLook("gen", [wt EXCEPT !.gen = pool.done_gen, !.pc = "completed"])

(* Mutant: jobs taken are counted instead of jobs done. *)
StartedWaitCompleted ==
  TLook("completed", [wt EXCEPT !.done = pool.started, !.pc = "submitted"])

WaitCompleted ==
  TLook("completed", [wt EXCEPT !.done = pool.completed, !.pc = "submitted"])

WaitSubmitted ==
  TLook("submitted", [wt EXCEPT !.result = (wt.done = pool.submitted),
                                !.pc = IF wt.done = pool.submitted THEN "leave" ELSE "state"])

WaitState ==
  TLook("state", [wt EXCEPT !.pc = IF pool.state \in {"stopping_now", "stopped"} THEN "leave"
                                   ELSE IF wt.spun THEN "park" ELSE "spin"])

WaitSpin ==
  /\ wt.pc = "spin"
  /\ \/ pool.done_gen # wt.gen /\ wt' = [wt EXCEPT !.spun = TRUE, !.pc = "gen"]
     \/ wt' = [wt EXCEPT !.spun = TRUE, !.pc = "park"]
  /\ UNCHANGED <<pool, hist>> /\ OnlyWaiter

CountParked == TUpdate("park", [pool EXCEPT !.parked_waiters = @ + 1], "enter")

WaitPark ==
  TLook("enter", [wt EXCEPT !.pc = IF pool.done_gen = wt.gen THEN "asleep" ELSE "woken"])

WaitWoken == TUpdate("woken", [pool EXCEPT !.parked_waiters = @ - 1], "gen")
WaitReturns == TUpdate("leave", [pool EXCEPT !.waiters = @ - 1], "returned")

WaiterStep ==
  \/ WaitGen \/ WaitCompleted \/ WaitSubmitted \/ WaitState \/ WaitSpin
  \/ CountParked \/ WaitPark \/ WaitWoken \/ WaitReturns

----------------------------------------------------------------------------
(* drain and shutdownNow *)

OnlyOwner == UNCHANGED <<wt, pr, pa>>
OUpdate(at, q, to) ==
  ow = at /\ ow' = to /\ pool' = q /\ UNCHANGED <<wk, plan, hist>> /\ OnlyOwner
Abrupt == plan.shutdown = "now"

CallShutdown ==
  /\ ow = "out" /\ plan.shutdown # "none"
  /\ \A p \in Producer : PAt(p, "out")
  /\ pool' = [pool EXCEPT !.state = IF Abrupt THEN "stopping_now" ELSE "draining"]
  /\ ow' = "bump"
  /\ UNCHANGED <<wk, plan, hist>> /\ OnlyOwner

ShutdownBump == OUpdate("bump", [pool EXCEPT !.notify = @ + 1], "wakeAll")

ShutdownWake ==
  /\ ow = "wakeAll"
  /\ wk' = Awaken(Asleep)
  /\ ow' = "join"
  /\ UNCHANGED <<pool, plan, hist>> /\ OnlyOwner

dropQueued ==
  [pool EXCEPT !.queue = <<>>, !.dropped = @ + Len(pool.queue),
     !.queued = IF MaxQueued = 0 THEN @ ELSE @ - Len(pool.queue)]

(* Join every worker and, in shutdownNow, take what is left off the queue: no *)
(* other thread touches it any more.                                          *)
Join ==
  /\ ow = "join"
  /\ \A w \in Worker : WAt(w, "exited")
  /\ IF Abrupt
     THEN /\ pool' = dropQueued
          /\ hist' = [hist EXCEPT !.dropped = {pool.queue[i] : i \in 1..Len(pool.queue)}]
     ELSE UNCHANGED <<pool, hist>>
  /\ ow' = "stop"
  /\ UNCHANGED <<wk, plan>> /\ OnlyOwner

Stop == OUpdate("stop", [pool EXCEPT !.state = "stopped"], IF Abrupt THEN "bumpDone" ELSE "done")
StoppedBump == OUpdate("bumpDone", [pool EXCEPT !.done_gen = @ + 1], "wakeWaiter")

StoppedWake ==
  /\ ow = "wakeWaiter"
  /\ wt' = WaiterAwake
  /\ ow' = "done"
  /\ UNCHANGED <<pool, wk, pr, pa, plan, hist>>

OwnerStep == ShutdownBump \/ ShutdownWake \/ Join \/ Stop \/ StoppedBump \/ StoppedWake

----------------------------------------------------------------------------
(* pause and resume *)

OnlyPauser == UNCHANGED <<pr, wt, ow, hist>>

CallPause ==
  /\ pa.pc = "out" /\ plan.pause
  /\ plan' = [plan EXCEPT !.pause = FALSE]
  /\ pool' = [pool EXCEPT !.paused = TRUE]
  /\ pa' = [pc |-> "waiting", next |-> 1]
  /\ UNCHANGED wk /\ OnlyPauser

(* Mutant: pause does not wait for a worker about to pop. *)
HastyPause ==
  /\ pa.pc = "waiting"
  /\ pa' = [pc |-> "held", next |-> 0]
  /\ UNCHANGED <<pool, wk, plan>> /\ OnlyPauser

(* The next worker is not between its pause check and its pop. *)
PausePasses ==
  /\ pa.pc = "waiting"
  /\ pa.next \notin pool.taking
  /\ pa' = IF pa.next = plan.workers THEN [pc |-> "held", next |-> 0]
           ELSE [pa EXCEPT !.next = @ + 1]
  /\ UNCHANGED <<pool, wk, plan>> /\ OnlyPauser

CallResume ==
  /\ pa.pc = "held"
  /\ pool' = [pool EXCEPT !.paused = FALSE]
  /\ pa' = [pa EXCEPT !.pc = "bump"]
  /\ UNCHANGED <<wk, plan>> /\ OnlyPauser

ResumeBump ==
  /\ pa.pc = "bump"
  /\ pool' = [pool EXCEPT !.notify = @ + 1]
  /\ pa' = [pa EXCEPT !.pc = "wakeAll"]
  /\ UNCHANGED <<wk, plan>> /\ OnlyPauser

ResumeWake ==
  /\ pa.pc = "wakeAll"
  /\ wk' = Awaken(Asleep)
  /\ pa' = [pa EXCEPT !.pc = "resumed"]
  /\ UNCHANGED <<pool, plan>> /\ OnlyPauser

PauserStep == PausePasses \/ CallResume \/ ResumeBump \/ ResumeWake

----------------------------------------------------------------------------
Next ==
  \/ \E w \in Worker : WorkerStep(w) \/ SpuriousWake(w)
  \/ \E p \in Producer : Submit(p) \/ ProducerStep(p)
  \/ CallWait \/ WaiterStep \/ SpuriousWaiterWake
  \/ CallShutdown \/ OwnerStep
  \/ CallPause \/ PauserStep

(* Every thread that can run does, whoever paused the pool resumes it, and a  *)
(* futex wakes no one by itself.                                              *)
Fairness ==
  /\ \A w \in Worker : WF_vars(WorkerStep(w))
  /\ \A p \in Producer : WF_vars(ProducerStep(p))
  /\ WF_vars(WaiterStep) /\ WF_vars(OwnerStep) /\ WF_vars(PauserStep)

Spec == Init /\ [][Next]_vars /\ Fairness

----------------------------------------------------------------------------
(* "The bound is exact": never more than max_queued jobs are queued, however  *)
(* submits, rollbacks and takes interleave; and a job on the queue, or in the *)
(* hand of a worker that has not yet released it (takeJob), holds a slot.     *)
BoundHolds ==
  MaxQueued # 0 =>
    /\ pool.queued <= MaxQueued
    /\ Len(pool.queue) + Cardinality({w \in Worker : wk[w].pc \in {"started", "release"}})
         <= pool.queued

(* Once pause has returned, no job submitted afterwards starts before resume  *)
(* or a shutdown, whatever a worker had checked just before the call.         *)
PauseHolds ==
  pa.pc = "held" /\ Running =>
    hist.late \intersect (hist.ran \union {wk[w].job : w \in Worker}) = {}

(* wait returns true only when every job accepted before the call has run,    *)
(* although completed and submitted are read one after the other and          *)
(* submitted can fall when a push is withdrawn.                               *)
WaitSound ==
  wt.pc \in {"leave", "returned"} /\ wt.result => hist.before \subseteq hist.ran

(* When a shutdown returns every accepted job has either run or been dropped, *)
(* never both; drain drops none; and the counters say the same.               *)
ShutdownExact ==
  ow = "done" =>
    /\ hist.accepted \subseteq hist.ran \union hist.dropped
    /\ hist.ran \intersect hist.dropped = {}
    /\ plan.shutdown = "drain" => hist.dropped = {}
    /\ pool.submitted = pool.completed + pool.dropped
    /\ pool.started = pool.completed
    /\ pool.queued = 0

Settled ==
  /\ hist.accepted \subseteq hist.ran \union hist.dropped
  /\ wt.pc \in {"out", "returned"}
  /\ ow \in {"out", "done"}
  /\ pa.pc \in {"out", "resumed"}


(* "After drain it returns true at once" (wait).  It does not hold: see the   *)
(* README.                                                                    *)
DrainedWaitIsTrue ==
  wt.pc = "returned" /\ plan.shutdown = "drain" => wt.result
=============================================================================
