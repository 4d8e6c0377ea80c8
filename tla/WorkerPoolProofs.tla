----------------------------- MODULE WorkerPoolProofs ------------------------
(****************************************************************************)
(* What pause and max_queued promise, for any number of workers and         *)
(* producers and any plan.                                                  *)
(*                                                                          *)
(* Once pause has returned, no job submitted afterwards starts before       *)
(* resume or a shutdown.  The handshake is the heart of the argument: a     *)
(* worker announces itself in `taking` before it reads `paused`, pause sets *)
(* `paused` before it reads `taking`, so a worker that pause has passed     *)
(* cannot be on its way to a pop while the pool runs.                       *)
(*                                                                          *)
(* max_queued is exact.  The argument is an account of the slots: `queued`  *)
(* is at every instant the number of jobs on the queue, plus the workers    *)
(* that have popped a job and not yet released its slot, plus the producers *)
(* that hold a slot for a job they have not yet pushed or are withdrawing.  *)
(****************************************************************************)
EXTENDS WorkerPool, TLAPS, FiniteSetTheorems

(* Zenon proves the steps, unless they name another prover; it gets the     *)
(* time a loaded machine may need.                                          *)
USE ZenonT(30)

JobId == Producer \X Nat
State == {"running", "draining", "stopping_now", "stopped"}

PoolType ==
  [queue : Seq(JobId), notify : Int, idle : Int, queued : Int, submitted : Int,
   started : Int, completed : Int, dropped : Int, state : State, paused : BOOLEAN,
   taking : SUBSET Worker, waiters : Int, done_gen : Int, parked_waiters : Int]

WorkerPc ==
  {"top", "isPaused", "pauseSnapshot", "pauseState", "pauseFlag", "take", "takePaused",
   "takeState", "pop", "started", "release", "clear", "run", "complete", "anyWaiter",
   "lastDone", "bumpDone", "anyParked", "wakeWaiter", "spin", "spinning", "snapshot",
   "beforePark", "idle", "park", "asleep", "woken", "exited"}

ProducerPc ==
  {"out", "state", "reserve", "count", "push", "withdraw", "unreserve", "anyWaiter",
   "bumpDone", "wakeWaiter", "notify", "anyIdle", "wakeOne"}

PauserPc == {"out", "waiting", "held", "bump", "wakeAll", "resumed"}

WorkerType ==
  [pc : WorkerPc, st : State, gen : Int, job : JobId \union {NoJob}, done : Int, last : BOOLEAN]

ProducerType == [pc : ProducerPc, job : JobId \union {NoJob}]

HistType ==
  [accepted : SUBSET JobId, ran : SUBSET JobId, dropped : SUBSET JobId,
   late : SUBSET JobId, before : SUBSET JobId]

(* The types the argument needs; a worker has a job in its hand from the pop  *)
(* to the run, and a producer has one while it is inside submit.              *)
Types ==
  /\ plan \in PlanType
  /\ pool \in PoolType
  /\ wk \in [Worker -> WorkerType]
  /\ pr \in [Producer -> ProducerType]
  /\ pa \in [pc : PauserPc, next : Int]
  /\ hist \in HistType
  /\ \A w \in Worker : wk[w].pc = "run" => wk[w].job # NoJob
  /\ \A p \in Producer : pr[p].pc # "out" => pr[p].job \in JobId

(* Submits are numbered downwards: a job that exists has a number its         *)
(* producer will not use again.                                               *)
Old(j) == plan.submits[j[1]] < j[2]

Fresh ==
  /\ \A j \in hist.ran : Old(j)
  /\ \A w \in Worker : wk[w].job # NoJob => Old(wk[w].job)
  /\ \A i \in 1..Len(pool.queue) : Old(pool.queue[i])
  /\ \A p \in Producer : pr[p].pc # "out" => Old(pr[p].job)

InTake == {"takePaused", "takeState", "pop", "started", "release", "clear"}

(* pause has looked at w and found it outside takeJob. *)
Passed(w) ==
  \/ pa.pc = "held" /\ w <= plan.workers
  \/ pa.pc = "waiting" /\ w < pa.next

Handshake ==
  /\ \A w \in Worker : wk[w].pc \in InTake => w \in pool.taking
  /\ \A w \in Worker : plan.workers < w => wk[w].pc = "exited"
  /\ pa.pc \in {"waiting", "held"} => pool.paused
  /\ \A w \in Worker : Running /\ Passed(w) => wk[w].pc \notin {"pop", "started", "release"}
  /\ pa.pc \in {"out", "waiting"} => hist.late = {}

(* The inductive invariant. *)
PauseInv == Types /\ Fresh /\ Handshake /\ PauseHolds

----------------------------------------------------------------------------
(* No job is a job no one has: the worker's empty hand is never a late job.   *)
LEMMA NoJobIsNoJobId == NoJob \notin JobId
  BY SMTT(30) DEF NoJob, JobId

(* The counters may move freely. *)
LEMMA CountersMove ==
  ASSUME pool \in PoolType
  PROVE  /\ [pool EXCEPT !.notify = @ + 1] \in PoolType
         /\ [pool EXCEPT !.idle = @ + 1] \in PoolType
         /\ [pool EXCEPT !.idle = @ - 1] \in PoolType
         /\ [pool EXCEPT !.queued = @ + 1] \in PoolType
         /\ [pool EXCEPT !.queued = @ - 1] \in PoolType
         /\ [pool EXCEPT !.submitted = @ + 1] \in PoolType
         /\ [pool EXCEPT !.submitted = @ - 1] \in PoolType
         /\ [pool EXCEPT !.started = @ + 1] \in PoolType
         /\ [pool EXCEPT !.completed = @ + 1] \in PoolType
         /\ [pool EXCEPT !.waiters = @ + 1] \in PoolType
         /\ [pool EXCEPT !.waiters = @ - 1] \in PoolType
         /\ [pool EXCEPT !.done_gen = @ + 1] \in PoolType
         /\ [pool EXCEPT !.parked_waiters = @ + 1] \in PoolType
         /\ [pool EXCEPT !.parked_waiters = @ - 1] \in PoolType
<1>1. ASSUME NEW n \in Int PROVE [pool EXCEPT !.notify = n] \in PoolType
  BY DEF PoolType
<1>2. ASSUME NEW n \in Int PROVE [pool EXCEPT !.idle = n] \in PoolType
  BY DEF PoolType
<1>3. ASSUME NEW n \in Int PROVE [pool EXCEPT !.queued = n] \in PoolType
  BY DEF PoolType
<1>4. ASSUME NEW n \in Int PROVE [pool EXCEPT !.submitted = n] \in PoolType
  BY DEF PoolType
<1>5. ASSUME NEW n \in Int PROVE [pool EXCEPT !.started = n] \in PoolType
  BY DEF PoolType
<1>6. ASSUME NEW n \in Int PROVE [pool EXCEPT !.completed = n] \in PoolType
  BY DEF PoolType
<1>7. ASSUME NEW n \in Int PROVE [pool EXCEPT !.waiters = n] \in PoolType
  BY DEF PoolType
<1>8. ASSUME NEW n \in Int PROVE [pool EXCEPT !.done_gen = n] \in PoolType
  BY DEF PoolType
<1>9. ASSUME NEW n \in Int PROVE [pool EXCEPT !.parked_waiters = n] \in PoolType
  BY DEF PoolType
<1>10. /\ pool.notify \in Int /\ pool.idle \in Int /\ pool.queued \in Int
       /\ pool.submitted \in Int /\ pool.started \in Int /\ pool.completed \in Int
       /\ pool.waiters \in Int /\ pool.done_gen \in Int /\ pool.parked_waiters \in Int
  BY DEF PoolType
<1>11. [pool EXCEPT !.notify = @ + 1] \in PoolType
  <2>1. pool.notify + 1 \in Int
    BY SMTT(30), <1>10
  <2> QED
    BY <2>1, <1>1
<1>12. [pool EXCEPT !.idle = @ + 1] \in PoolType
  <2>1. pool.idle + 1 \in Int
    BY SMTT(30), <1>10
  <2> QED
    BY <2>1, <1>2
<1>13. [pool EXCEPT !.idle = @ - 1] \in PoolType
  <2>1. pool.idle - 1 \in Int
    BY SMTT(30), <1>10
  <2> QED
    BY <2>1, <1>2
<1>14. [pool EXCEPT !.queued = @ + 1] \in PoolType
  <2>1. pool.queued + 1 \in Int
    BY SMTT(30), <1>10
  <2> QED
    BY <2>1, <1>3
<1>15. [pool EXCEPT !.queued = @ - 1] \in PoolType
  <2>1. pool.queued - 1 \in Int
    BY SMTT(30), <1>10
  <2> QED
    BY <2>1, <1>3
<1>16. [pool EXCEPT !.submitted = @ + 1] \in PoolType
  <2>1. pool.submitted + 1 \in Int
    BY SMTT(30), <1>10
  <2> QED
    BY <2>1, <1>4
<1>17. [pool EXCEPT !.submitted = @ - 1] \in PoolType
  <2>1. pool.submitted - 1 \in Int
    BY SMTT(30), <1>10
  <2> QED
    BY <2>1, <1>4
<1>18. [pool EXCEPT !.started = @ + 1] \in PoolType
  <2>1. pool.started + 1 \in Int
    BY SMTT(30), <1>10
  <2> QED
    BY <2>1, <1>5
<1>19. [pool EXCEPT !.completed = @ + 1] \in PoolType
  <2>1. pool.completed + 1 \in Int
    BY SMTT(30), <1>10
  <2> QED
    BY <2>1, <1>6
<1>20. [pool EXCEPT !.waiters = @ + 1] \in PoolType
  <2>1. pool.waiters + 1 \in Int
    BY SMTT(30), <1>10
  <2> QED
    BY <2>1, <1>7
<1>21. [pool EXCEPT !.waiters = @ - 1] \in PoolType
  <2>1. pool.waiters - 1 \in Int
    BY SMTT(30), <1>10
  <2> QED
    BY <2>1, <1>7
<1>22. [pool EXCEPT !.done_gen = @ + 1] \in PoolType
  <2>1. pool.done_gen + 1 \in Int
    BY SMTT(30), <1>10
  <2> QED
    BY <2>1, <1>8
<1>23. [pool EXCEPT !.parked_waiters = @ + 1] \in PoolType
  <2>1. pool.parked_waiters + 1 \in Int
    BY SMTT(30), <1>10
  <2> QED
    BY <2>1, <1>9
<1>24. [pool EXCEPT !.parked_waiters = @ - 1] \in PoolType
  <2>1. pool.parked_waiters - 1 \in Int
    BY SMTT(30), <1>10
  <2> QED
    BY <2>1, <1>9
<1> QED
  BY <1>11, <1>12, <1>13, <1>14, <1>15, <1>16, <1>17, <1>18, <1>19, <1>20, <1>21, <1>22,
     <1>23, <1>24

(* So may the jobs on the queue. *)
LEMMA QueueMoves ==
  ASSUME pool \in PoolType, NEW q \in Seq(JobId)
  PROVE  [pool EXCEPT !.queue = q] \in PoolType
  BY DEF PoolType

(* What most steps do: nothing that the argument looks at, beyond moving a    *)
(* worker outside takeJob, a producer inside submit, or the state onwards.    *)
QuietPool ==
  /\ pool' \in PoolType
  /\ pool'.paused = pool.paused /\ pool'.taking = pool.taking
  /\ pool'.queue = pool.queue \/ pool'.queue = <<>>
  /\ Running' => Running

QuietWorkers ==
  /\ wk' \in [Worker -> WorkerType]
  /\ \A w \in Worker :
       /\ wk'[w].job = wk[w].job
       /\ \/ wk'[w].pc = wk[w].pc
          \/ wk'[w].pc \notin InTake \union {"run"} /\ wk[w].pc # "exited"

QuietProducers ==
  /\ pr' \in [Producer -> ProducerType]
  /\ \A p \in Producer :
       \/ pr'[p].pc = "out"
       \/ pr'[p].job = pr[p].job /\ pr[p].pc # "out"

QuietPlan ==
  plan' \in PlanType /\ plan'.workers = plan.workers /\ plan'.submits = plan.submits

QuietHist == hist' \in HistType /\ hist'.ran = hist.ran /\ hist'.late = hist.late

Quiet ==
  QuietPool /\ QuietWorkers /\ QuietProducers /\ QuietPlan /\ QuietHist /\ UNCHANGED pa

(* What does not change is quiet. *)
LEMMA StillIsQuiet ==
  ASSUME Types
  PROVE  /\ UNCHANGED pool => QuietPool
         /\ UNCHANGED wk => QuietWorkers
         /\ UNCHANGED pr => QuietProducers
         /\ UNCHANGED plan => QuietPlan
         /\ UNCHANGED hist => QuietHist
<1>1. UNCHANGED pool => QuietPool
  BY DEF Types, QuietPool, Running
<1>2. UNCHANGED wk => QuietWorkers
  BY DEF Types, QuietWorkers
<1>3. UNCHANGED pr => QuietProducers
  BY DEF Types, QuietProducers
<1>4. UNCHANGED plan => QuietPlan
  BY DEF Types, QuietPlan
<1>5. UNCHANGED hist => QuietHist
  BY DEF Types, QuietHist
<1> QED
  BY <1>1, <1>2, <1>3, <1>4, <1>5

(* A quiet step keeps the invariant. *)
LEMMA QuietKeeps == ASSUME PauseInv, Quiet PROVE PauseInv'
<1>1. Types'
  BY DEF Quiet, QuietPool, QuietWorkers, QuietProducers, QuietPlan, QuietHist, PauseInv, Types
<1>2. Fresh'
  <2>1. \A j : Old(j)' <=> Old(j)
    BY DEF Quiet, QuietPlan, Old
  <2>2. \A j \in hist'.ran : Old(j)'
    BY <2>1 DEF Quiet, QuietHist, PauseInv, Fresh
  <2>3. \A w \in Worker : wk'[w].job # NoJob => Old(wk[w].job)'
    BY <2>1 DEF Quiet, QuietWorkers, PauseInv, Fresh
  <2> QED
    BY SMTT(30), <2>1 DEF Quiet, QuietPlan, QuietPool, QuietWorkers, QuietProducers, QuietHist,
                PauseInv, Fresh, Old
<1>3. Handshake'
  BY DEF Quiet, QuietPool, QuietWorkers, QuietPlan, QuietHist, PauseInv, Handshake, InTake,
         Passed, Running
<1>4. PauseHolds'
  BY SMTT(30) DEF Quiet, QuietPool, QuietWorkers, QuietHist, PauseInv, PauseHolds
<1> QED
  BY <1>1, <1>2, <1>3, <1>4 DEF PauseInv

(* Worker steps outside takeJob. *)
LEMMA QuietWorker ==
  ASSUME PauseInv, NEW w \in Worker,
         TopOfLoop(w) \/ IsPaused(w) \/ ConfirmState(w) \/ ConfirmPause(w) \/
         AnyWaiter(w) \/ LastDone(w) \/ AnyParked(w) \/ BeforePark(w) \/ Park(w) \/
         PauseSnapshot(w) \/ Snapshot(w) \/ SpinSnapshot(w) \/ BumpDone(w) \/
         CountIdle(w) \/ Woken(w) \/ Complete(w) \/ WakeWaiter(w) \/ SpinUntilChanged(w)
         \/ SpuriousWake(w)
  PROVE  PauseInv'
<1>0. Types
  BY DEF PauseInv
<1>p. pool \in PoolType
  BY <1>0 DEF Types
<1>w. wk \in [Worker -> WorkerType]
  BY <1>0 DEF Types
<1>r. pr \in [Producer -> ProducerType]
  BY <1>0 DEF Types
<1>n. plan \in PlanType
  BY <1>0 DEF Types
<1>h. hist \in HistType
  BY <1>0 DEF Types
<1>1. CASE TopOfLoop(w)
  <2>1. wk' \in [Worker -> WorkerType]
    <3>1. PICK c \in WorkerPc :
            wk' = [wk EXCEPT ![w].st = pool.state, ![w].gen = 0, ![w].done = 0,
                             ![w].last = FALSE, ![w].pc = c]
      BY <1>1 DEF TopOfLoop, WorkerPc
    <3> DEFINE r == [wk[w] EXCEPT !.st = pool.state, !.gen = 0, !.done = 0,
                                  !.last = FALSE, !.pc = c]
    <3>2. wk' = [wk EXCEPT ![w] = r]
      BY <3>1, <1>w
    <3>3. wk[w] \in WorkerType /\ pool.state \in State
      BY <1>w, <1>p DEF PoolType
    <3>4. r \in WorkerType
      <4>1. \A e \in WorkerType, x \in State : [e EXCEPT !.st = x] \in WorkerType
        BY DEF WorkerType
      <4>2. \A e \in WorkerType : [e EXCEPT !.gen = 0] \in WorkerType
        BY SMTT(30) DEF WorkerType
      <4>3. \A e \in WorkerType : [e EXCEPT !.done = 0] \in WorkerType
        BY SMTT(30) DEF WorkerType
      <4>4. \A e \in WorkerType : [e EXCEPT !.last = FALSE] \in WorkerType
        BY DEF WorkerType
      <4>5. \A e \in WorkerType : [e EXCEPT !.pc = c] \in WorkerType
        BY DEF WorkerType
      <4>6. r = [[[[[wk[w] EXCEPT !.st = pool.state] EXCEPT !.gen = 0] EXCEPT !.done = 0]
                   EXCEPT !.last = FALSE] EXCEPT !.pc = c]
        BY <3>3 DEF WorkerType
      <4> QED
        BY <3>3, <4>1, <4>2, <4>3, <4>4, <4>5, <4>6
    <3> HIDE DEF r
    <3> QED
      BY <3>2, <3>4, <1>w
  <2>2. /\ wk'[w].pc \in {"exited", "isPaused", "take"} /\ wk[w].pc # "exited"
        /\ wk'[w].job = wk[w].job
        /\ \A v \in Worker \ {w} : wk'[v] = wk[v]
    BY SMTT(30), <1>1, <1>w DEF WorkerType, TopOfLoop, WAt
  <2>3. QuietWorkers
    BY <2>1, <2>2 DEF InTake, QuietWorkers
  <2> QED
    BY <1>1, <1>0, <2>3, StillIsQuiet, QuietKeeps DEF Quiet, TopOfLoop, Looks, OnlyWorker
<1>2. CASE IsPaused(w)
  <2>1. wk' \in [Worker -> WorkerType]
    BY SMTT(30), <1>2, <1>w DEF WorkerType, WorkerPc, State, IsPaused, Look, WAt, W
  <2>2. QuietWorkers
    BY SMTT(30), <1>2, <1>w, <2>1 DEF WorkerType, WorkerPc, State, InTake, QuietWorkers, IsPaused,
       Look, WAt, W
  <2> QED
    BY <1>2, <1>0, <2>2, StillIsQuiet, QuietKeeps DEF Quiet, IsPaused, Look, Looks, OnlyWorker
<1>3. CASE ConfirmState(w)
  <2>1. wk' \in [Worker -> WorkerType]
    BY SMTT(30), <1>3, <1>w DEF WorkerType, WorkerPc, State, ConfirmState, Look, WAt, W
  <2>2. QuietWorkers
    BY SMTT(30), <1>3, <1>w, <2>1 DEF WorkerType, WorkerPc, State, InTake, QuietWorkers,
       ConfirmState, Look, WAt, W
  <2> QED
    BY <1>3, <1>0, <2>2, StillIsQuiet, QuietKeeps DEF Quiet, ConfirmState, Look, Looks,
       OnlyWorker
<1>4. CASE ConfirmPause(w)
  <2>1. wk' \in [Worker -> WorkerType]
    BY SMTT(30), <1>4, <1>w DEF WorkerType, WorkerPc, State, ConfirmPause, Look, WAt, W
  <2>2. QuietWorkers
    BY SMTT(30), <1>4, <1>w, <2>1 DEF WorkerType, WorkerPc, State, InTake, QuietWorkers,
       ConfirmPause, Look, WAt, W
  <2> QED
    BY <1>4, <1>0, <2>2, StillIsQuiet, QuietKeeps DEF Quiet, ConfirmPause, Look, Looks,
       OnlyWorker
<1>5. CASE AnyWaiter(w)
  <2>1. wk' \in [Worker -> WorkerType]
    BY SMTT(30), <1>5, <1>w DEF WorkerType, WorkerPc, State, AnyWaiter, Look, WAt, W
  <2>2. QuietWorkers
    BY SMTT(30), <1>5, <1>w, <2>1 DEF WorkerType, WorkerPc, State, InTake, QuietWorkers,
       AnyWaiter, Look, WAt, W
  <2> QED
    BY <1>5, <1>0, <2>2, StillIsQuiet, QuietKeeps DEF Quiet, AnyWaiter, Look, Looks, OnlyWorker
<1>6. CASE LastDone(w)
  <2>1. wk' \in [Worker -> WorkerType]
    BY SMTT(30), <1>6, <1>w DEF WorkerType, WorkerPc, State, LastDone, Look, WAt, W
  <2>2. QuietWorkers
    BY SMTT(30), <1>6, <1>w, <2>1 DEF WorkerType, WorkerPc, State, InTake, QuietWorkers, LastDone,
       Look, WAt, W
  <2> QED
    BY <1>6, <1>0, <2>2, StillIsQuiet, QuietKeeps DEF Quiet, LastDone, Look, Looks, OnlyWorker
<1>7. CASE AnyParked(w)
  <2>1. wk' \in [Worker -> WorkerType]
    BY SMTT(30), <1>7, <1>w DEF WorkerType, WorkerPc, State, AnyParked, Look, WAt, W
  <2>2. QuietWorkers
    BY SMTT(30), <1>7, <1>w, <2>1 DEF WorkerType, WorkerPc, State, InTake, QuietWorkers,
       AnyParked, Look, WAt, W
  <2> QED
    BY <1>7, <1>0, <2>2, StillIsQuiet, QuietKeeps DEF Quiet, AnyParked, Look, Looks, OnlyWorker
<1>8. CASE BeforePark(w)
  <2>1. wk' \in [Worker -> WorkerType]
    BY SMTT(30), <1>8, <1>w DEF WorkerType, WorkerPc, State, BeforePark, Look, WAt, W
  <2>2. QuietWorkers
    BY SMTT(30), <1>8, <1>w, <2>1 DEF WorkerType, WorkerPc, State, InTake, QuietWorkers,
       BeforePark, Look, WAt, W
  <2> QED
    BY <1>8, <1>0, <2>2, StillIsQuiet, QuietKeeps DEF Quiet, BeforePark, Look, Looks, OnlyWorker
<1>9. CASE Park(w)
  <2>1. wk' \in [Worker -> WorkerType]
    BY SMTT(30), <1>9, <1>w DEF WorkerType, WorkerPc, State, Park, Look, WAt, W
  <2>2. QuietWorkers
    BY SMTT(30), <1>9, <1>w, <2>1 DEF WorkerType, WorkerPc, State, InTake, QuietWorkers, Park,
       Look, WAt, W
  <2> QED
    BY <1>9, <1>0, <2>2, StillIsQuiet, QuietKeeps DEF Quiet, Park, Look, Looks, OnlyWorker
<1>10. CASE PauseSnapshot(w)
  <2>1. wk' \in [Worker -> WorkerType]
    BY SMTT(30), <1>10, <1>w, <1>p DEF WorkerType, WorkerPc, State, PauseSnapshot, WAt, PoolType
  <2>2. QuietWorkers
    BY SMTT(30), <1>10, <1>w, <2>1 DEF WorkerType, WorkerPc, State, InTake, QuietWorkers,
       PauseSnapshot, WAt
  <2> QED
    BY <1>10, <1>0, <2>2, StillIsQuiet, QuietKeeps DEF Quiet, PauseSnapshot, Looks, OnlyWorker
<1>11. CASE Snapshot(w)
  <2>1. /\ wk[w].pc = "snapshot"
        /\ wk' = [wk EXCEPT ![w] = [wk[w] EXCEPT !.gen = pool.notify, !.last = TRUE, !.pc = "take"]]
    BY <1>11, <1>w DEF Snapshot, WAt
  <2>2. pool.notify \in Int
    BY <1>p DEF PoolType
  <2>3. wk[w] \in WorkerType
    BY <1>w
  <2>4. [wk[w] EXCEPT !.gen = pool.notify, !.last = TRUE, !.pc = "take"] \in WorkerType
    BY <2>2, <2>3 DEF WorkerType, WorkerPc
  <2>5. wk' \in [Worker -> WorkerType]
    BY <1>w, <2>1, <2>4
  <2>6. /\ wk'[w].pc = "take" /\ wk'[w].job = wk[w].job
        /\ \A v \in Worker \ {w} : wk'[v] = wk[v]
    BY <1>w, <2>1, <2>3 DEF WorkerType
  <2>7. QuietWorkers
    BY <2>1, <2>5, <2>6 DEF InTake, QuietWorkers
  <2> QED
    BY <1>11, <1>0, <2>7, StillIsQuiet, QuietKeeps DEF Quiet, Snapshot, Looks, OnlyWorker
<1>12. CASE SpinSnapshot(w)
  <2>1. wk' \in [Worker -> WorkerType]
    BY SMTT(30), <1>12, <1>w, <1>p DEF WorkerType, WorkerPc, State, SpinSnapshot, WAt, PoolType
  <2>2. QuietWorkers
    BY SMTT(30), <1>12, <1>w, <2>1 DEF WorkerType, WorkerPc, State, InTake, QuietWorkers,
       SpinSnapshot, WAt
  <2> QED
    BY <1>12, <1>0, <2>2, StillIsQuiet, QuietKeeps DEF Quiet, SpinSnapshot, Looks, OnlyWorker
<1>13. CASE BumpDone(w)
  <2>1. pool' = [pool EXCEPT !.done_gen = @ + 1]
    BY <1>13 DEF BumpDone, Update, WAt, W
  <2>2. pool' \in PoolType
    BY <2>1, <1>p, CountersMove
  <2>3. QuietPool
    BY <2>1, <1>p, <2>2 DEF PoolType, State, Running, QuietPool
  <2>4. wk' \in [Worker -> WorkerType]
    BY SMTT(30), <1>13, <1>w DEF WorkerType, WorkerPc, State, BumpDone, Update, WAt, W
  <2>5. QuietWorkers
    BY SMTT(30), <1>13, <1>w, <2>4 DEF WorkerType, WorkerPc, State, InTake, QuietWorkers,
       BumpDone, Update, WAt, W
  <2> QED
    BY <1>13, <1>0, <2>3, <2>5, StillIsQuiet, QuietKeeps DEF Quiet, BumpDone, Update, OnlyWorker
<1>14. CASE CountIdle(w)
  <2>1. pool' = [pool EXCEPT !.idle = @ + 1]
    BY <1>14 DEF CountIdle, Update, WAt, W
  <2>2. pool' \in PoolType
    BY <2>1, <1>p, CountersMove
  <2>3. QuietPool
    BY <2>1, <1>p, <2>2 DEF PoolType, State, Running, QuietPool
  <2>4. wk' \in [Worker -> WorkerType]
    BY SMTT(30), <1>14, <1>w DEF WorkerType, WorkerPc, State, CountIdle, Update, WAt, W
  <2>5. QuietWorkers
    BY SMTT(30), <1>14, <1>w, <2>4 DEF WorkerType, WorkerPc, State, InTake, QuietWorkers,
       CountIdle, Update, WAt, W
  <2> QED
    BY <1>14, <1>0, <2>3, <2>5, StillIsQuiet, QuietKeeps DEF Quiet, CountIdle, Update,
       OnlyWorker
<1>15. CASE Woken(w)
  <2>1. pool' = [pool EXCEPT !.idle = @ - 1]
    BY <1>15 DEF Woken, Update, WAt, W
  <2>2. pool' \in PoolType
    BY <2>1, <1>p, CountersMove
  <2>3. QuietPool
    BY <2>1, <1>p, <2>2 DEF PoolType, State, Running, QuietPool
  <2>4. wk' \in [Worker -> WorkerType]
    BY SMTT(30), <1>15, <1>w DEF WorkerType, WorkerPc, State, Woken, Update, WAt, W
  <2>5. QuietWorkers
    BY SMTT(30), <1>15, <1>w, <2>4 DEF WorkerType, WorkerPc, State, InTake, QuietWorkers, Woken,
       Update, WAt, W
  <2> QED
    BY <1>15, <1>0, <2>3, <2>5, StillIsQuiet, QuietKeeps DEF Quiet, Woken, Update, OnlyWorker
<1>16. CASE Complete(w)
  <2>1. pool' = [pool EXCEPT !.completed = @ + 1]
    BY <1>16 DEF Complete, WAt
  <2>2. pool' \in PoolType
    BY <2>1, <1>p, CountersMove
  <2>3. QuietPool
    BY <2>1, <1>p, <2>2 DEF PoolType, State, Running, QuietPool
  <2>4. wk' \in [Worker -> WorkerType]
    <3>1. pool.completed + 1 \in Int
      BY SMTT(30), <1>p DEF PoolType
    <3>2. PICK n \in Int : wk' = [wk EXCEPT ![w].done = n, ![w].pc = "anyWaiter"]
      BY <1>16, <3>1 DEF Complete
    <3>3. "anyWaiter" \in WorkerPc
      BY DEF WorkerPc
    <3> QED
      BY <3>2, <3>3, <1>w DEF WorkerType
  <2>5. QuietWorkers
    BY SMTT(30), <1>16, <1>w, <2>4 DEF WorkerType, WorkerPc, State, InTake, QuietWorkers, Complete, WAt
  <2> QED
    BY <1>16, <1>0, <2>3, <2>5, StillIsQuiet, QuietKeeps DEF Quiet, Complete, OnlyWorker
<1>17. CASE WakeWaiter(w)
  <2>1. wk' \in [Worker -> WorkerType]
    BY SMTT(30), <1>17, <1>w DEF WorkerType, WorkerPc, State, WakeWaiter, WAt, W
  <2>2. QuietWorkers
    BY SMTT(30), <1>17, <1>w, <2>1 DEF WorkerType, WorkerPc, State, InTake, QuietWorkers,
       WakeWaiter, WAt, W
  <2> QED
    BY <1>17, <1>0, <2>2, StillIsQuiet, QuietKeeps DEF Quiet, WakeWaiter
<1>18. CASE SpinUntilChanged(w)
  <2>1. wk' \in [Worker -> WorkerType]
    BY SMTT(30), <1>18, <1>w DEF WorkerType, WorkerPc, State, SpinUntilChanged, WAt, W
  <2>2. QuietWorkers
    BY SMTT(30), <1>18, <1>w, <2>1 DEF WorkerType, WorkerPc, State, InTake, QuietWorkers,
       SpinUntilChanged, WAt, W
  <2> QED
    BY <1>18, <1>0, <2>2, StillIsQuiet, QuietKeeps DEF Quiet, SpinUntilChanged, Looks,
       OnlyWorker
<1>19. CASE SpuriousWake(w)
  <2>1. wk' \in [Worker -> WorkerType]
    BY SMTT(30), <1>19, <1>w DEF WorkerType, WorkerPc, State, SpuriousWake, WAt, W
  <2>2. QuietWorkers
    BY SMTT(30), <1>19, <1>w, <2>1 DEF WorkerType, WorkerPc, State, InTake, QuietWorkers,
       SpuriousWake, WAt, W
  <2>3. plan' \in PlanType
    BY SMTT(30), <1>19, <1>n DEF PlanType, SpuriousWake, WAt, W
  <2>4. QuietPlan
    BY <1>19, <1>n, <2>3 DEF PlanType, QuietPlan, SpuriousWake, WAt, W
  <2> QED
    BY <1>19, <1>0, <2>2, <2>4, StillIsQuiet, QuietKeeps DEF Quiet, SpuriousWake
<1> QED
  BY <1>1, <1>2, <1>3, <1>4, <1>5, <1>6, <1>7, <1>8, <1>9, <1>10, <1>11, <1>12, <1>13,
     <1>14, <1>15, <1>16, <1>17, <1>18, <1>19

(* Producer steps other than the call and the push. *)
LEMMA QuietProducer ==
  ASSUME PauseInv, NEW p \in Producer,
         StillRunning(p) \/ reserveSlot(p) \/ CountSubmitted(p) \/ Withdraw(p) \/
         WithdrawnBump(p) \/ Notify(p) \/ PushFails(p) \/ Unreserve(p) \/
         WithdrawnWaiters(p) \/ WithdrawnWake(p) \/ AnyIdle(p) \/ WakeOne(p)
  PROVE  PauseInv'
<1>0. Types
  BY DEF PauseInv
<1>p. pool \in PoolType
  BY <1>0 DEF Types
<1>w. wk \in [Worker -> WorkerType]
  BY <1>0 DEF Types
<1>r. pr \in [Producer -> ProducerType]
  BY <1>0 DEF Types
<1>n. plan \in PlanType
  BY <1>0 DEF Types
<1>h. hist \in HistType
  BY <1>0 DEF Types
<1>1. CASE StillRunning(p)
  <2>1. pr' \in [Producer -> ProducerType]
    BY SMTT(30), <1>1, <1>r DEF ProducerType, ProducerPc, StillRunning, PAt, P, Returns, Out
  <2>2. QuietProducers
    BY SMTT(30), <1>1, <1>r, <2>1 DEF ProducerType, ProducerPc, QuietProducers, StillRunning, PAt,
       P, Returns, Out
  <2> QED
    BY <1>1, <1>0, <2>2, StillIsQuiet, QuietKeeps DEF Quiet, StillRunning, OnlyProducer
<1>2. CASE reserveSlot(p)
  <2>1. UNCHANGED pool \/ pool' = [pool EXCEPT !.queued = @ + 1]
    BY <1>2 DEF reserveSlot, PAt, P, Returns, Out, MaxQueued
  <2>2. pool' \in PoolType
    BY <2>1, <1>p, CountersMove
  <2>3. QuietPool
    BY <2>1, <1>p, <2>2 DEF PoolType, State, Running, QuietPool
  <2>4. pr' \in [Producer -> ProducerType]
    BY SMTT(30), <1>2, <1>r DEF ProducerType, ProducerPc, reserveSlot, PAt, P, Returns, Out, MaxQueued
  <2>5. QuietProducers
    BY SMTT(30), <1>2, <1>r, <2>4 DEF ProducerType, ProducerPc, QuietProducers, reserveSlot, PAt,
       P, Returns, Out, MaxQueued
  <2> QED
    BY <1>2, <1>0, <2>3, <2>5, StillIsQuiet, QuietKeeps DEF Quiet, reserveSlot, OnlyProducer
<1>3. CASE CountSubmitted(p)
  <2>1. pool' = [pool EXCEPT !.submitted = @ + 1]
    BY <1>3 DEF CountSubmitted, PUpdate, PAt, P
  <2>2. pool' \in PoolType
    BY <2>1, <1>p, CountersMove
  <2>3. QuietPool
    BY <2>1, <1>p, <2>2 DEF PoolType, State, Running, QuietPool
  <2>4. pr' \in [Producer -> ProducerType]
    BY <1>3, <1>r DEF ProducerType, ProducerPc, CountSubmitted, PUpdate, PAt, P
  <2>5. QuietProducers
    BY SMTT(30), <1>3, <1>r, <2>4 DEF ProducerType, ProducerPc, QuietProducers, CountSubmitted,
       PUpdate, PAt, P
  <2> QED
    BY <1>3, <1>0, <2>3, <2>5, StillIsQuiet, QuietKeeps DEF Quiet, CountSubmitted,
       PUpdate, OnlyProducer
<1>4. CASE Withdraw(p)
  <2>1. pool' = [pool EXCEPT !.submitted = @ - 1]
    BY <1>4 DEF Withdraw, PUpdate, PAt, P
  <2>2. pool' \in PoolType
    BY <2>1, <1>p, CountersMove
  <2>3. QuietPool
    BY <2>1, <1>p, <2>2 DEF PoolType, State, Running, QuietPool
  <2>4. pr' \in [Producer -> ProducerType]
    BY <1>4, <1>r DEF ProducerType, ProducerPc, Withdraw, PUpdate, PAt, P
  <2>5. QuietProducers
    BY SMTT(30), <1>4, <1>r, <2>4 DEF ProducerType, ProducerPc, QuietProducers, Withdraw, PUpdate, PAt, P
  <2> QED
    BY <1>4, <1>0, <2>3, <2>5, StillIsQuiet, QuietKeeps DEF Quiet, Withdraw, PUpdate,
       OnlyProducer
<1>5. CASE WithdrawnBump(p)
  <2>1. pool' = [pool EXCEPT !.done_gen = @ + 1]
    BY <1>5 DEF WithdrawnBump, PUpdate, PAt, P
  <2>2. pool' \in PoolType
    BY <2>1, <1>p, CountersMove
  <2>3. QuietPool
    BY <2>1, <1>p, <2>2 DEF PoolType, State, Running, QuietPool
  <2>4. pr' \in [Producer -> ProducerType]
    BY <1>5, <1>r DEF ProducerType, ProducerPc, WithdrawnBump, PUpdate, PAt, P
  <2>5. QuietProducers
    BY <1>5, <1>r, <2>4 DEF ProducerType, ProducerPc, QuietProducers, WithdrawnBump,
       PUpdate, PAt, P
  <2> QED
    BY <1>5, <1>0, <2>3, <2>5, StillIsQuiet, QuietKeeps DEF Quiet, WithdrawnBump,
       PUpdate, OnlyProducer
<1>6. CASE Notify(p)
  <2>1. pool' = [pool EXCEPT !.notify = @ + 1]
    BY <1>6 DEF Notify, PUpdate, PAt, P
  <2>2. pool' \in PoolType
    BY <2>1, <1>p, CountersMove
  <2>3. QuietPool
    BY <2>1, <1>p, <2>2 DEF PoolType, State, Running, QuietPool
  <2>4. pr' \in [Producer -> ProducerType]
    BY <1>6, <1>r DEF ProducerType, ProducerPc, Notify, PUpdate, PAt, P
  <2>5. QuietProducers
    BY <1>6, <1>r, <2>4 DEF ProducerType, ProducerPc, QuietProducers, Notify, PUpdate, PAt, P
  <2> QED
    BY <1>6, <1>0, <2>3, <2>5, StillIsQuiet, QuietKeeps DEF Quiet, Notify, PUpdate, OnlyProducer
<1>7. CASE PushFails(p)
  <2>1. pr' \in [Producer -> ProducerType]
    BY <1>7, <1>r DEF ProducerType, ProducerPc, PushFails, PAt, P
  <2>2. QuietProducers
    BY <1>7, <1>r, <2>1 DEF ProducerType, ProducerPc, QuietProducers, PushFails, PAt, P
  <2>3. plan' \in PlanType
    BY SMTT(30), <1>7, <1>n DEF PlanType, PushFails, PAt, P
  <2>4. QuietPlan
    BY <1>7, <1>n, <2>3 DEF PlanType, QuietPlan, PushFails, PAt, P
  <2> QED
    BY <1>7, <1>0, <2>2, <2>4, StillIsQuiet, QuietKeeps DEF Quiet, PushFails
<1>8. CASE Unreserve(p)
  <2>1. UNCHANGED pool \/ pool' = [pool EXCEPT !.queued = @ - 1]
    BY <1>8 DEF Unreserve, PUpdate, PAt, P, releaseSlot, MaxQueued
  <2>2. pool' \in PoolType
    BY <2>1, <1>p, CountersMove
  <2>3. QuietPool
    BY <2>1, <1>p, <2>2 DEF PoolType, State, Running, QuietPool
  <2>4. pr' \in [Producer -> ProducerType]
    BY <1>8, <1>r DEF ProducerType, ProducerPc, Unreserve, PUpdate, PAt, P, releaseSlot,
       MaxQueued
  <2>5. QuietProducers
    BY <1>8, <1>r, <2>4 DEF ProducerType, ProducerPc, QuietProducers, Unreserve,
       PUpdate, PAt, P, releaseSlot, MaxQueued
  <2> QED
    BY <1>8, <1>0, <2>3, <2>5, StillIsQuiet, QuietKeeps DEF Quiet, Unreserve, PUpdate,
       OnlyProducer
<1>9. CASE WithdrawnWaiters(p)
  <2>1. pr' \in [Producer -> ProducerType]
    BY SMTT(30), <1>9, <1>r DEF ProducerType, ProducerPc, WithdrawnWaiters, PAt, P, Returns, Out
  <2>2. QuietProducers
    BY SMTT(30), <1>9, <1>r, <2>1 DEF ProducerType, ProducerPc, QuietProducers, WithdrawnWaiters,
       PAt, P, Returns, Out
  <2> QED
    BY <1>9, <1>0, <2>2, StillIsQuiet, QuietKeeps DEF Quiet, WithdrawnWaiters, OnlyProducer
<1>10. CASE WithdrawnWake(p)
  <2>1. pr' \in [Producer -> ProducerType]
    BY <1>10, <1>r DEF ProducerType, ProducerPc, WithdrawnWake, PAt, Returns, Out
  <2>2. QuietProducers
    BY <1>10, <1>r, <2>1 DEF ProducerType, ProducerPc, QuietProducers, WithdrawnWake,
       PAt, Returns, Out
  <2> QED
    BY <1>10, <1>0, <2>2, StillIsQuiet, QuietKeeps DEF Quiet, WithdrawnWake
<1>11. CASE AnyIdle(p)
  <2>1. pr' \in [Producer -> ProducerType]
    BY SMTT(30), <1>11, <1>r DEF ProducerType, ProducerPc, AnyIdle, PAt, P, Accepted, Returns, Out
  <2>2. QuietProducers
    BY SMTT(30), <1>11, <1>r, <2>1 DEF ProducerType, ProducerPc, QuietProducers, AnyIdle, PAt, P,
       Accepted, Returns, Out
  <2>3. hist' \in HistType
    BY SMTT(30), <1>11, <1>h, <1>0 DEF HistType, AnyIdle, PAt, P, Accepted, Returns, Out, Types
  <2>4. QuietHist
    BY <1>11, <1>h, <2>3 DEF HistType, QuietHist, AnyIdle, PAt, P, Accepted, Returns, Out
  <2> QED
    BY <1>11, <1>0, <2>2, <2>4, StillIsQuiet, QuietKeeps DEF Quiet, AnyIdle, OnlyProducer
<1>12. CASE WakeOne(p)
  <2>1. wk' \in [Worker -> WorkerType]
    BY SMTT(30), <1>12, <1>w DEF WorkerType, WorkerPc, State, WakeOne, PAt, Accepted, Returns,
       Out, Asleep, Awaken
  <2>2. QuietWorkers
    BY SMTT(30), <1>12, <1>w, <2>1 DEF WorkerType, WorkerPc, State, InTake, QuietWorkers, WakeOne,
       PAt, Accepted, Returns, Out, Asleep, Awaken
  <2>3. pr' \in [Producer -> ProducerType]
    BY <1>12, <1>r DEF ProducerType, ProducerPc, WakeOne, PAt, Accepted, Returns, Out,
       Asleep, Awaken
  <2>4. QuietProducers
    BY <1>12, <1>r, <2>3 DEF ProducerType, ProducerPc, QuietProducers, WakeOne, PAt,
       Accepted, Returns, Out, Asleep, Awaken
  <2>5. hist' \in HistType
    BY SMTT(30), <1>12, <1>h, <1>0 DEF HistType, WakeOne, PAt, Accepted, Returns, Out, Asleep,
       Awaken, Types
  <2>6. QuietHist
    BY <1>12, <1>h, <2>5 DEF HistType, QuietHist, WakeOne, PAt, Accepted, Returns, Out,
       Asleep, Awaken
  <2> QED
    BY <1>12, <1>0, <2>2, <2>4, <2>6, StillIsQuiet, QuietKeeps DEF Quiet, WakeOne
<1> QED
  BY <1>1, <1>2, <1>3, <1>4, <1>5, <1>6, <1>7, <1>8, <1>9, <1>10, <1>11, <1>12

(* The waiter, and the owner shutting the pool down. *)
LEMMA QuietOthers ==
  ASSUME PauseInv,
         CallWait \/ WaiterStep \/ SpuriousWaiterWake \/ CallShutdown \/ OwnerStep
  PROVE  PauseInv'
<1>0. Types
  BY DEF PauseInv
<1>p. pool \in PoolType
  BY <1>0 DEF Types
<1>w. wk \in [Worker -> WorkerType]
  BY <1>0 DEF Types
<1>r. pr \in [Producer -> ProducerType]
  BY <1>0 DEF Types
<1>n. plan \in PlanType
  BY <1>0 DEF Types
<1>h. hist \in HistType
  BY <1>0 DEF Types
<1>1. CASE CallWait
  <2>1. pool' = [pool EXCEPT !.waiters = @ + 1]
    BY <1>1 DEF CallWait
  <2>2. pool' \in PoolType
    BY <2>1, <1>p, CountersMove
  <2>3. QuietPool
    BY <2>1, <1>p, <2>2 DEF PoolType, State, Running, QuietPool
  <2>4. plan' \in PlanType
    BY <1>1, <1>n DEF PlanType, CallWait
  <2>5. QuietPlan
    BY <1>1, <1>n, <2>4 DEF PlanType, QuietPlan, CallWait
  <2>6. hist' \in HistType
    BY <1>1, <1>h DEF HistType, CallWait
  <2>7. QuietHist
    BY <1>1, <1>h, <2>6 DEF HistType, QuietHist, CallWait
  <2> QED
    BY <1>1, <1>0, <2>3, <2>5, <2>7, StillIsQuiet, QuietKeeps DEF Quiet, CallWait
<1>2. CASE WaitGen
  <2> QED
    BY <1>2, <1>0, StillIsQuiet, QuietKeeps DEF Quiet, WaitGen, TLook, OnlyWaiter
<1>3. CASE WaitCompleted
  <2> QED
    BY <1>3, <1>0, StillIsQuiet, QuietKeeps DEF Quiet, WaitCompleted, TLook, OnlyWaiter
<1>4. CASE WaitSubmitted
  <2> QED
    BY <1>4, <1>0, StillIsQuiet, QuietKeeps DEF Quiet, WaitSubmitted, TLook, OnlyWaiter
<1>5. CASE WaitState
  <2> QED
    BY <1>5, <1>0, StillIsQuiet, QuietKeeps DEF Quiet, WaitState, TLook, OnlyWaiter
<1>6. CASE WaitPark
  <2> QED
    BY <1>6, <1>0, StillIsQuiet, QuietKeeps DEF Quiet, WaitPark, TLook, OnlyWaiter
<1>7. CASE WaitSpin
  <2> QED
    BY <1>7, <1>0, StillIsQuiet, QuietKeeps DEF Quiet, WaitSpin, OnlyWaiter
<1>8. CASE CountParked
  <2>1. pool' = [pool EXCEPT !.parked_waiters = @ + 1]
    BY <1>8 DEF CountParked, TUpdate
  <2>2. pool' \in PoolType
    BY <2>1, <1>p, CountersMove
  <2>3. QuietPool
    BY <2>1, <1>p, <2>2 DEF PoolType, State, Running, QuietPool
  <2> QED
    BY <1>8, <1>0, <2>3, StillIsQuiet, QuietKeeps DEF Quiet, CountParked, TUpdate, OnlyWaiter
<1>9. CASE WaitWoken
  <2>1. pool' = [pool EXCEPT !.parked_waiters = @ - 1]
    BY <1>9 DEF WaitWoken, TUpdate
  <2>2. pool' \in PoolType
    BY <2>1, <1>p, CountersMove
  <2>3. QuietPool
    BY <2>1, <1>p, <2>2 DEF PoolType, State, Running, QuietPool
  <2> QED
    BY <1>9, <1>0, <2>3, StillIsQuiet, QuietKeeps DEF Quiet, WaitWoken, TUpdate, OnlyWaiter
<1>10. CASE WaitReturns
  <2>1. pool' = [pool EXCEPT !.waiters = @ - 1]
    BY <1>10 DEF WaitReturns, TUpdate
  <2>2. pool' \in PoolType
    BY <2>1, <1>p, CountersMove
  <2>3. QuietPool
    BY <2>1, <1>p, <2>2 DEF PoolType, State, Running, QuietPool
  <2> QED
    BY <1>10, <1>0, <2>3, StillIsQuiet, QuietKeeps DEF Quiet, WaitReturns, TUpdate, OnlyWaiter
<1>11. CASE SpuriousWaiterWake
  <2>1. plan' \in PlanType
    BY SMTT(30), <1>11, <1>n DEF PlanType, SpuriousWaiterWake
  <2>2. QuietPlan
    BY <1>11, <1>n, <2>1 DEF PlanType, QuietPlan, SpuriousWaiterWake
  <2> QED
    BY <1>11, <1>0, <2>2, StillIsQuiet, QuietKeeps DEF Quiet, SpuriousWaiterWake
<1>12. CASE CallShutdown
  <2>1. pool' \in PoolType
    BY <1>12, <1>p DEF PoolType, State, CallShutdown
  <2>2. QuietPool
    BY <1>12, <1>p, <2>1 DEF PoolType, State, Running, QuietPool, CallShutdown
  <2> QED
    BY <1>12, <1>0, <2>2, StillIsQuiet, QuietKeeps DEF Quiet, CallShutdown, OnlyOwner
<1>13. CASE ShutdownBump
  <2>1. pool' = [pool EXCEPT !.notify = @ + 1]
    BY <1>13 DEF ShutdownBump, OUpdate
  <2>2. pool' \in PoolType
    BY <2>1, <1>p, CountersMove
  <2>3. QuietPool
    BY <2>1, <1>p, <2>2 DEF PoolType, State, Running, QuietPool
  <2> QED
    BY <1>13, <1>0, <2>3, StillIsQuiet, QuietKeeps DEF Quiet, ShutdownBump, OUpdate, OnlyOwner
<1>14. CASE ShutdownWake
  <2>1. wk' \in [Worker -> WorkerType]
    BY SMTT(30), <1>14, <1>w DEF WorkerType, WorkerPc, State, ShutdownWake, Awaken, Asleep
  <2>2. QuietWorkers
    BY SMTT(30), <1>14, <1>w, <2>1 DEF WorkerType, WorkerPc, State, InTake, QuietWorkers,
       ShutdownWake, Awaken, Asleep
  <2> QED
    BY <1>14, <1>0, <2>2, StillIsQuiet, QuietKeeps DEF Quiet, ShutdownWake, OnlyOwner
<1>15. CASE Join
  <2>1. pool' \in PoolType
    <3>1. pool.queue \in Seq(JobId) /\ pool.dropped \in Int /\ pool.queued \in Int
      BY <1>p DEF PoolType
    <3>2. Len(pool.queue) \in Nat
      BY SMTT(30), <3>1
    <3>3. ASSUME NEW d \in Int, NEW n \in Int
          PROVE  [pool EXCEPT !.queue = <<>>, !.dropped = d, !.queued = n] \in PoolType
      <4>0. <<>> \in Seq(JobId)
        BY SMTT(30)
      <4>1. [pool EXCEPT !.queue = <<>>] \in PoolType
        BY <1>p, <4>0, QueueMoves
      <4>2. ASSUME NEW q \in PoolType PROVE [q EXCEPT !.dropped = d] \in PoolType
        BY DEF PoolType
      <4>3. ASSUME NEW q \in PoolType PROVE [q EXCEPT !.queued = n] \in PoolType
        BY DEF PoolType
      <4>4. [[[pool EXCEPT !.queue = <<>>] EXCEPT !.dropped = d] EXCEPT !.queued = n] \in PoolType
        BY <4>1, <4>2, <4>3
      <4>5. [[[pool EXCEPT !.queue = <<>>] EXCEPT !.dropped = d] EXCEPT !.queued = n]
              = [pool EXCEPT !.queue = <<>>, !.dropped = d, !.queued = n]
        BY <1>p
      <4> QED
        BY <4>4, <4>5
    <3>4. pool.dropped + Len(pool.queue) \in Int /\ pool.queued - Len(pool.queue) \in Int
      BY SMTT(30), <3>1, <3>2
    <3>5. (IF MaxQueued = 0 THEN pool.queued ELSE pool.queued - Len(pool.queue)) \in Int
      BY <3>1, <3>4
    <3>6. [pool EXCEPT !.queue = <<>>, !.dropped = @ + Len(pool.queue),
             !.queued = IF MaxQueued = 0 THEN @ ELSE @ - Len(pool.queue)] \in PoolType
      BY <3>3, <3>4, <3>5
    <3> QED
      BY <1>15, <1>p, <3>6 DEF Join, dropQueued
  <2>2. QuietPool
    BY <1>15, <1>p, <2>1 DEF PoolType, State, Running, QuietPool, Join, dropQueued, MaxQueued
  <2>3. hist' \in HistType
    BY SMTT(30), <1>15, <1>h, <1>p DEF HistType, Join, dropQueued, MaxQueued, PoolType
  <2>4. QuietHist
    BY <1>15, <1>h, <2>3 DEF HistType, QuietHist, Join, dropQueued, MaxQueued
  <2> QED
    BY <1>15, <1>0, <2>2, <2>4, StillIsQuiet, QuietKeeps DEF Quiet, Join, dropQueued, OnlyOwner
<1>16. CASE Stop
  <2>1. pool' \in PoolType
    BY <1>16, <1>p DEF PoolType, State, Stop, OUpdate
  <2>2. QuietPool
    BY <1>16, <1>p, <2>1 DEF PoolType, State, Running, QuietPool, Stop, OUpdate
  <2> QED
    BY <1>16, <1>0, <2>2, StillIsQuiet, QuietKeeps DEF Quiet, Stop, OUpdate, OnlyOwner
<1>17. CASE StoppedBump
  <2>1. pool' = [pool EXCEPT !.done_gen = @ + 1]
    BY <1>17 DEF StoppedBump, OUpdate
  <2>2. pool' \in PoolType
    BY <2>1, <1>p, CountersMove
  <2>3. QuietPool
    BY <2>1, <1>p, <2>2 DEF PoolType, State, Running, QuietPool
  <2> QED
    BY <1>17, <1>0, <2>3, StillIsQuiet, QuietKeeps DEF Quiet, StoppedBump, OUpdate, OnlyOwner
<1>18. CASE StoppedWake
  <2> QED
    BY <1>18, <1>0, StillIsQuiet, QuietKeeps DEF Quiet, StoppedWake
<1> QED
  BY <1>1, <1>2, <1>3, <1>4, <1>5, <1>6, <1>7, <1>8, <1>9, <1>10, <1>11, <1>12, <1>13,
     <1>14, <1>15, <1>16, <1>17, <1>18 DEF WaiterStep, OwnerStep

----------------------------------------------------------------------------
(* Moving a worker moves nothing else. *)
LEMMA WorkerMoves ==
  ASSUME wk \in [Worker -> WorkerType], NEW w \in Worker, NEW to \in WorkerPc, W(w, to)
  PROVE  /\ wk' \in [Worker -> WorkerType]
         /\ wk'[w].pc = to /\ wk'[w].job = wk[w].job
         /\ \A v \in Worker \ {w} : wk'[v] = wk[v]
  BY DEF WorkerType, W

(* A step that touches no job keeps the rest, once the handshake is kept.     *)
LEMMA SameJobsKeep ==
  ASSUME PauseInv, Types', Handshake',
         pool'.queue = pool.queue, Running' => Running,
         \A w \in Worker : wk'[w].job = wk[w].job,
         plan'.submits = plan.submits, UNCHANGED <<pr, hist>>,
         pa'.pc = "held" => pa.pc = "held" \/ hist.late = {}
  PROVE  PauseInv'
<1>1. Fresh'
  BY DEF PauseInv, Fresh, Old
<1>2. PauseHolds'
  BY SMTT(30) DEF PauseInv, PauseHolds
<1> QED
  BY <1>1, <1>2 DEF PauseInv

(* Inside takeJob: the announcement, the two checks, and the counts. *)
LEMMA TakeKeeps ==
  ASSUME PauseInv, NEW w \in Worker,
         Taking(w) \/ TakePaused(w) \/ TakeState(w) \/ Started(w) \/ Release(w) \/ ClearTaking(w)
  PROVE  PauseInv'
<1>0. Types /\ Handshake
  BY DEF PauseInv
<1>p. pool \in PoolType
  BY <1>0 DEF Types
<1>w. wk \in [Worker -> WorkerType]
  BY <1>0 DEF Types
<1>1. CASE Taking(w)
  <2>1. W(w, "takePaused") /\ wk[w].pc = "take" /\ pool' = [pool EXCEPT !.taking = @ \union {w}]
        /\ UNCHANGED <<pr, pa, plan, hist>>
    BY <1>1 DEF Taking, Update, WAt, OnlyWorker
  <2>2. /\ wk' \in [Worker -> WorkerType]
        /\ wk'[w].pc = "takePaused" /\ wk'[w].job = wk[w].job
        /\ \A v \in Worker \ {w} : wk'[v] = wk[v]
    BY <2>1, <1>w, WorkerMoves DEF WorkerPc
  <2>3. pool' \in PoolType
    BY <2>1, <1>p DEF PoolType
  <2>4. /\ pool'.taking = pool.taking \union {w} /\ pool'.queue = pool.queue
        /\ pool'.paused = pool.paused /\ pool'.state = pool.state
    BY <2>1, <1>p DEF PoolType
  <2>5. Types'
    BY <1>0, <2>1, <2>2, <2>3 DEF Types
  <2>6. Handshake'
    BY SMTT(30), <1>0, <2>1, <2>2, <2>4 DEF Handshake, Passed, Running, InTake
  <2> QED
    BY <2>1, <2>2, <2>4, <2>5, <2>6, SameJobsKeep DEF Running
<1>2. CASE TakePaused(w)
  <2>1. /\ W(w, IF pool.paused THEN "takeState" ELSE "pop") /\ wk[w].pc = "takePaused"
        /\ UNCHANGED <<pool, pr, pa, plan, hist>>
    BY <1>2 DEF TakePaused, Look, WAt, Looks, OnlyWorker
  <2>2. /\ wk' \in [Worker -> WorkerType]
        /\ wk'[w].pc = (IF pool.paused THEN "takeState" ELSE "pop") /\ wk'[w].job = wk[w].job
        /\ \A v \in Worker \ {w} : wk'[v] = wk[v]
    BY <2>1, <1>w, WorkerMoves DEF WorkerPc
  <2>3. Types'
    BY <1>0, <2>1, <2>2 DEF Types
  <2>4. Handshake'
    BY SMTT(30), <1>0, <2>1, <2>2 DEF Handshake, Passed, Running, InTake
  <2> QED
    BY <2>1, <2>2, <2>3, <2>4, SameJobsKeep DEF Running
<1>3. CASE TakeState(w)
  <2>1. /\ W(w, IF Running THEN "clear" ELSE "pop") /\ wk[w].pc = "takeState"
        /\ UNCHANGED <<pool, pr, pa, plan, hist>>
    BY <1>3 DEF TakeState, Look, WAt, Looks, OnlyWorker
  <2>2. /\ wk' \in [Worker -> WorkerType]
        /\ wk'[w].pc = (IF Running THEN "clear" ELSE "pop") /\ wk'[w].job = wk[w].job
        /\ \A v \in Worker \ {w} : wk'[v] = wk[v]
    BY <2>1, <1>w, WorkerMoves DEF WorkerPc
  <2>3. Types'
    BY <1>0, <2>1, <2>2 DEF Types
  <2>4. Handshake'
    BY SMTT(30), <1>0, <2>1, <2>2 DEF Handshake, Passed, Running, InTake
  <2> QED
    BY <2>1, <2>2, <2>3, <2>4, SameJobsKeep DEF Running
<1>4. CASE Started(w)
  <2>1. /\ W(w, "release") /\ wk[w].pc = "started" /\ pool' = [pool EXCEPT !.started = @ + 1]
        /\ UNCHANGED <<pr, pa, plan, hist>>
    BY <1>4 DEF Started, Update, WAt, OnlyWorker
  <2>2. /\ wk' \in [Worker -> WorkerType]
        /\ wk'[w].pc = "release" /\ wk'[w].job = wk[w].job
        /\ \A v \in Worker \ {w} : wk'[v] = wk[v]
    BY <2>1, <1>w, WorkerMoves DEF WorkerPc
  <2>3. pool' \in PoolType
    BY <2>1, <1>p, CountersMove
  <2>4. /\ pool'.taking = pool.taking /\ pool'.queue = pool.queue
        /\ pool'.paused = pool.paused /\ pool'.state = pool.state
    BY <2>1, <1>p DEF PoolType
  <2>5. Types'
    BY <1>0, <2>1, <2>2, <2>3 DEF Types
  <2>6. Handshake'
    BY SMTT(30), <1>0, <2>1, <2>2, <2>4 DEF Handshake, Passed, Running, InTake
  <2> QED
    BY <2>1, <2>2, <2>4, <2>5, <2>6, SameJobsKeep DEF Running
<1>5. CASE Release(w)
  <2>1. /\ W(w, "clear") /\ wk[w].pc = "release"
        /\ UNCHANGED pool \/ pool' = [pool EXCEPT !.queued = @ - 1]
        /\ UNCHANGED <<pr, pa, plan, hist>>
    BY <1>5 DEF Release, Update, WAt, OnlyWorker, releaseSlot
  <2>2. /\ wk' \in [Worker -> WorkerType]
        /\ wk'[w].pc = "clear" /\ wk'[w].job = wk[w].job
        /\ \A v \in Worker \ {w} : wk'[v] = wk[v]
    BY <2>1, <1>w, WorkerMoves DEF WorkerPc
  <2>3. pool' \in PoolType
    BY <2>1, <1>p, CountersMove
  <2>4. /\ pool'.taking = pool.taking /\ pool'.queue = pool.queue
        /\ pool'.paused = pool.paused /\ pool'.state = pool.state
    BY <2>1, <1>p DEF PoolType
  <2>5. Types'
    BY <1>0, <2>1, <2>2, <2>3 DEF Types
  <2>6. Handshake'
    BY SMTT(30), <1>0, <2>1, <2>2, <2>4 DEF Handshake, Passed, Running, InTake
  <2> QED
    BY <2>1, <2>2, <2>4, <2>5, <2>6, SameJobsKeep DEF Running
<1>6. CASE ClearTaking(w)
  <2>1. /\ wk[w].pc = "clear" /\ pool' = [pool EXCEPT !.taking = @ \ {w}]
        /\ UNCHANGED <<pr, pa, plan, hist>>
    BY <1>6 DEF ClearTaking, WAt, OnlyWorker
  <2>2. PICK to \in {"run", "beforePark", "exited", "spin"} :
          W(w, to) /\ (to = "run" => wk[w].job # NoJob)
    BY <1>6 DEF ClearTaking
  <2>3. /\ wk' \in [Worker -> WorkerType]
        /\ wk'[w].pc = to /\ wk'[w].job = wk[w].job
        /\ \A v \in Worker \ {w} : wk'[v] = wk[v]
    BY <2>2, <1>w, WorkerMoves DEF WorkerPc
  <2>4. pool' \in PoolType
    BY <2>1, <1>p DEF PoolType
  <2>5. /\ pool'.taking = pool.taking \ {w} /\ pool'.queue = pool.queue
        /\ pool'.paused = pool.paused /\ pool'.state = pool.state
    BY <2>1, <1>p DEF PoolType
  <2>6. Types'
    BY <1>0, <2>1, <2>2, <2>3, <2>4 DEF Types
  <2>7. Handshake'
    BY SMTT(30), <1>0, <2>1, <2>2, <2>3, <2>5 DEF Handshake, Passed, Running, InTake
  <2> QED
    BY <2>1, <2>3, <2>5, <2>6, <2>7, SameJobsKeep DEF Running
<1> QED
  BY <1>1, <1>2, <1>3, <1>4, <1>5, <1>6

(* The pop: only a worker that pause has not passed, or one of a pool that is *)
(* being shut down, can be there.                                             *)
LEMMA PopKeeps == ASSUME PauseInv, NEW w \in Worker, Pop(w) PROVE PauseInv'
<1>0. Types /\ Fresh /\ Handshake /\ PauseHolds
  BY DEF PauseInv
<1>p. pool \in PoolType
  BY <1>0 DEF Types
<1>w. wk \in [Worker -> WorkerType]
  BY <1>0 DEF Types
<1>1. wk[w].pc = "pop" /\ UNCHANGED <<pr, pa, plan, hist>>
  BY DEF Pop, WAt, OnlyWorker
<1>2. CASE pool.queue = <<>>
  <2>1. W(w, "clear") /\ UNCHANGED pool
    BY <1>2 DEF Pop
  <2>2. /\ wk' \in [Worker -> WorkerType]
        /\ wk'[w].pc = "clear" /\ wk'[w].job = wk[w].job
        /\ \A v \in Worker \ {w} : wk'[v] = wk[v]
    BY <2>1, <1>w, WorkerMoves DEF WorkerPc
  <2>3. Types'
    BY <1>0, <1>1, <2>1, <2>2 DEF Types
  <2>4. Handshake'
    BY <1>0, <1>1, <2>1, <2>2 DEF Handshake, Passed, Running, InTake
  <2> QED
    BY <1>1, <2>1, <2>2, <2>3, <2>4, SameJobsKeep DEF Running
<1>3. CASE pool.queue # <<>>
  <2>1. /\ wk' = [wk EXCEPT ![w].job = Head(pool.queue), ![w].pc = "started"]
        /\ pool' = [pool EXCEPT !.queue = Tail(pool.queue)]
    BY <1>3 DEF Pop
  <2>2. pool.queue \in Seq(JobId)
    BY <1>p DEF PoolType
  <2>3. /\ Head(pool.queue) \in JobId /\ Head(pool.queue) = pool.queue[1]
        /\ Len(pool.queue) \in Nat /\ 1 \in 1..Len(pool.queue)
        /\ Tail(pool.queue) \in Seq(JobId) /\ Len(Tail(pool.queue)) = Len(pool.queue) - 1
        /\ \A i \in 1..Len(Tail(pool.queue)) : Tail(pool.queue)[i] = pool.queue[i + 1]
    BY SMTT(30), <1>3, <2>2
  <2>4. pool' \in PoolType
    BY <1>p, <2>1, <2>3, QueueMoves
  <2>5. /\ pool'.taking = pool.taking /\ pool'.queue = Tail(pool.queue)
        /\ pool'.paused = pool.paused /\ pool'.state = pool.state
    BY <1>p, <2>1 DEF PoolType
  <2>6. /\ wk' \in [Worker -> WorkerType]
        /\ wk'[w].pc = "started" /\ wk'[w].job = Head(pool.queue)
        /\ \A v \in Worker \ {w} : wk'[v] = wk[v]
    <3>1. wk' = [wk EXCEPT ![w] = [wk[w] EXCEPT !.job = Head(pool.queue), !.pc = "started"]]
      BY <1>w, <2>1
    <3>2. wk[w] \in WorkerType
      BY <1>w
    <3>3. ASSUME NEW j \in JobId
          PROVE  /\ [wk[w] EXCEPT !.job = j, !.pc = "started"] \in WorkerType
                 /\ [wk[w] EXCEPT !.job = j, !.pc = "started"].pc = "started"
                 /\ [wk[w] EXCEPT !.job = j, !.pc = "started"].job = j
      BY <3>2 DEF WorkerType, WorkerPc
    <3>4. /\ [wk[w] EXCEPT !.job = Head(pool.queue), !.pc = "started"] \in WorkerType
          /\ [wk[w] EXCEPT !.job = Head(pool.queue), !.pc = "started"].pc = "started"
          /\ [wk[w] EXCEPT !.job = Head(pool.queue), !.pc = "started"].job = Head(pool.queue)
      BY <2>3, <3>3
    <3> QED
      BY <1>w, <3>1, <3>4
  <2>7. Types'
    BY <1>0, <1>1, <2>4, <2>6 DEF Types
  <2>8. Fresh'
    <3>1. Old(Head(pool.queue))
      BY <1>0, <2>3 DEF Fresh
    <3>2. \A i \in 1..Len(pool'.queue) : Old(pool'.queue[i])
      <4> SUFFICES ASSUME NEW i \in 1..Len(Tail(pool.queue)) PROVE Old(Tail(pool.queue)[i])
        BY <2>5
      <4>1. i + 1 \in 1..Len(pool.queue) /\ Tail(pool.queue)[i] = pool.queue[i + 1]
        BY SMTT(30), <2>3
      <4> QED
        BY <1>0, <4>1 DEF Fresh
    <3>3. \A v \in Worker : wk'[v].job # NoJob => Old(wk'[v].job)
      BY <1>0, <2>6, <3>1 DEF Fresh
    <3> QED
      BY <1>0, <1>1, <3>2, <3>3 DEF Fresh, Old
  <2>9. Handshake'
    BY <1>0, <1>1, <2>5, <2>6 DEF Handshake, Passed, Running, InTake
  <2>10. ~(pa.pc = "held" /\ Running)
    <3>1. plan.workers \in Int /\ w \in Int
      BY SMTT(30), <1>0, PlansAssumption DEF Types, PlanType, Worker
    <3> QED
      BY SMTT(30), <1>0, <1>1, <3>1 DEF Handshake, Passed
  <2>11. PauseHolds'
    BY <1>1, <2>5, <2>10 DEF PauseHolds, Running
  <2> QED
    BY <2>7, <2>8, <2>9, <2>11 DEF PauseInv
<1> QED
  BY <1>2, <1>3

(* The job runs: it was in the hand already. *)
LEMMA RunKeeps == ASSUME PauseInv, NEW w \in Worker, RunJob(w) PROVE PauseInv'
<1>0. Types /\ Fresh /\ Handshake /\ PauseHolds
  BY DEF PauseInv
<1>w. wk \in [Worker -> WorkerType]
  BY <1>0 DEF Types
<1>h. hist \in HistType
  BY <1>0 DEF Types
<1>1. /\ wk[w].pc = "run" /\ hist' = [hist EXCEPT !.ran = @ \union {wk[w].job}]
      /\ wk' = [wk EXCEPT ![w].job = NoJob, ![w].pc = "complete"]
      /\ UNCHANGED <<pool, pr, pa, plan>>
  BY DEF RunJob, WAt, OnlyWorker
<1>2. /\ wk' \in [Worker -> WorkerType]
      /\ wk'[w].pc = "complete" /\ wk'[w].job = NoJob
      /\ \A v \in Worker \ {w} : wk'[v] = wk[v]
  BY SMTT(30), <1>w, <1>1 DEF WorkerType, WorkerPc
<1>3. wk[w].job \in JobId /\ Old(wk[w].job)
  <2>1. wk[w].job # NoJob
    BY <1>0, <1>1 DEF Types
  <2>2. wk[w].job \in JobId \union {NoJob}
    BY <1>w DEF WorkerType
  <2> QED
    BY <1>0, <2>1, <2>2 DEF Fresh
<1>4. /\ hist' \in HistType /\ hist'.ran = hist.ran \union {wk[w].job}
      /\ hist'.late = hist.late
  BY <1>h, <1>1, <1>3 DEF HistType
<1>5. Types'
  BY <1>0, <1>1, <1>2, <1>4 DEF Types
<1>6. Fresh'
  <2>1. \A v \in Worker : wk'[v].job # NoJob => Old(wk'[v].job)
    BY <1>0, <1>2 DEF Fresh
  <2>2. \A j \in hist'.ran : Old(j)
    BY <1>0, <1>3, <1>4 DEF Fresh
  <2> QED
    BY <1>0, <1>1, <2>1, <2>2 DEF Fresh, Old
<1>7. Handshake'
  BY <1>0, <1>1, <1>2, <1>4 DEF Handshake, Passed, Running, InTake
<1>8. PauseHolds'
  <2>1. NoJob \notin hist.late
    BY <1>h, NoJobIsNoJobId DEF HistType
  <2> QED
    BY SMTT(30), <1>0, <1>1, <1>2, <1>4, <2>1 DEF PauseHolds, Running
<1> QED
  BY <1>5, <1>6, <1>7, <1>8 DEF PauseInv

(* submit takes a number its producer has not used: the job is new. *)
LEMMA SubmitKeeps == ASSUME PauseInv, NEW p \in Producer, Submit(p) PROVE PauseInv'
<1>0. Types /\ Fresh /\ Handshake /\ PauseHolds
  BY DEF PauseInv
<1>r. pr \in [Producer -> ProducerType]
  BY <1>0 DEF Types
<1>n. plan \in PlanType
  BY <1>0 DEF Types
<1>h. hist \in HistType
  BY <1>0 DEF Types
<1>1. /\ plan' = [plan EXCEPT !.submits[p] = @ - 1] /\ plan.submits[p] > 0
      /\ pr' = [pr EXCEPT ![p] = [pc |-> "state", job |-> NextJob(p)]]
      /\ hist' = [hist EXCEPT !.late = IF pa.pc = "held" THEN @ \union {NextJob(p)} ELSE @]
      /\ UNCHANGED <<pool, wk, pa>>
  BY DEF Submit
<1>2. plan.submits \in [Producer -> Nat] /\ plan.submits[p] \in Nat
  BY <1>n DEF PlanType
<1>3. NextJob(p) \in JobId /\ NextJob(p)[1] = p /\ NextJob(p)[2] = plan.submits[p]
  BY <1>2 DEF NextJob, JobId
<1>4. /\ plan' \in PlanType /\ plan'.workers = plan.workers
      /\ plan'.submits = [plan.submits EXCEPT ![p] = @ - 1]
  BY SMTT(30), <1>n, <1>1, <1>2 DEF PlanType
<1>5. /\ pr' \in [Producer -> ProducerType] /\ pr'[p].job = NextJob(p)
      /\ \A q \in Producer \ {p} : pr'[q] = pr[q]
  BY <1>r, <1>1, <1>3 DEF ProducerType, ProducerPc
<1>6. /\ hist' \in HistType /\ hist'.ran = hist.ran
      /\ hist'.late = IF pa.pc = "held" THEN hist.late \union {NextJob(p)} ELSE hist.late
  BY <1>h, <1>1, <1>3 DEF HistType
<1>7. Types'
  BY <1>0, <1>1, <1>3, <1>4, <1>5, <1>6 DEF Types
<1>8. ASSUME NEW j \in JobId, Old(j) PROVE Old(j)' /\ j # NextJob(p)
  <2>1. j[1] \in Producer /\ j[2] \in Nat
    BY DEF JobId
  <2>2. plan'.submits[j[1]] <= plan.submits[j[1]]
    BY SMTT(30), <1>2, <1>4, <2>1
  <2>3. plan'.submits[j[1]] \in Nat /\ plan.submits[j[1]] \in Nat
    BY <1>2, <1>4, <2>1 DEF PlanType
  <2> QED
    BY SMTT(30), <1>3, <1>8, <2>1, <2>2, <2>3 DEF Old
<1>9. plan'.submits[NextJob(p)[1]] < NextJob(p)[2]
  BY SMTT(30), <1>2, <1>3, <1>4
<1>10. /\ \A w \in Worker : wk[w].job \in JobId \union {NoJob}
       /\ \A i \in 1..Len(pool.queue) : pool.queue[i] \in JobId
       /\ hist.ran \subseteq JobId
       /\ \A q \in Producer : pr[q].pc # "out" => pr[q].job \in JobId
  BY SMTT(30), <1>0 DEF Types, WorkerType, PoolType, HistType
<1>11. Fresh'
  <2>1. \A j \in hist'.ran : Old(j)'
    BY <1>0, <1>6, <1>8, <1>10 DEF Fresh
  <2>2. \A w \in Worker : wk'[w].job # NoJob => Old(wk[w].job)'
    BY <1>0, <1>1, <1>8, <1>10 DEF Fresh
  <2>3. \A i \in 1..Len(pool'.queue) : Old(pool.queue[i])'
    BY <1>0, <1>1, <1>8, <1>10 DEF Fresh
  <2>4. \A q \in Producer : pr'[q].pc # "out" => Old(pr[q].job)'
    <3> SUFFICES ASSUME NEW q \in Producer, pr'[q].pc # "out" PROVE Old(pr[q].job)'
      OBVIOUS
    <3>1. CASE q = p
      BY <1>5, <1>9, <3>1 DEF Old
    <3>2. CASE q # p
      <4>1. pr'[q] = pr[q] /\ pr[q].pc # "out"
        BY <1>5, <3>2
      <4>2. plan.submits[pr[q].job[1]] < pr[q].job[2] /\ pr[q].job \in JobId
        BY <1>0, <1>10, <4>1 DEF Fresh, Old
      <4>3. Old(pr[q].job) /\ pr[q].job \in JobId
        BY <4>2 DEF Old
      <4>4. plan'.submits[pr[q].job[1]] < pr[q].job[2]
        BY <4>3, <1>8 DEF Old
      <4> QED
        BY <4>1, <4>4 DEF Old
    <3> QED
      BY <3>1, <3>2
  <2> QED
    BY <2>1, <2>2, <2>3, <2>4 DEF Fresh
<1>12. Handshake'
  BY <1>0, <1>1, <1>4, <1>6 DEF Handshake, Passed, Running, InTake
<1>13. PauseHolds'
  <2>1. NextJob(p) \notin hist.ran
    BY <1>0, <1>8, <1>10 DEF Fresh
  <2>2. \A w \in Worker : wk[w].job # NextJob(p)
    BY <1>0, <1>3, <1>8, <1>10, NoJobIsNoJobId DEF Fresh
  <2> QED
    BY SMTT(30), <1>0, <1>1, <1>6, <2>1, <2>2 DEF PauseHolds, Running
<1> QED
  BY <1>7, <1>11, <1>12, <1>13 DEF PauseInv

(* The push puts the producer's job on the queue. *)
LEMMA PushKeeps == ASSUME PauseInv, NEW p \in Producer, Push(p) PROVE PauseInv'
<1>0. Types /\ Fresh /\ Handshake /\ PauseHolds
  BY DEF PauseInv
<1>p. pool \in PoolType
  BY <1>0 DEF Types
<1>r. pr \in [Producer -> ProducerType]
  BY <1>0 DEF Types
<1>1. /\ pr[p].pc = "push" /\ pr' = [pr EXCEPT ![p].pc = "notify"]
      /\ pool' = [pool EXCEPT !.queue = Append(pool.queue, pr[p].job)]
      /\ UNCHANGED <<wk, pa, plan, hist>>
  BY DEF Push, PUpdate, PAt, P, OnlyProducer
<1>2. pr[p].job \in JobId /\ Old(pr[p].job)
  BY <1>0, <1>1 DEF Types, Fresh
<1>3. pool.queue \in Seq(JobId)
  BY <1>p DEF PoolType
<1>4. /\ Append(pool.queue, pr[p].job) \in Seq(JobId)
      /\ Len(pool.queue) \in Nat
      /\ Len(Append(pool.queue, pr[p].job)) = Len(pool.queue) + 1
      /\ Append(pool.queue, pr[p].job)[Len(pool.queue) + 1] = pr[p].job
      /\ \A i \in 1..Len(pool.queue) : Append(pool.queue, pr[p].job)[i] = pool.queue[i]
  BY SMTT(30), <1>2, <1>3
<1>5. pool' \in PoolType
  BY <1>p, <1>1, <1>4, QueueMoves
<1>6. /\ pool'.taking = pool.taking /\ pool'.queue = Append(pool.queue, pr[p].job)
      /\ pool'.paused = pool.paused /\ pool'.state = pool.state
  BY <1>p, <1>1 DEF PoolType
<1>7. /\ pr' \in [Producer -> ProducerType]
      /\ \A q \in Producer : pr'[q].job = pr[q].job /\ (pr'[q].pc # "out" => pr[q].pc # "out")
  BY <1>r, <1>1 DEF ProducerType, ProducerPc
<1>8. Types'
  BY <1>0, <1>1, <1>5, <1>7 DEF Types
<1>9. Fresh'
  <2>1. \A i \in 1..Len(pool'.queue) : Old(pool'.queue[i])
    <3> SUFFICES ASSUME NEW i \in 1..(Len(pool.queue) + 1)
                 PROVE  Old(Append(pool.queue, pr[p].job)[i])
      BY <1>4, <1>6
    <3>1. CASE i \in 1..Len(pool.queue)
      BY <1>0, <1>4, <3>1 DEF Fresh
    <3>2. CASE i = Len(pool.queue) + 1
      BY <1>2, <1>4, <3>2
    <3> QED
      BY SMTT(30), <1>4, <3>1, <3>2
  <2> QED
    BY <1>0, <1>1, <1>7, <2>1 DEF Fresh, Old
<1>10. Handshake'
  BY <1>0, <1>1, <1>6 DEF Handshake, Passed, Running, InTake
<1>11. PauseHolds'
  BY <1>0, <1>1, <1>6 DEF PauseHolds, Running
<1> QED
  BY <1>8, <1>9, <1>10, <1>11 DEF PauseInv

(* pause and resume.  pause passes a worker only outside takeJob, and returns *)
(* when it has passed every worker that was spawned.                          *)
LEMMA PauserKeeps == ASSUME PauseInv, CallPause \/ PauserStep PROVE PauseInv'
<1>0. Types /\ Handshake
  BY DEF PauseInv
<1>p. pool \in PoolType
  BY <1>0 DEF Types
<1>w. wk \in [Worker -> WorkerType]
  BY <1>0 DEF Types
<1>n. plan \in PlanType
  BY <1>0 DEF Types
<1>a. pa \in [pc : PauserPc, next : Int]
  BY <1>0 DEF Types
<1>i. plan.workers \in Int /\ \A w \in Worker : w \in Int /\ w >= 1
  BY SMTT(30), <1>n, PlansAssumption DEF PlanType, Worker
<1>1. CASE CallPause
  <2>1. /\ pool' = [pool EXCEPT !.paused = TRUE] /\ pa' = [pc |-> "waiting", next |-> 1]
        /\ plan' = [plan EXCEPT !.pause = FALSE] /\ pa.pc = "out"
        /\ UNCHANGED <<wk, pr, hist>>
    BY <1>1 DEF CallPause, OnlyPauser
  <2>2. plan' \in PlanType /\ plan'.workers = plan.workers /\ plan'.submits = plan.submits
    BY <1>n, <2>1 DEF PlanType
  <2>3. pool' \in PoolType
    BY <1>p, <2>1 DEF PoolType
  <2>4. /\ pool'.taking = pool.taking /\ pool'.queue = pool.queue
        /\ pool'.paused /\ pool'.state = pool.state
    BY <1>p, <2>1 DEF PoolType
  <2>5. Types'
    BY SMTT(30), <1>0, <2>1, <2>2, <2>3 DEF Types, PauserPc
  <2>6. Handshake'
    BY SMTT(30), <1>0, <1>i, <2>1, <2>2, <2>4 DEF Handshake, Passed, Running, InTake
  <2> QED
    BY <2>1, <2>2, <2>4, <2>5, <2>6, SameJobsKeep DEF Running
<1>2. CASE PausePasses
  <2>1. /\ pa.pc = "waiting" /\ pa.next \notin pool.taking
        /\ pa' = IF pa.next = plan.workers THEN [pc |-> "held", next |-> 0]
                 ELSE [pa EXCEPT !.next = @ + 1]
        /\ UNCHANGED <<pool, wk, pr, plan, hist>>
    BY <1>2 DEF PausePasses, OnlyPauser
  <2>2. /\ pa' \in [pc : PauserPc, next : Int]
        /\ \/ pa'.pc = "held" /\ pa.next = plan.workers
           \/ pa'.pc = "waiting" /\ pa'.next = pa.next + 1
    BY SMTT(30), <1>a, <2>1 DEF PauserPc
  <2>3. Types'
    BY <1>0, <2>1, <2>2 DEF Types
  <2>4. \A w \in Worker : Passed(w)' => Passed(w) \/ w = pa.next
    BY SMTT(30), <1>a, <1>i, <2>1, <2>2 DEF Passed
  <2>5. Handshake'
    BY <1>0, <2>1, <2>2, <2>4 DEF Handshake, Running, InTake
  <2>6. hist.late = {}
    BY <1>0, <2>1 DEF Handshake
  <2> QED
    BY <2>1, <2>3, <2>5, <2>6, SameJobsKeep DEF Running
<1>3. CASE CallResume
  <2>1. /\ pool' = [pool EXCEPT !.paused = FALSE] /\ pa' = [pa EXCEPT !.pc = "bump"]
        /\ UNCHANGED <<wk, pr, plan, hist>>
    BY <1>3 DEF CallResume, OnlyPauser
  <2>2. pa' \in [pc : PauserPc, next : Int] /\ pa'.pc = "bump"
    BY <1>a, <2>1 DEF PauserPc
  <2>3. pool' \in PoolType
    BY <1>p, <2>1 DEF PoolType
  <2>4. pool'.taking = pool.taking /\ pool'.queue = pool.queue /\ pool'.state = pool.state
    BY <1>p, <2>1 DEF PoolType
  <2>5. Types'
    BY <1>0, <2>1, <2>2, <2>3 DEF Types
  <2>6. Handshake'
    BY <1>0, <2>1, <2>2, <2>4 DEF Handshake, Passed, Running, InTake
  <2> QED
    BY <2>1, <2>2, <2>4, <2>5, <2>6, SameJobsKeep DEF Running
<1>4. CASE ResumeBump
  <2>1. /\ pool' = [pool EXCEPT !.notify = @ + 1] /\ pa' = [pa EXCEPT !.pc = "wakeAll"]
        /\ UNCHANGED <<wk, pr, plan, hist>>
    BY <1>4 DEF ResumeBump, OnlyPauser
  <2>2. pa' \in [pc : PauserPc, next : Int] /\ pa'.pc = "wakeAll"
    BY <1>a, <2>1 DEF PauserPc
  <2>3. pool' \in PoolType
    BY <1>p, <2>1, CountersMove
  <2>4. pool'.taking = pool.taking /\ pool'.queue = pool.queue /\ pool'.state = pool.state
    BY <1>p, <2>1 DEF PoolType
  <2>5. Types'
    BY <1>0, <2>1, <2>2, <2>3 DEF Types
  <2>6. Handshake'
    BY <1>0, <2>1, <2>2, <2>4 DEF Handshake, Passed, Running, InTake
  <2> QED
    BY <2>1, <2>2, <2>4, <2>5, <2>6, SameJobsKeep DEF Running
<1>5. CASE ResumeWake
  <2>1. /\ wk' = Awaken(Asleep) /\ pa' = [pa EXCEPT !.pc = "resumed"]
        /\ UNCHANGED <<pool, pr, plan, hist>>
    BY <1>5 DEF ResumeWake, OnlyPauser
  <2>2. pa' \in [pc : PauserPc, next : Int] /\ pa'.pc = "resumed"
    BY <1>a, <2>1 DEF PauserPc
  <2>3. wk' \in [Worker -> WorkerType]
    BY SMTT(30), <1>w, <2>1 DEF Awaken, Asleep, WorkerType, WorkerPc
  <2>4. \A w \in Worker : /\ wk'[w].job = wk[w].job
                          /\ \/ wk'[w].pc = wk[w].pc
                             \/ wk[w].pc = "asleep" /\ wk'[w].pc = "woken"
    BY <1>w, <2>1 DEF Awaken, Asleep, WorkerType
  <2>5. Types'
    BY <1>0, <2>1, <2>2, <2>3, <2>4 DEF Types
  <2>6. Handshake'
    BY <1>0, <2>1, <2>2, <2>4 DEF Handshake, Passed, Running, InTake
  <2> QED
    BY <2>1, <2>2, <2>4, <2>5, <2>6, SameJobsKeep DEF Running
<1> QED
  BY <1>1, <1>2, <1>3, <1>4, <1>5 DEF PauserStep

(* A pool just opened. *)
LEMMA InitHolds == Init => PauseInv
<1> SUFFICES ASSUME Init PROVE PauseInv
  OBVIOUS
<1>1. plan \in PlanType /\ plan.workers \in Int /\ \A w \in Worker : w \in Int
  BY SMTT(30), PlansAssumption DEF Init, PlanType, Worker
<1>2. pool \in PoolType
  BY SMTT(30) DEF Init, PoolType, State
<1>3. wk \in [Worker -> WorkerType]
  BY SMTT(30) DEF Init, WorkerType, WorkerPc, State
<1>4. pr \in [Producer -> ProducerType] /\ \A p \in Producer : pr[p].pc = "out"
  BY DEF Init, ProducerType, ProducerPc
<1>5. hist \in HistType /\ hist.ran = {} /\ hist.late = {}
  BY DEF Init, HistType
<1>6. /\ \A w \in Worker : wk[w].pc \in {"top", "exited"} /\ wk[w].job = NoJob
      /\ \A w \in Worker : plan.workers < w => wk[w].pc = "exited"
      /\ pa = [pc |-> "out", next |-> 0] /\ pool.queue = <<>>
  BY SMTT(30), <1>1 DEF Init
<1>7. Types
  BY SMTT(30), <1>1, <1>2, <1>3, <1>4, <1>5, <1>6 DEF Types, PauserPc
<1>8. Fresh
  BY SMTT(30), <1>4, <1>5, <1>6 DEF Fresh
<1>9. Handshake
  BY <1>5, <1>6 DEF Handshake, InTake, Passed
<1>10. PauseHolds
  BY <1>6 DEF PauseHolds
<1> QED
  BY <1>7, <1>8, <1>9, <1>10 DEF PauseInv

(* Every step keeps the invariant. *)
LEMMA StepKeeps == PauseInv /\ [Next]_vars => PauseInv'
<1> SUFFICES ASSUME PauseInv, [Next]_vars PROVE PauseInv'
  OBVIOUS
<1>1. ASSUME NEW w \in Worker, WorkerStep(w) \/ SpuriousWake(w) PROVE PauseInv'
  BY <1>1, QuietWorker, TakeKeeps, PopKeeps, RunKeeps DEF WorkerStep
<1>2. ASSUME NEW p \in Producer, Submit(p) \/ ProducerStep(p) PROVE PauseInv'
  BY <1>2, QuietProducer, SubmitKeeps, PushKeeps DEF ProducerStep
<1>3. CASE UNCHANGED vars
  <2>1. UNCHANGED <<pool, wk, pr, plan, hist, pa>>
    BY <1>3 DEF vars
  <2>2. Types
    BY DEF PauseInv
  <2> QED
    BY <2>1, <2>2, StillIsQuiet, QuietKeeps DEF Quiet
<1> QED
  BY <1>1, <1>2, <1>3, QuietOthers, PauserKeeps DEF Next

(* pause keeps its promise (root.zig, pause): once it has returned, no job    *)
(* submitted afterwards starts before resume or a shutdown, for every number  *)
(* of workers and producers and every plan.                                   *)
THEOREM PauseSafe == Spec => []PauseHolds
<1>1. Init => PauseInv
  BY InitHolds
<1>2. PauseInv /\ [Next]_vars => PauseInv'
  BY StepKeeps
<1>3. PauseInv => PauseHolds
  BY DEF PauseInv
<1> QED
  BY <1>1, <1>2, <1>3, PTL DEF Spec

-----------------------------------------------------------------------------
(* The bound *)

HoldingPc == {"started", "release"}
Holding == {w \in Worker : wk[w].pc \in HoldingPc}

ReservingPc == {"count", "push", "withdraw", "unreserve"}
Reserving == {p \in Producer : pr[p].pc \in ReservingPc}

(* The inductive invariant, beside the types. *)
SlotsAccounted ==
  MaxQueued # 0 =>
    /\ pool.queued <= MaxQueued
    /\ pool.queued = Len(pool.queue) + Cardinality(Holding) + Cardinality(Reserving)

(* What most steps do: move no job and no slot. *)
SamePool == pool'.queued = pool.queued /\ pool'.queue = pool.queue
SameWorkers == \A w \in Worker : wk'[w].pc \in HoldingPc <=> wk[w].pc \in HoldingPc
SameProducers == \A p \in Producer : pr'[p].pc \in ReservingPc <=> pr[p].pc \in ReservingPc
SameBound == plan'.max_queued = plan.max_queued

LEMMA Finite ==
  /\ IsFiniteSet(Holding) /\ Cardinality(Holding) \in Nat
  /\ IsFiniteSet(Reserving) /\ Cardinality(Reserving) \in Nat
<1>1. IsFiniteSet(Worker)
  BY SMTT(30), PlansAssumption, FS_Interval DEF Worker
<1>2. IsFiniteSet(Holding)
  BY <1>1, FS_Subset DEF Holding
<1>3. IsFiniteSet(Reserving)
  BY ProducersAssumption, FS_Subset DEF Reserving
<1> QED
  BY <1>2, <1>3, FS_CardinalityType

LEMMA SameKeeps ==
  ASSUME SlotsAccounted, SamePool, SameWorkers, SameProducers, SameBound
  PROVE  SlotsAccounted'
<1>1. Holding' = Holding
  BY DEF SameWorkers, Holding
<1>2. Reserving' = Reserving
  BY DEF SameProducers, Reserving
<1> QED
  BY <1>1, <1>2 DEF SlotsAccounted, SamePool, SameBound, MaxQueued

(* What does not change moves nothing. *)
LEMMA StillIsSame ==
  /\ UNCHANGED pool => SamePool
  /\ UNCHANGED wk => SameWorkers
  /\ UNCHANGED pr => SameProducers
  /\ UNCHANGED plan => SameBound
  BY DEF SamePool, SameWorkers, SameProducers, SameBound

(* One worker moves from outside HoldingPc to outside it. *)
LEMMA WorkerOutside ==
  ASSUME wk \in [Worker -> WorkerType], NEW w \in Worker, NEW c, W(w, c),
         wk[w].pc \notin HoldingPc, c \notin HoldingPc
  PROVE  SameWorkers
  BY DEF W, SameWorkers, WorkerType

(* Waking sleepers moves none of them either. *)
LEMMA AwakenSame ==
  ASSUME wk \in [Worker -> WorkerType], NEW S \in SUBSET Asleep, wk' = Awaken(S)
  PROVE  SameWorkers
<1> SUFFICES ASSUME NEW w \in Worker
             PROVE  wk'[w].pc \in HoldingPc <=> wk[w].pc \in HoldingPc
  BY DEF SameWorkers
<1>1. CASE w \in S
  <2>1. wk[w].pc = "asleep"
    BY <1>1 DEF Asleep
  <2>2. wk'[w] = [wk[w] EXCEPT !.pc = "woken"]
    BY <1>1 DEF Awaken
  <2>3. wk'[w].pc = "woken"
    BY <2>2 DEF WorkerType
  <2> QED
    BY <2>1, <2>3 DEF HoldingPc
<1>2. CASE w \notin S
  BY <1>2 DEF Awaken
<1> QED
  BY <1>1, <1>2

(* One producer moves from outside ReservingPc to outside it, or within it. *)
LEMMA ProducerMoves ==
  ASSUME pr \in [Producer -> ProducerType], NEW p \in Producer, NEW c, P(p, c),
         pr[p].pc \in ReservingPc <=> c \in ReservingPc
  PROVE  SameProducers
  BY DEF P, SameProducers, ProducerType

LEMMA ProducerLeaves ==
  ASSUME pr \in [Producer -> ProducerType], NEW p \in Producer, Returns(p),
         pr[p].pc \notin ReservingPc
  PROVE  SameProducers
  BY DEF Returns, Out, SameProducers, ProducerType, ReservingPc

----------------------------------------------------------------------------
(* Steps of workers that look at something and branch. *)
LEMMA LookKeeps ==
  ASSUME PauseInv, SlotsAccounted, NEW w \in Worker,
         IsPaused(w) \/ ConfirmState(w) \/ ConfirmPause(w) \/
         TakePaused(w) \/ TakeState(w) \/ AnyWaiter(w) \/ LastDone(w) \/
         AnyParked(w) \/ BeforePark(w) \/ Park(w)
  PROVE  SlotsAccounted'
<1>1. UNCHANGED <<pool, pr, plan>>
  BY DEF IsPaused, ConfirmState, ConfirmPause, TakePaused, TakeState,
         AnyWaiter, LastDone, AnyParked, BeforePark, Park, Look, Looks,
         OnlyWorker
<1>2. wk[w].pc \notin HoldingPc /\ \E c : W(w, c) /\ c \notin HoldingPc
  <2>1. CASE IsPaused(w)
    BY SMTT(30), <2>1 DEF IsPaused, Look, WAt, HoldingPc
  <2>2. CASE ConfirmState(w)
    BY SMTT(30), <2>2 DEF ConfirmState, Look, WAt, HoldingPc
  <2>3. CASE ConfirmPause(w)
    BY SMTT(30), <2>3 DEF ConfirmPause, Look, WAt, HoldingPc
  <2>4. CASE TakePaused(w)
    BY SMTT(30), <2>4 DEF TakePaused, Look, WAt, HoldingPc
  <2>5. CASE TakeState(w)
    BY SMTT(30), <2>5 DEF TakeState, Look, WAt, HoldingPc
  <2>6. CASE AnyWaiter(w)
    BY SMTT(30), <2>6 DEF AnyWaiter, Look, WAt, HoldingPc
  <2>7. CASE LastDone(w)
    BY SMTT(30), <2>7 DEF LastDone, Look, WAt, HoldingPc
  <2>8. CASE AnyParked(w)
    BY SMTT(30), <2>8 DEF AnyParked, Look, WAt, HoldingPc
  <2>9. CASE BeforePark(w)
    BY SMTT(30), <2>9 DEF BeforePark, Look, WAt, HoldingPc
  <2>10. CASE Park(w)
    BY SMTT(30), <2>10 DEF Park, Look, WAt, HoldingPc
  <2> QED
    BY SMTT(30), <2>1, <2>2, <2>3, <2>4, <2>5, <2>6, <2>7, <2>8, <2>9, <2>10
<1>3. SameWorkers
  BY <1>2, WorkerOutside DEF PauseInv, Types
<1> QED
  BY <1>1, <1>3, StillIsSame, SameKeeps

(* Steps of workers that move a counter or `taking`. *)
LEMMA UpdateKeeps ==
  ASSUME PauseInv, SlotsAccounted, NEW w \in Worker,
         Taking(w) \/ BumpDone(w) \/ CountIdle(w) \/ Woken(w)
  PROVE  SlotsAccounted'
<1>p. pool \in PoolType
  BY DEF PauseInv, Types
<1>1. SamePool /\ UNCHANGED <<pr, plan>>
  BY <1>p DEF Taking, BumpDone, CountIdle, Woken, Update, OnlyWorker, SamePool, PoolType
<1>2. wk[w].pc \notin HoldingPc /\ \E c : W(w, c) /\ c \notin HoldingPc
  BY SMTT(30) DEF Taking, BumpDone, CountIdle, Woken, Update, WAt, HoldingPc
<1>3. SameWorkers
  BY <1>2, WorkerOutside DEF PauseInv, Types
<1> QED
  BY <1>1, <1>3, StillIsSame, SameKeeps

(* Steps of workers that also set a local. *)
LEMMA LocalKeeps ==
  ASSUME PauseInv, SlotsAccounted, NEW w \in Worker,
         TopOfLoop(w) \/ PauseSnapshot(w) \/ Snapshot(w) \/
         SpinSnapshot(w) \/ RunJob(w) \/ Complete(w)
  PROVE  SlotsAccounted'
<1>p. pool \in PoolType /\ wk \in [Worker -> WorkerType]
  BY DEF PauseInv, Types
<1>1. SamePool /\ UNCHANGED <<pr, plan>>
  BY <1>p DEF TopOfLoop, PauseSnapshot, Snapshot, SpinSnapshot, RunJob,
              Complete, Looks, OnlyWorker, SamePool, PoolType
<1>2. SameWorkers
  <2>1. CASE TopOfLoop(w)
    BY SMTT(30), <2>1, <1>p DEF TopOfLoop, WAt, HoldingPc, SameWorkers, WorkerType
  <2>2. CASE PauseSnapshot(w)
    BY <2>2, <1>p DEF PauseSnapshot, WAt, HoldingPc, SameWorkers, WorkerType
  <2>3. CASE Snapshot(w)
    BY <2>3, <1>p DEF Snapshot, WAt, HoldingPc, SameWorkers, WorkerType
  <2>4. CASE SpinSnapshot(w)
    BY <2>4, <1>p DEF SpinSnapshot, WAt, HoldingPc, SameWorkers, WorkerType
  <2>5. CASE RunJob(w)
    BY SMTT(30), <2>5, <1>p DEF RunJob, WAt, HoldingPc, SameWorkers, WorkerType
  <2>6. CASE Complete(w)
    BY SMTT(30), <2>6, <1>p DEF Complete, WAt, HoldingPc, SameWorkers, WorkerType
  <2> QED
    BY <2>1, <2>2, <2>3, <2>4, <2>5, <2>6
<1> QED
  BY <1>1, <1>2, StillIsSame, SameKeeps

(* The other steps of workers that leave the account alone. *)
LEMMA WorkerKeeps ==
  ASSUME PauseInv, SlotsAccounted, NEW w \in Worker,
         ClearTaking(w) \/ Started(w) \/ WakeWaiter(w) \/ SpinUntilChanged(w) \/ SpuriousWake(w)
  PROVE  SlotsAccounted'
<1>p. pool \in PoolType /\ wk \in [Worker -> WorkerType] /\ plan \in PlanType
  BY DEF PauseInv, Types
<1>1. SamePool /\ UNCHANGED pr
  BY <1>p DEF ClearTaking, Started, Update, WakeWaiter, SpinUntilChanged, SpuriousWake, Looks,
     OnlyWorker, SamePool, PoolType
<1>2. SameBound
  BY <1>p DEF ClearTaking, Started, Update, WakeWaiter, SpinUntilChanged, SpuriousWake, Looks,
     OnlyWorker, SameBound, PlanType
<1>3. SameWorkers
  <2>1. CASE ClearTaking(w)
    <3>1. wk[w].pc \notin HoldingPc /\ \E c : W(w, c) /\ c \notin HoldingPc
      BY SMTT(30), <2>1 DEF ClearTaking, WAt, HoldingPc
    <3> QED
      BY <3>1, <1>p, WorkerOutside
  <2>2. CASE Started(w)
    BY <2>2, <1>p DEF Started, Update, W, WAt, HoldingPc, SameWorkers, WorkerType
  <2>3. CASE WakeWaiter(w) \/ SpinUntilChanged(w) \/ SpuriousWake(w)
    <3>1. wk[w].pc \notin HoldingPc /\ \E c : W(w, c) /\ c \notin HoldingPc
      BY SMTT(30), <2>3 DEF WakeWaiter, SpinUntilChanged, SpuriousWake, WAt, HoldingPc
    <3> QED
      BY <3>1, <1>p, WorkerOutside
  <2> QED
    BY <2>1, <2>2, <2>3
<1> QED
  BY <1>1, <1>2, <1>3, StillIsSame, SameKeeps

(* A worker takes a job off the queue and its slot in hand. *)
LEMMA PopAccounts ==
  ASSUME PauseInv, SlotsAccounted, NEW w \in Worker, Pop(w)
  PROVE  SlotsAccounted'
<1>p. pool \in PoolType /\ wk \in [Worker -> WorkerType]
  BY DEF PauseInv, Types
<1>1. UNCHANGED <<pr, plan>> /\ wk[w].pc = "pop"
  BY DEF Pop, OnlyWorker, WAt
<1>2. CASE pool.queue = <<>>
  <2>1. UNCHANGED pool /\ W(w, "clear")
    BY <1>2 DEF Pop
  <2>2. SameWorkers
    BY <1>1, <1>p, <2>1, WorkerOutside DEF HoldingPc
  <2> QED
    BY <1>1, <2>1, <2>2, StillIsSame, SameKeeps
<1>3. CASE pool.queue # <<>>
  <2>1. /\ wk' = [wk EXCEPT ![w].job = Head(pool.queue), ![w].pc = "started"]
        /\ pool' = [pool EXCEPT !.queue = Tail(@)]
    BY <1>3 DEF Pop
  <2>2. pool'.queued = pool.queued /\ pool'.queue = Tail(pool.queue) /\ pool.queue \in Seq(JobId)
    BY <2>1, <1>p DEF PoolType
  <2>3. Len(pool'.queue) = Len(pool.queue) - 1 /\ Len(pool.queue) \in Nat
    BY SMTT(30), <2>2, <1>3
  <2>4. Holding' = Holding \union {w} /\ w \notin Holding
    BY <2>1, <1>1, <1>p DEF Holding, HoldingPc, WorkerType
  <2>5. Cardinality(Holding') = Cardinality(Holding) + 1 /\ Cardinality(Holding) \in Nat
    BY <2>4, Finite, FS_AddElement
  <2>6. Reserving' = Reserving /\ MaxQueued' = MaxQueued /\ Cardinality(Reserving) \in Nat
    BY <1>1, Finite DEF Reserving, MaxQueued
  <2> QED
    BY SMTT(30), <2>2, <2>3, <2>5, <2>6 DEF SlotsAccounted
<1> QED
  BY <1>2, <1>3

(* releaseSlot, from either side: one slot fewer. *)
LEMMA ReleaseCounts ==
  ASSUME pool \in PoolType, pool' = releaseSlot(pool)
  PROVE  /\ pool'.queue = pool.queue
         /\ MaxQueued # 0 => pool'.queued = pool.queued - 1
         /\ pool.queued \in Int /\ pool.queue \in Seq(JobId)
  BY DEF releaseSlot, PoolType

(* A worker gives the slot of the job it took back. *)
LEMMA ReleaseAccounts ==
  ASSUME PauseInv, SlotsAccounted, NEW w \in Worker, Release(w)
  PROVE  SlotsAccounted'
<1>p. pool \in PoolType /\ wk \in [Worker -> WorkerType] /\ plan \in PlanType
  BY DEF PauseInv, Types
<1>1. /\ UNCHANGED <<pr, plan>> /\ wk[w].pc = "release"
      /\ wk' = [wk EXCEPT ![w].pc = "clear"] /\ pool' = releaseSlot(pool)
  BY DEF Release, Update, W, OnlyWorker, WAt
<1>2. Holding' = Holding \ {w} /\ w \in Holding
  BY <1>1, <1>p DEF Holding, HoldingPc, WorkerType
<1>3. Cardinality(Holding') = Cardinality(Holding) - 1 /\ Cardinality(Holding) \in Nat
  BY <1>2, Finite, FS_RemoveElement
<1>4. /\ Reserving' = Reserving /\ MaxQueued' = MaxQueued /\ Cardinality(Reserving) \in Nat
      /\ MaxQueued \in Nat
  BY <1>1, <1>p, Finite DEF Reserving, MaxQueued, PlanType
<1>5. /\ pool'.queue = pool.queue
      /\ MaxQueued # 0 => pool'.queued = pool.queued - 1
      /\ pool.queued \in Int /\ Len(pool.queue) \in Nat
  BY SMTT(30), <1>1, <1>p, ReleaseCounts
<1>6. CASE MaxQueued = 0
  BY <1>4, <1>6 DEF SlotsAccounted
<1>7. CASE MaxQueued # 0
  <2>1. pool'.queued = pool.queued - 1
    BY <1>5, <1>7
  <2>2. /\ pool.queued <= MaxQueued
        /\ pool.queued = Len(pool.queue) + Cardinality(Holding) + Cardinality(Reserving)
    BY <1>7 DEF SlotsAccounted
  <2> QED
    BY SMTT(30), <1>3, <1>4, <1>5, <2>1, <2>2 DEF SlotsAccounted
<1> QED
  BY <1>6, <1>7

----------------------------------------------------------------------------
(* Steps of producers that leave the account alone. *)
LEMMA ProducerKeeps ==
  ASSUME PauseInv, SlotsAccounted, NEW p \in Producer,
         StillRunning(p) \/ CountSubmitted(p) \/ PushFails(p) \/ Withdraw(p) \/
         WithdrawnWaiters(p) \/ WithdrawnBump(p) \/ WithdrawnWake(p) \/ Notify(p) \/
         AnyIdle(p)
  PROVE  SlotsAccounted'
<1>p. pool \in PoolType /\ pr \in [Producer -> ProducerType] /\ plan \in PlanType
  BY DEF PauseInv, Types
<1>1. SamePool /\ UNCHANGED wk
  BY <1>p DEF StillRunning, CountSubmitted, PushFails, Withdraw, WithdrawnWaiters, WithdrawnBump,
     WithdrawnWake, Notify, AnyIdle, PUpdate, OnlyProducer, SamePool, PoolType
<1>2. SameBound
  BY <1>p DEF StillRunning, CountSubmitted, PushFails, Withdraw, WithdrawnWaiters, WithdrawnBump,
     WithdrawnWake, Notify, AnyIdle, PUpdate, OnlyProducer, SameBound, PlanType
<1>3. SameProducers
  <2>1. CASE StillRunning(p) \/ WithdrawnWaiters(p)
    <3>1. /\ pr[p].pc \notin ReservingPc
          /\ Returns(p) \/ \E c : P(p, c) /\ c \notin ReservingPc
      BY SMTT(30), <2>1 DEF StillRunning, WithdrawnWaiters, PAt, ReservingPc
    <3> QED
      BY <3>1, <1>p, ProducerMoves, ProducerLeaves
  <2>2. CASE CountSubmitted(p) \/ PushFails(p) \/ Withdraw(p)
    <3>1. pr[p].pc \in ReservingPc /\ \E c : P(p, c) /\ c \in ReservingPc
      BY <2>2 DEF CountSubmitted, PushFails, Withdraw, PUpdate, PAt, ReservingPc
    <3> QED
      BY <3>1, <1>p, ProducerMoves
  <2>3. CASE WithdrawnBump(p) \/ Notify(p)
    <3>1. pr[p].pc \notin ReservingPc /\ \E c : P(p, c) /\ c \notin ReservingPc
      BY SMTT(30), <2>3 DEF WithdrawnBump, Notify, PUpdate, PAt, ReservingPc
    <3> QED
      BY <3>1, <1>p, ProducerMoves
  <2>4. CASE WithdrawnWake(p) \/ AnyIdle(p)
    <3>1. /\ pr[p].pc \notin ReservingPc
          /\ Returns(p) \/ \E c : P(p, c) /\ c \notin ReservingPc
      BY SMTT(30), <2>4 DEF WithdrawnWake, AnyIdle, Accepted, PAt, ReservingPc
    <3> QED
      BY <3>1, <1>p, ProducerMoves, ProducerLeaves
  <2> QED
    BY <2>1, <2>2, <2>3, <2>4
<1> QED
  BY <1>1, <1>2, <1>3, StillIsSame, SameKeeps

(* submit begins; submit wakes a worker and returns. *)
LEMMA SubmitAccounts ==
  ASSUME PauseInv, SlotsAccounted, NEW p \in Producer, Submit(p) \/ WakeOne(p)
  PROVE  SlotsAccounted'
<1>p. /\ pr \in [Producer -> ProducerType] /\ plan \in PlanType
      /\ wk \in [Worker -> WorkerType]
  BY DEF PauseInv, Types
<1>1. CASE Submit(p)
  <2>1. SameBound
    BY <1>1, <1>p DEF Submit, SameBound, PlanType
  <2>2. SameProducers
    BY <1>1, <1>p DEF Submit, PAt, SameProducers, ReservingPc, ProducerType
  <2> QED
    BY <1>1, <2>1, <2>2, StillIsSame, SameKeeps DEF Submit
<1>2. CASE WakeOne(p)
  <2>1. SameProducers
    BY <1>2, <1>p, ProducerLeaves DEF WakeOne, Accepted, PAt, ReservingPc
  <2>2. SameWorkers
    <3>1. CASE Asleep = {}
      BY <1>2, <3>1, StillIsSame DEF WakeOne
    <3>2. CASE Asleep # {}
      <4>1. PICK v \in Asleep : wk' = Awaken({v})
        BY <1>2, <3>2 DEF WakeOne
      <4> QED
        BY <4>1, <1>p, AwakenSame
    <3> QED
      BY <3>1, <3>2
  <2> QED
    BY <1>2, <2>1, <2>2, StillIsSame, SameKeeps DEF WakeOne
<1> QED
  BY <1>1, <1>2

(* A producer reserves a slot, if there is one (reserveSlot). *)
LEMMA ReserveAccounts ==
  ASSUME PauseInv, SlotsAccounted, NEW p \in Producer, reserveSlot(p)
  PROVE  SlotsAccounted'
<1>p. pool \in PoolType /\ pr \in [Producer -> ProducerType] /\ plan \in PlanType
  BY DEF PauseInv, Types
<1>1. UNCHANGED <<wk, plan>> /\ pr[p].pc = "reserve"
  BY DEF reserveSlot, OnlyProducer, PAt
<1>2. CASE MaxQueued = 0
  BY <1>1, <1>2 DEF SlotsAccounted, MaxQueued
<1>3. CASE MaxQueued # 0 /\ pool.queued >= MaxQueued
  <2>1. Returns(p) /\ UNCHANGED pool
    BY <1>3 DEF reserveSlot
  <2>2. SameProducers
    BY <1>1, <1>p, <2>1, ProducerLeaves DEF ReservingPc
  <2> QED
    BY <1>1, <2>1, <2>2, StillIsSame, SameKeeps
<1>4. CASE MaxQueued # 0 /\ ~(pool.queued >= MaxQueued)
  <2>1. /\ pr' = [pr EXCEPT ![p].pc = "count"]
        /\ pool' = [pool EXCEPT !.queued = @ + 1]
    BY <1>4 DEF reserveSlot, P
  <2>2. /\ pool'.queued = pool.queued + 1 /\ pool'.queue = pool.queue
        /\ pool.queued \in Int /\ Len(pool.queue) \in Nat
    BY SMTT(30), <2>1, <1>p DEF PoolType
  <2>3. Reserving' = Reserving \union {p} /\ p \notin Reserving
    BY <2>1, <1>1, <1>p DEF Reserving, ReservingPc, ProducerType
  <2>4. Cardinality(Reserving') = Cardinality(Reserving) + 1 /\ Cardinality(Reserving) \in Nat
    BY <2>3, Finite, FS_AddElement
  <2>5. /\ Holding' = Holding /\ MaxQueued' = MaxQueued /\ Cardinality(Holding) \in Nat
        /\ MaxQueued \in Nat
    BY <1>1, <1>p, Finite DEF Holding, MaxQueued, PlanType
  <2>6. /\ pool.queued < MaxQueued
        /\ pool.queued = Len(pool.queue) + Cardinality(Holding) + Cardinality(Reserving)
    BY SMTT(30), <1>4, <2>2, <2>5 DEF SlotsAccounted
  <2>7. /\ pool'.queued <= MaxQueued
        /\ pool'.queued = Len(pool'.queue) + Cardinality(Holding) + Cardinality(Reserving')
    BY SMTT(30), <2>2, <2>4, <2>5, <2>6
  <2> QED
    BY <2>5, <2>7 DEF SlotsAccounted
<1> QED
  BY <1>2, <1>3, <1>4

(* A producer pushes its job: the slot goes with it. *)
LEMMA PushAccounts ==
  ASSUME PauseInv, SlotsAccounted, NEW p \in Producer, Push(p)
  PROVE  SlotsAccounted'
<1>p. /\ pool \in PoolType /\ pr \in [Producer -> ProducerType] /\ plan \in PlanType
      /\ \A q \in Producer : pr[q].pc # "out" => pr[q].job \in JobId
  BY DEF PauseInv, Types
<1>1. /\ UNCHANGED <<wk, plan>> /\ pr[p].pc = "push"
      /\ pr' = [pr EXCEPT ![p].pc = "notify"]
      /\ pool' = [pool EXCEPT !.queue = Append(@, pr[p].job)]
  BY DEF Push, PUpdate, P, OnlyProducer, PAt
<1>2. /\ pool'.queued = pool.queued /\ pool'.queue = Append(pool.queue, pr[p].job)
      /\ pool.queue \in Seq(JobId) /\ pool.queued \in Int /\ pr[p].job \in JobId
  BY <1>1, <1>p DEF PoolType
<1>3. Len(pool'.queue) = Len(pool.queue) + 1 /\ Len(pool.queue) \in Nat
  BY SMTT(30), <1>2
<1>4. Reserving' = Reserving \ {p} /\ p \in Reserving
  BY <1>1, <1>p DEF Reserving, ReservingPc, ProducerType
<1>5. Cardinality(Reserving') = Cardinality(Reserving) - 1 /\ Cardinality(Reserving) \in Nat
  BY <1>4, Finite, FS_RemoveElement
<1>6. Holding' = Holding /\ MaxQueued' = MaxQueued /\ Cardinality(Holding) \in Nat
  BY <1>1, Finite DEF Holding, MaxQueued
<1>7. pool'.queued = pool.queued /\ pool.queued \in Int
  BY <1>2
<1> QED
  BY SMTT(30), <1>3, <1>5, <1>6, <1>7 DEF SlotsAccounted

(* A producer whose push failed gives its slot back. *)
LEMMA UnreserveAccounts ==
  ASSUME PauseInv, SlotsAccounted, NEW p \in Producer, Unreserve(p)
  PROVE  SlotsAccounted'
<1>p. pool \in PoolType /\ pr \in [Producer -> ProducerType] /\ plan \in PlanType
  BY DEF PauseInv, Types
<1>1. /\ UNCHANGED <<wk, plan>> /\ pr[p].pc = "unreserve"
      /\ pr' = [pr EXCEPT ![p].pc = "anyWaiter"] /\ pool' = releaseSlot(pool)
  BY DEF Unreserve, PUpdate, P, OnlyProducer, PAt
<1>2. Reserving' = Reserving \ {p} /\ p \in Reserving
  BY <1>1, <1>p DEF Reserving, ReservingPc, ProducerType
<1>3. Cardinality(Reserving') = Cardinality(Reserving) - 1 /\ Cardinality(Reserving) \in Nat
  BY <1>2, Finite, FS_RemoveElement
<1>4. /\ Holding' = Holding /\ MaxQueued' = MaxQueued /\ Cardinality(Holding) \in Nat
      /\ MaxQueued \in Nat
  BY <1>1, <1>p, Finite DEF Holding, MaxQueued, PlanType
<1>5. /\ pool'.queue = pool.queue
      /\ MaxQueued # 0 => pool'.queued = pool.queued - 1
      /\ pool.queued \in Int /\ Len(pool.queue) \in Nat
  BY SMTT(30), <1>1, <1>p, ReleaseCounts
<1>6. CASE MaxQueued = 0
  BY <1>4, <1>6 DEF SlotsAccounted
<1>7. CASE MaxQueued # 0
  <2>1. pool'.queued = pool.queued - 1
    BY <1>5, <1>7
  <2>2. /\ pool.queued <= MaxQueued
        /\ pool.queued = Len(pool.queue) + Cardinality(Holding) + Cardinality(Reserving)
    BY <1>7 DEF SlotsAccounted
  <2> QED
    BY SMTT(30), <1>3, <1>4, <1>5, <2>1, <2>2 DEF SlotsAccounted
<1> QED
  BY <1>6, <1>7

----------------------------------------------------------------------------
(* wait, and the steps of a shutdown or a pause that only set a word. *)
LEMMA OthersKeep ==
  ASSUME PauseInv, SlotsAccounted,
         CallWait \/ WaiterStep \/ SpuriousWaiterWake \/ CallShutdown \/ ShutdownBump \/
         Stop \/ StoppedBump \/ StoppedWake \/ CallPause \/ PausePasses \/ CallResume \/
         ResumeBump
  PROVE  SlotsAccounted'
<1>p. pool \in PoolType /\ plan \in PlanType
  BY DEF PauseInv, Types
<1>1. CASE WaiterStep
  <2>1. UNCHANGED <<wk, pr, plan>>
    BY <1>1 DEF WaiterStep, WaitGen, WaitCompleted, WaitSubmitted, WaitState, WaitSpin,
       CountParked, WaitPark, WaitWoken, WaitReturns, TLook, TUpdate, OnlyWaiter
  <2>2. SamePool
    BY <1>1, <1>p DEF WaiterStep, WaitGen, WaitCompleted, WaitSubmitted, WaitState, WaitSpin,
       CountParked, WaitPark, WaitWoken, WaitReturns, TLook, TUpdate, SamePool, PoolType
  <2> QED
    BY <2>1, <2>2, StillIsSame, SameKeeps
<1>2. CASE CallWait \/ SpuriousWaiterWake
  <2>1. UNCHANGED <<wk, pr>>
    BY <1>2 DEF CallWait, SpuriousWaiterWake
  <2>2. SamePool /\ SameBound
    BY <1>2, <1>p DEF CallWait, SpuriousWaiterWake, SamePool, SameBound, PoolType, PlanType
  <2> QED
    BY <2>1, <2>2, StillIsSame, SameKeeps
<1>3. CASE CallShutdown \/ ShutdownBump \/ Stop \/ StoppedBump \/ StoppedWake
  <2>1. UNCHANGED <<wk, pr, plan>>
    BY <1>3 DEF CallShutdown, ShutdownBump, Stop, StoppedBump, StoppedWake, OUpdate, OnlyOwner
  <2>2. SamePool
    BY <1>3, <1>p DEF CallShutdown, ShutdownBump, Stop, StoppedBump, StoppedWake, OUpdate,
       SamePool, PoolType
  <2> QED
    BY <2>1, <2>2, StillIsSame, SameKeeps
<1>4. CASE CallPause \/ PausePasses \/ CallResume \/ ResumeBump
  <2>1. UNCHANGED <<wk, pr>>
    BY <1>4 DEF CallPause, PausePasses, CallResume, ResumeBump, OnlyPauser
  <2>2. SamePool /\ SameBound
    BY SMTT(30), <1>4, <1>p DEF CallPause, PausePasses, CallResume, ResumeBump, SamePool, SameBound,
       PoolType, PlanType
  <2> QED
    BY <2>1, <2>2, StillIsSame, SameKeeps
<1> QED
  BY <1>1, <1>2, <1>3, <1>4

(* The wakes of a shutdown and of resume. *)
LEMMA WakeAllKeeps ==
  ASSUME PauseInv, SlotsAccounted, ShutdownWake \/ ResumeWake
  PROVE  SlotsAccounted'
<1>1. wk \in [Worker -> WorkerType]
  BY DEF PauseInv, Types
<1>2. UNCHANGED <<pool, pr, plan>> /\ wk' = Awaken(Asleep)
  BY DEF ShutdownWake, ResumeWake, OnlyOwner, OnlyPauser
<1>3. SameWorkers
  BY <1>1, <1>2, AwakenSame
<1> QED
  BY <1>2, <1>3, StillIsSame, SameKeeps

(* shutdownNow takes what is left off the queue: dropQueued. *)
LEMMA JoinAccounts ==
  ASSUME PauseInv, SlotsAccounted, Join
  PROVE  SlotsAccounted'
<1>p. pool \in PoolType /\ plan \in PlanType
  BY DEF PauseInv, Types
<1>1. UNCHANGED <<wk, pr, plan>>
  BY DEF Join, OnlyOwner
<1>2. CASE ~Abrupt
  BY <1>1, <1>2, StillIsSame, SameKeeps DEF Join
<1>3. CASE Abrupt /\ MaxQueued = 0
  BY <1>1, <1>3 DEF SlotsAccounted, MaxQueued
<1>4. CASE Abrupt /\ MaxQueued # 0
  <2>1. /\ pool'.queue = <<>> /\ pool'.queued = pool.queued - Len(pool.queue)
        /\ pool.queued \in Int /\ Len(pool.queue) \in Nat
    <3>1. pool' = dropQueued
      BY <1>4 DEF Join
    <3>2. pool' = [pool EXCEPT !.queue = <<>>, !.dropped = pool.dropped + Len(pool.queue),
                                !.queued = pool.queued - Len(pool.queue)]
      BY <3>1, <1>4, <1>p DEF dropQueued, PoolType
    <3> QED
      BY SMTT(30), <3>2, <1>p DEF PoolType
  <2>2. /\ Holding' = Holding /\ Cardinality(Holding) \in Nat
        /\ Reserving' = Reserving /\ Cardinality(Reserving) \in Nat
        /\ MaxQueued' = MaxQueued /\ MaxQueued \in Nat
    BY <1>1, <1>p, Finite DEF Holding, Reserving, MaxQueued, PlanType
  <2>3. /\ pool.queued <= MaxQueued
        /\ pool.queued = Len(pool.queue) + Cardinality(Holding) + Cardinality(Reserving)
    BY <1>4 DEF SlotsAccounted
  <2>4. Len(pool'.queue) = 0
    BY SMTT(30), <2>1
  <2> QED
    BY SMTT(30), <2>1, <2>2, <2>3, <2>4 DEF SlotsAccounted
<1> QED
  BY <1>2, <1>3, <1>4

----------------------------------------------------------------------------
(* At first no one holds a slot. *)
LEMMA InitAccounts == Init => SlotsAccounted
<1> SUFFICES ASSUME Init PROVE SlotsAccounted
  OBVIOUS
<1>1. plan \in PlanType /\ pool.queued = 0 /\ pool.queue = <<>>
  BY PlansAssumption DEF Init
<1>2. Holding = {} /\ Reserving = {}
  BY DEF Init, Holding, HoldingPc, Reserving, ReservingPc
<1>3. Cardinality(Holding) = 0 /\ Cardinality(Reserving) = 0
  BY <1>2, FS_EmptySet
<1>4. MaxQueued \in Nat /\ Len(pool.queue) = 0
  BY <1>1 DEF MaxQueued, PlanType
<1> QED
  BY SMTT(30), <1>1, <1>3, <1>4 DEF SlotsAccounted

(* Every step keeps the account. *)
LEMMA StepAccounts == PauseInv /\ SlotsAccounted /\ [Next]_vars => SlotsAccounted'
<1> SUFFICES ASSUME PauseInv, SlotsAccounted, [Next]_vars PROVE SlotsAccounted'
  OBVIOUS
<1>1. ASSUME NEW w \in Worker, WorkerStep(w) \/ SpuriousWake(w) PROVE SlotsAccounted'
  BY <1>1, LookKeeps, UpdateKeeps, LocalKeeps, WorkerKeeps, PopAccounts, ReleaseAccounts
     DEF WorkerStep
<1>2. ASSUME NEW p \in Producer, Submit(p) \/ ProducerStep(p) PROVE SlotsAccounted'
  BY <1>2, ProducerKeeps, SubmitAccounts, ReserveAccounts, PushAccounts, UnreserveAccounts
     DEF ProducerStep
<1>3. CASE CallWait \/ WaiterStep \/ SpuriousWaiterWake \/ CallShutdown \/ OwnerStep
  BY <1>3, OthersKeep, WakeAllKeeps, JoinAccounts DEF OwnerStep
<1>4. CASE CallPause \/ PauserStep
  BY <1>4, OthersKeep, WakeAllKeeps DEF PauserStep
<1>5. CASE UNCHANGED vars
  BY <1>5, StillIsSame, SameKeeps DEF vars
<1> QED
  BY <1>1, <1>2, <1>3, <1>4, <1>5 DEF Next

(* "The bound is exact" (root.zig, Options.max_queued): `queued` never goes   *)
(* past max_queued, and every job on the queue or in the hand of a worker     *)
(* that has not released it holds a slot, for every number of workers and     *)
(* producers and every plan.                                                  *)
THEOREM BoundSafe == Spec => []BoundHolds
<1>1. Init => PauseInv /\ SlotsAccounted
  BY InitHolds, InitAccounts
<1>2. PauseInv /\ SlotsAccounted /\ [Next]_vars => (PauseInv /\ SlotsAccounted)'
  BY StepKeeps, StepAccounts
<1>3. PauseInv /\ SlotsAccounted => BoundHolds
  <2> SUFFICES ASSUME PauseInv, SlotsAccounted, MaxQueued # 0
               PROVE  /\ pool.queued <= MaxQueued
                      /\ Len(pool.queue) + Cardinality(Holding) <= pool.queued
    BY DEF BoundHolds, Holding, HoldingPc
  <2>1. pool \in PoolType
    BY DEF PauseInv, Types
  <2>2. Len(pool.queue) \in Nat
    BY SMTT(30), <2>1 DEF PoolType
  <2> QED
    BY SMTT(30), <2>2, Finite DEF SlotsAccounted
<1> QED
  BY <1>1, <1>2, <1>3, PTL DEF Spec
=============================================================================
