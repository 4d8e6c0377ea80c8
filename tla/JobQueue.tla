------------------------------ MODULE JobQueue ------------------------------
(***************************************************************************)
(* jobqueue: a durable queue of background jobs over the kv log.  The      *)
(* index in memory (jobs, the two dispatch heaps, the lease table, the     *)
(* dead letters, the unique keys) is rebuilt from the store by open; every *)
(* operation writes the store first and the index after it.  A storage     *)
(* error poisons kv: what it was writing may or may not be durable, and    *)
(* nothing more is written until the queue is opened again.                *)
(***************************************************************************)
EXTENDS Naturals, FiniteSets, Functions

CONSTANTS
  Partition,      \* EnqueueOptions.partition
  Priority,       \* Priority: higher is dispatched first
  Key,            \* unique keys
  NoKey,          \* unique_key = ""
  AnyPartition,            \* DequeueOptions.partition = null
  AttemptLimits,  \* values of EnqueueOptions.max_attempts
  MaxTime,        \* the last instant of the wall clock (maxInt(i64))
  Delays,         \* values of delay_ns and of backoffs
  Timeouts,       \* values of visibility_timeout_ns
  EpochModulus,   \* lease_epoch wraps at 2^32
  MaxId,          \* bound: ids handed out
  MaxOpens,       \* bound: times the queue is opened again
  MaxRequeues,    \* bound: dead letters put back
  MaxExtends,     \* bound: leases extended
  MaxSetbacks     \* bound: times the wall clock is set back

ASSUME JobQueueAssumption ==
  /\ Priority \subseteq Nat
  /\ NoKey \notin Key
  /\ AnyPartition \notin Partition
  /\ AttemptLimits \subseteq Nat \ {0}
  /\ MaxTime \in Nat
  /\ Delays \subseteq Nat
  /\ Timeouts \subseteq Nat
  /\ EpochModulus \in Nat \ {0}
  /\ {MaxId, MaxOpens, MaxRequeues, MaxExtends, MaxSetbacks} \subseteq Nat

VARIABLES
  jobs,      \* Queue.jobs: id -> Job
  pending,   \* Queue.pending: ready jobs whose schedule has not been seen to arrive
  parts,     \* Queue.parts: per partition, the ready jobs seen to be visible
  ready_n,   \* Queue.ready_n
  leased,    \* Queue.leased: id -> time left until the deadline
  dlq,       \* Queue.dlq
  unique,    \* Queue.unique: key -> id
  next_id,   \* Queue.next_id
  store,     \* kv: id -> the record at j/<id>
  counter,   \* kv: the counter at m/next_id
  poisoned,  \* kv refuses to write after a storage error
  wall,      \* the wall clock; it can be set back
  held,      \* every Lease handed out since the queue was opened
  bounds,    \* how often each bounded event has happened
  returned,  \* ids whose enqueue returned
  finished,  \* ids whose ack or cancel returned
  unsure     \* ids whose ack or cancel ended in a storage error

index   == <<jobs, pending, parts, ready_n, leased, dlq, unique, next_id>>
durable == <<store, counter, poisoned>>
history == <<returned, finished, unsure>>
vars    == <<index, durable, wall, held, bounds, history>>

Id == 1 .. MaxId

Time == 0 .. MaxTime

(* Mutant: the sum is not clamped. *)
PlainAddNs(t, ns) == t + ns

(* addNs saturates. *)
AddNs(t, ns) == IF t + ns > MaxTime THEN MaxTime ELSE t + ns

(* f with the value v at x, x in its domain or not. *)
With(f, x, v) == [y \in DOMAIN f \union {x} |-> IF y = x THEN v ELSE f[y]]

Without(f, S) == Restrict(f, DOMAIN f \ S)

Init ==
  /\ jobs = <<>> /\ pending = {} /\ parts = [p \in Partition |-> {}] /\ ready_n = 0
  /\ leased = <<>> /\ dlq = {} /\ unique = <<>> /\ next_id = 1
  /\ store = <<>> /\ counter = 1 /\ poisoned = FALSE
  /\ wall = 0
  /\ held = {}
  /\ bounds = [opens |-> 0, requeues |-> 0, extends |-> 0, setbacks |-> 0]
  /\ returned = {} /\ finished = {} /\ unsure = {}

Count(event, limit) ==
  /\ bounds[event] < limit
  /\ bounds' = [bounds EXCEPT ![event] = @ + 1]

-----------------------------------------------------------------------------
(* The store *)

(* encodeJob: everything but the lease generation. *)
Encode(job) == Restrict(job, DOMAIN job \ {"lease_epoch"})

Decode(rec) == With(rec, "lease_epoch", 0)

(* decodeJob and recover: what a record must satisfy not to be corrupt. *)
Decodes(rec) ==
  /\ rec.attempts <= rec.max_attempts
  /\ rec.state = "ready" => rec.attempts # rec.max_attempts

Put(id, job) == With(store, id, Encode(job))

Delete(id) == Without(store, {id})

(* A write of kv that returns, and one that ends in a storage error: the    *)
(* record is durable or is not, and kv is poisoned.  An error only happens  *)
(* where the bound still lets the queue be opened again.                    *)
Write(s) == ~poisoned /\ store' = s /\ UNCHANGED <<counter, poisoned>>

WriteFails(s) ==
  /\ ~poisoned
  /\ bounds.opens < MaxOpens
  /\ store' \in {store, s}
  /\ poisoned' = TRUE
  /\ UNCHANGED counter

-----------------------------------------------------------------------------
(* enqueue *)

NewJob(part, pri, limit, run_at, key) ==
  [partition |-> part, priority |-> pri, state |-> "ready", attempts |-> 0,
   max_attempts |-> limit, run_at |-> run_at, lease_epoch |-> 0, unique_key |-> key]

(* A run_at in the past dispatches like one that is now. *)
NewJobs ==
  { NewJob(part, pri, limit, AddNs(wall, delay), key) :
      part \in Partition, pri \in Priority, limit \in AttemptLimits,
      delay \in Delays, key \in Key \union {NoKey} }

MayEnqueue(job) ==
  /\ ~poisoned
  /\ next_id \in Id
  /\ job.unique_key \notin DOMAIN unique

Enqueue(job) ==
  /\ MayEnqueue(job)
  /\ store' = Put(next_id, job)
  /\ counter' = next_id + 1
  /\ jobs' = With(jobs, next_id, job)
  /\ unique' = IF job.unique_key = NoKey THEN unique ELSE With(unique, job.unique_key, next_id)
  /\ pending' = pending \union {[run_at |-> job.run_at, id |-> next_id]}
  /\ ready_n' = ready_n + 1
  /\ next_id' = next_id + 1
  /\ returned' = returned \union {next_id}
  /\ UNCHANGED <<parts, leased, dlq, poisoned, wall, held, bounds, finished, unsure>>

(* enqueue returns an error: a storage error at the record or at the        *)
(* counter, or no memory for the counter's record, which kv survives.       *)
EnqueueFails(job) ==
  /\ MayEnqueue(job)
  /\ \/ WriteFails(Put(next_id, job))
     \/ /\ bounds.opens < MaxOpens
        /\ store' = Put(next_id, job)
        /\ counter' \in {counter, next_id + 1}
        /\ poisoned' = TRUE
     \/ Write(Put(next_id, job))
  /\ UNCHANGED <<index, wall, held, bounds, history>>

-----------------------------------------------------------------------------
(* dequeue *)

PendingBefore(a, b) ==
  \/ a.run_at < b.run_at
  \/ a.run_at = b.run_at /\ a.id < b.id

ReadyBefore(a, b) ==
  \/ a.priority > b.priority
  \/ a.priority = b.priority /\ a.id < b.id

(* An entry of a heap is live, or the tombstone of a cancelled job. *)
Live(e) == e.id \in DOMAIN jobs

(* Mutant: what was visible once is not looked at again. *)
CachedVisible(e) == Live(e)

Visible(e) == Live(e) /\ jobs[e.id].run_at <= wall

(* migrateDue: the entries that have arrived move to the heap of their      *)
(* partition, tombstones are dropped.                                       *)
Due == { e \in pending : e.run_at <= wall }

Migrate(moved) ==
  [p \in Partition |-> parts[p] \union
     { [priority |-> jobs[e.id].priority, id |-> e.id] :
         e \in { x \in moved : Live(x) /\ jobs[x.id].partition = p } }]

(* bestReady looks at the heap of one partition, or at all of them. *)
Candidates(heaps, filter) ==
  UNION { heaps[p] : p \in IF filter = AnyPartition THEN Partition ELSE {filter} }

(* The first job the loop finds visible. *)
Winners(cands) ==
  { e \in cands : Visible(e) /\ \A f \in cands : Visible(f) => ~ReadyBefore(f, e) }

(* What the loop takes off the heaps on its way: tombstones are dropped,    *)
(* jobs that the clock has made invisible again are demoted to pending.     *)
Skipped(cands, e) == { x \in cands : ~Visible(x) /\ ReadyBefore(x, e) }

(* Mutant: a job that is not visible any more is dropped with the tombstones. *)
NoneDemoted(gone) == {}

Demoted(gone) ==
  { [run_at |-> jobs[x.id].run_at, id |-> x.id] : x \in { y \in gone : Live(y) /\ ~Visible(y) } }

TakeTops(heaps, gone) ==
  /\ pending' = (pending \ Due) \union Demoted(gone)
  /\ parts' = [p \in Partition |-> heaps[p] \ gone]

NextEpoch(epoch) == (epoch + 1) % EpochModulus

Dequeue(filter, timeout) ==
  LET heaps == Migrate(Due)
      cands == Candidates(heaps, filter)
  IN  \E w \in Winners(cands) :
        LET job == [jobs[w.id] EXCEPT !.lease_epoch = NextEpoch(@)]
        IN  /\ TakeTops(heaps, Skipped(cands, w) \union {w})
            /\ ready_n' = ready_n - 1
            /\ leased' = With(leased, w.id, timeout)
            /\ jobs' = [jobs EXCEPT ![w.id] = job]
            /\ held' = held \union
                 {[id |-> w.id, epoch |-> job.lease_epoch, attempt |-> job.attempts + 1]}
            /\ UNCHANGED <<dlq, unique, next_id, durable, wall, bounds, history>>

(* dequeue returns null; the heaps may have changed. *)
DequeueNothing(filter) ==
  LET heaps == Migrate(Due)
      cands == Candidates(heaps, filter)
  IN  /\ Winners(cands) = {}
      /\ TakeTops(heaps, cands)
      /\ UNCHANGED <<jobs, ready_n, leased, dlq, unique, next_id, durable, wall, held, bounds, history>>

(* dequeue runs out of memory: while it moves entry e out of pending, or    *)
(* when it has come to e in the heaps and can neither demote nor lease it.  *)
DequeueOutOfMemory(filter) ==
  /\ \/ \E e \in Due :
          LET moved == { x \in Due : PendingBefore(x, e) }
          IN  /\ Live(e)
              /\ pending' = pending \ moved
              /\ parts' = Migrate(moved)
     \/ LET heaps == Migrate(Due)
            cands == Candidates(heaps, filter)
        IN  \E e \in cands :
              /\ Live(e)
              /\ \A f \in cands : Visible(f) => ~ReadyBefore(f, e)
              /\ TakeTops(heaps, Skipped(cands, e))
  /\ UNCHANGED <<jobs, ready_n, leased, dlq, unique, next_id, durable, wall, held, bounds, history>>

-----------------------------------------------------------------------------
(* Leases: ack, nack, extendLease, reapExpiredLeases *)

(* Mutant: the generation is not compared. *)
AnyEpochValid(lease) == lease.id \in DOMAIN jobs /\ lease.id \in DOMAIN leased

(* validate: the lease still owns its job. *)
Valid(lease) ==
  /\ lease.id \in DOMAIN jobs
  /\ jobs[lease.id].lease_epoch = lease.epoch
  /\ lease.id \in DOMAIN leased

(* removeJob *)
RemoveJob(id) ==
  /\ jobs' = Without(jobs, {id})
  /\ unique' = Without(unique, {jobs[id].unique_key})

Ack(lease) ==
  /\ Valid(lease)
  /\ Write(Delete(lease.id))
  /\ leased' = Without(leased, {lease.id})
  /\ RemoveJob(lease.id)
  /\ finished' = finished \union {lease.id}
  /\ UNCHANGED <<pending, parts, ready_n, dlq, next_id, wall, held, bounds, returned, unsure>>

(* An ack or a cancel that ends in a storage error. *)
DeleteFails(id) ==
  /\ WriteFails(Delete(id))
  /\ unsure' = unsure \union {id}
  /\ UNCHANGED <<index, wall, held, bounds, returned, finished>>

AckFails(lease) == Valid(lease) /\ DeleteFails(lease.id)

(* Mutant: the last attempt is one too many. *)
LateExpire(job, run_at) ==
  IF job.attempts + 1 > job.max_attempts
    THEN [job EXCEPT !.attempts = @ + 1, !.state = "dead"]
    ELSE [job EXCEPT !.attempts = @ + 1, !.run_at = run_at]

(* expireLease: one more attempt is used up; the last one makes the job a   *)
(* dead letter.                                                             *)
Expire(job, run_at) ==
  IF job.attempts + 1 >= job.max_attempts
    THEN [job EXCEPT !.attempts = @ + 1, !.state = "dead"]
    ELSE [job EXCEPT !.attempts = @ + 1, !.run_at = run_at]

Expired(ids, run_at) == [i \in ids |-> Expire(jobs[i], run_at)]

(* Mutant: the record is written before the attempt is counted. *)
StalePersisted(ids, run_at) ==
  [i \in DOMAIN store \union ids |-> IF i \in ids THEN Encode(jobs[i]) ELSE store[i]]

Persisted(ids, run_at) ==
  [i \in DOMAIN store \union ids |->
     IF i \in ids THEN Encode(Expired(ids, run_at)[i]) ELSE store[i]]

(* Mutant: a job that has attempts left is not put back on the heap. *)
ForgetfulResolve(ids, run_at) ==
  LET after == Expired(ids, run_at)
      dead  == { i \in ids : after[i].state = "dead" }
  IN  /\ jobs' = [i \in DOMAIN jobs |->
                    IF i \in ids THEN [after[i] EXCEPT !.lease_epoch = NextEpoch(@)] ELSE jobs[i]]
      /\ leased' = Without(leased, ids)
      /\ dlq' = dlq \union dead
      /\ ready_n' = ready_n + Cardinality(ids \ dead)
      /\ UNCHANGED <<pending, parts, unique, next_id, wall, held, bounds, history>>

(* The index after the leases on ids are resolved. *)
Resolve(ids, run_at) ==
  LET after == Expired(ids, run_at)
      dead  == { i \in ids : after[i].state = "dead" }
  IN  /\ jobs' = [i \in DOMAIN jobs |->
                    IF i \in ids THEN [after[i] EXCEPT !.lease_epoch = NextEpoch(@)] ELSE jobs[i]]
      /\ leased' = Without(leased, ids)
      /\ dlq' = dlq \union dead
      /\ pending' = pending \union { [run_at |-> after[i].run_at, id |-> i] : i \in ids \ dead }
      /\ ready_n' = ready_n + Cardinality(ids \ dead)
      /\ UNCHANGED <<parts, unique, next_id, wall, held, bounds, history>>

(* The backoff is the caller's or comes from computeBackoff. *)
Nack(lease, backoff) ==
  /\ Valid(lease)
  /\ Write(Persisted({lease.id}, AddNs(wall, backoff)))
  /\ Resolve({lease.id}, AddNs(wall, backoff))

NackFails(lease, backoff) ==
  /\ Valid(lease)
  /\ WriteFails(Persisted({lease.id}, AddNs(wall, backoff)))
  /\ UNCHANGED <<index, wall, held, bounds, history>>

ExtendLease(lease, timeout) ==
  /\ Valid(lease)
  /\ Count("extends", MaxExtends)
  /\ leased' = [leased EXCEPT ![lease.id] = timeout]
  /\ UNCHANGED <<jobs, pending, parts, ready_n, dlq, unique, next_id, durable, wall, held, history>>

Lapsed == { i \in DOMAIN leased : leased[i] = 0 }

ReapExpiredLeases ==
  /\ Lapsed # {}
  /\ Write(Persisted(Lapsed, wall))
  /\ Resolve(Lapsed, wall)

(* The sweep meets the leases in no particular order and stops at the first *)
(* storage error, at the lease on id.                                       *)
ReapFails(ids, id) ==
  /\ ids \subseteq Lapsed
  /\ id \in Lapsed \ ids
  /\ ~poisoned
  /\ bounds.opens < MaxOpens
  /\ store' \in {Persisted(ids, wall), Persisted(ids \union {id}, wall)}
  /\ poisoned' = TRUE
  /\ UNCHANGED counter
  /\ Resolve(ids, wall)

-----------------------------------------------------------------------------
(* cancel, requeueDead, open *)

Cancellable(id) == id \in DOMAIN jobs /\ id \notin DOMAIN leased

(* A ready job leaves its entry in the heaps behind, as a tombstone. *)
Cancel(id) ==
  /\ Cancellable(id)
  /\ Write(Delete(id))
  /\ IF jobs[id].state = "dead"
       THEN dlq' = dlq \ {id} /\ UNCHANGED ready_n
       ELSE ready_n' = ready_n - 1 /\ UNCHANGED dlq
  /\ RemoveJob(id)
  /\ finished' = finished \union {id}
  /\ UNCHANGED <<pending, parts, leased, next_id, wall, held, bounds, returned, unsure>>

CancelFails(id) == Cancellable(id) /\ DeleteFails(id)

Revived(id, run_at, reset_attempts) ==
  [jobs[id] EXCEPT !.state = "ready", !.run_at = run_at,
                   !.attempts = IF reset_attempts THEN 0 ELSE jobs[id].max_attempts - 1]

RequeueDead(id, run_at, reset_attempts) ==
  LET job == Revived(id, run_at, reset_attempts)
  IN  /\ Count("requeues", MaxRequeues)
      /\ Write(Put(id, job))
      /\ jobs' = [jobs EXCEPT ![id] = job]
      /\ dlq' = dlq \ {id}
      /\ pending' = pending \union {[run_at |-> run_at, id |-> id]}
      /\ ready_n' = ready_n + 1
      /\ UNCHANGED <<parts, leased, unique, next_id, wall, held, history>>

RequeueFails(id, run_at, reset_attempts) ==
  /\ WriteFails(Put(id, Revived(id, run_at, reset_attempts)))
  /\ UNCHANGED <<index, wall, held, bounds, history>>

(* Mutant: the newest record is left out. *)
ShortRecovered == { i \in DOMAIN store : i + 1 < counter }

(* recover: the records below the counter, and no other. *)
Recovered == { i \in DOMAIN store : i < counter }

Recoverable ==
  /\ \A i \in Recovered : Decodes(store[i])
  /\ \A i, j \in Recovered :
       store[i].unique_key = store[j].unique_key => i = j \/ store[i].unique_key = NoKey

(* The process crashes, or closes the queue, and opens it again. *)
Reopen ==
  LET ready  == { i \in Recovered : store[i].state = "ready" }
      unique_ids == { i \in Recovered : store[i].unique_key # NoKey }
  IN  /\ Recoverable
      /\ Count("opens", MaxOpens)
      /\ jobs' = [i \in Recovered |-> Decode(store[i])]
      /\ pending' = { [run_at |-> store[i].run_at, id |-> i] : i \in ready }
      /\ parts' = [p \in Partition |-> {}]
      /\ ready_n' = Cardinality(ready)
      /\ leased' = <<>>
      /\ dlq' = Recovered \ ready
      /\ unique' = [k \in { store[i].unique_key : i \in unique_ids } |->
                      CHOOSE i \in unique_ids : store[i].unique_key = k]
      /\ next_id' = counter
      /\ poisoned' = FALSE
      /\ held' = {}
      /\ UNCHANGED <<store, counter, wall, history>>

-----------------------------------------------------------------------------
(* The clocks *)

MonoTick ==
  /\ \E i \in DOMAIN leased : leased[i] > 0
  /\ leased' = [i \in DOMAIN leased |-> IF leased[i] > 0 THEN leased[i] - 1 ELSE 0]
  /\ UNCHANGED <<jobs, pending, parts, ready_n, dlq, unique, next_id, durable, wall, held, bounds, history>>

WallTick ==
  /\ wall < MaxTime
  /\ wall' = wall + 1
  /\ UNCHANGED <<index, durable, held, bounds, history>>

WallSetBack(t) ==
  /\ t < wall
  /\ Count("setbacks", MaxSetbacks)
  /\ wall' = t
  /\ UNCHANGED <<index, durable, held, history>>

-----------------------------------------------------------------------------
Filters == Partition \union {AnyPartition}

Next ==
  \/ \E job \in NewJobs : Enqueue(job)
  \/ \E job \in NewJobs : EnqueueFails(job)
  \/ \E filter \in Filters, timeout \in Timeouts : Dequeue(filter, timeout)
  \/ \E filter \in Filters : DequeueNothing(filter)
  \/ \E filter \in Filters : DequeueOutOfMemory(filter)
  \/ \E lease \in held : Ack(lease)
  \/ \E lease \in held : AckFails(lease)
  \/ \E lease \in held, backoff \in Delays : Nack(lease, backoff)
  \/ \E lease \in held, backoff \in Delays : NackFails(lease, backoff)
  \/ \E lease \in held, timeout \in Timeouts : ExtendLease(lease, timeout)
  \/ ReapExpiredLeases
  \/ \E ids \in SUBSET Lapsed, id \in Lapsed : ReapFails(ids, id)
  \/ \E id \in Id : Cancel(id)
  \/ \E id \in Id : CancelFails(id)
  \/ \E id \in dlq, delay \in Delays, reset \in BOOLEAN : RequeueDead(id, AddNs(wall, delay), reset)
  \/ \E id \in dlq, delay \in Delays, reset \in BOOLEAN : RequeueFails(id, AddNs(wall, delay), reset)
  \/ Reopen
  \/ MonoTick
  \/ WallTick
  \/ \E t \in Time : WallSetBack(t)

Spec == Init /\ [][Next]_vars

(* What goes on by itself: time passes, workers that are free ask for work, *)
(* the owner sweeps, and a poisoned queue is opened again.  Workers need    *)
(* neither ack nor nack.                                                    *)
Progress ==
  \/ \E timeout \in Timeouts : Dequeue(AnyPartition, timeout)
  \/ ReapExpiredLeases
  \/ poisoned /\ Reopen
  \/ MonoTick
  \/ WallTick

FairSpec == Spec /\ WF_vars(Progress)

-----------------------------------------------------------------------------
Job ==
  [partition : Partition, priority : Priority, state : {"ready", "dead"},
   attempts : Nat, max_attempts : AttemptLimits, run_at : Time,
   lease_epoch : 0 .. EpochModulus - 1, unique_key : Key \union {NoKey}]

Record == { Encode(job) : job \in Job }

(* Every variable holds a value of the type the code declares for it. *)
TypeOK ==
  /\ DOMAIN jobs \subseteq Id /\ \A i \in DOMAIN jobs : jobs[i] \in Job
  /\ pending \subseteq [run_at : Time, id : Id]
  /\ parts \in [Partition -> SUBSET [priority : Priority, id : Id]]
  /\ ready_n \in 0 .. MaxId
  /\ DOMAIN leased \subseteq Id /\ \A i \in DOMAIN leased : leased[i] \in Nat
  /\ dlq \subseteq Id
  /\ DOMAIN unique \subseteq Key /\ \A k \in DOMAIN unique : unique[k] \in Id
  /\ next_id \in 1 .. MaxId + 1
  /\ DOMAIN store \subseteq Id /\ \A i \in DOMAIN store : Decode(store[i]) \in Job
  /\ counter \in 1 .. MaxId + 1
  /\ poisoned \in BOOLEAN
  /\ wall \in Time
  /\ held \subseteq [id : Id, epoch : 0 .. EpochModulus - 1, attempt : Nat]
  /\ bounds \in [{"opens", "requeues", "extends", "setbacks"} -> Nat]
  /\ returned \subseteq Id /\ finished \subseteq Id /\ unsure \subseteq Id

Waiting == { i \in DOMAIN jobs : jobs[i].state = "ready" /\ i \notin DOMAIN leased }

(* Every job is in exactly one place: waiting with exactly one entry in the *)
(* two dispatch structures, which carries its schedule or its priority, or  *)
(* leased and in neither, or a dead letter; readyCount counts the waiting   *)
(* ones although cancelled jobs leave their entries behind, and the unique  *)
(* keys are those of live jobs.                                             *)
IndexConsistent ==
  /\ DOMAIN leased \union dlq \subseteq DOMAIN jobs
  /\ dlq = { i \in DOMAIN jobs : jobs[i].state = "dead" }
  /\ DOMAIN leased \intersect dlq = {}
  /\ ready_n = Cardinality(Waiting)
  /\ \A i \in DOMAIN jobs :
       LET scheduled == { e \in pending : e.id = i }
           visible   == { <<p, e>> \in Partition \X UNION { parts[p] : p \in Partition } :
                            e \in parts[p] /\ e.id = i }
       IN  /\ Cardinality(scheduled) + Cardinality(visible) = IF i \in Waiting THEN 1 ELSE 0
           /\ \A e \in scheduled : e.run_at = jobs[i].run_at
           /\ \A v \in visible : v[1] = jobs[i].partition /\ v[2].priority = jobs[i].priority
  /\ \A k \in Key, i \in Id :
       (k \in DOMAIN unique /\ unique[k] = i) <=> (i \in DOMAIN jobs /\ jobs[i].unique_key = k)

(* The jobs dequeue(filter) may hand out now. *)
Dispatchable(filter) ==
  { i \in Waiting : /\ jobs[i].run_at <= wall
                    /\ filter \in {AnyPartition, jobs[i].partition} }

(* dequeue hands out the best job: one whose schedule has arrived by the    *)
(* wall clock now, the highest priority first and the oldest among equals,  *)
(* of the partition asked for or of all; it returns null only when there is *)
(* none.                                                                    *)
DispatchOrder ==
  [][\A filter \in Filters :
       /\ \A timeout \in Timeouts : Dequeue(filter, timeout) =>
            \A i \in DOMAIN leased' \ DOMAIN leased :
              /\ i \in Dispatchable(filter)
              /\ \A j \in Dispatchable(filter) :
                   ~ReadyBefore([priority |-> jobs[j].priority, id |-> j],
                                [priority |-> jobs[i].priority, id |-> i])
       /\ DequeueNothing(filter) => Dispatchable(filter) = {}]_vars

(* At most one of the leases ever handed out owns a job: a worker whose     *)
(* lease was reaped cannot ack, nack or extend the next worker's.           *)
LeaseExclusive ==
  \A a, b \in held : Valid(a) /\ Valid(b) /\ a.id = b.id => a = b

(* Whatever write was interrupted, the store can be opened: no record is    *)
(* refused as corrupt and no two claim one unique key.                      *)
AlwaysRecoverable == Recoverable

(* A crash loses nothing but leases.  The store always holds exactly the    *)
(* jobs of the index, except for the one job whose write ended in a storage *)
(* error.                                                                   *)
StoreMirrorsIndex ==
  LET Same(i) == /\ i \in Recovered <=> i \in DOMAIN jobs
                 /\ i \in Recovered => store[i] = Encode(jobs[i])
  IN  Cardinality({ i \in Id : ~Same(i) }) <= IF poisoned THEN 1 ELSE 0

(* A job whose enqueue returned is there until somebody asks for its        *)
(* removal, and a job whose ack or cancel returned never comes back.        *)
AtLeastOnce ==
  /\ returned \ (finished \union unsure) \subseteq DOMAIN jobs \intersect Recovered
  /\ finished \intersect (DOMAIN jobs \union Recovered) = {}

(* Workers may all abandon their jobs: every job that stays is in the end a *)
(* dead letter, none waits or is held for good.                             *)
Drains == <>[](\A i \in DOMAIN jobs : jobs[i].state = "dead")
=============================================================================
