--------------------------------- MODULE Kv ---------------------------------
(***************************************************************************)
(* modules/kv (src/root.zig, Db): the crash-consistent Bitcask-style log.  *)
(* Writers hold `lock` for their whole duration; a merge copies without it *)
(* and takes it to create an output file and to swap.  Every storage call  *)
(* is one step, so the process may be killed, or the machine may lose      *)
(* power, between any two of them.                                         *)
(*                                                                         *)
(*   disk     the storage (KvDisk)                                         *)
(*   db       the memory of the open Db                                    *)
(*   lock     who holds Db.lock: "free", "writer" or "merge"               *)
(*   task     what the writer, open or close in progress has still to do   *)
(*   merge    the merge in progress                                        *)
(*   iter     one Iterator: the entries it pinned, the contents it saw     *)
(*   maybe    history: the contents a crash may leave                      *)
(*   adopted  history: the files were left behind by a Db that died or     *)
(*            failed with the machine still up, and no sync has come since *)
(*   now      Options.clock                                                *)
(*   count    how often each bounded action has happened                   *)
(* Sizes are counted in records, and every record has the same one.        *)
(***************************************************************************)
EXTENDS Integers, KvDisk, SequencesExt

CONSTANTS
  Key, Value,
  Policy,           \* SyncPolicy: "always", "none" or "interval"
  MaxFileRecords,   \* Options.max_file_size, in records
  Expiries,         \* the instants keys may expire at
  MaxClock,         \* bound on the clock
  MaxWrites, MaxCompacts, MaxMerges, MaxIterators, MaxCloses,
  MaxErrors,        \* storage calls that fail
  MaxKills,         \* deaths of the process: what it wrote is still visible
  MaxPowerLosses    \* deaths of the machine: what it synced is still there

ASSUME KvAssumption ==
  /\ Policy \in {"always", "none", "interval"}
  /\ MaxFileRecords \in Nat \ {0}
  /\ MaxClock \in Nat
  /\ Expiries \subseteq 1..MaxClock

VARIABLES disk, db, lock, task, merge, iter, maybe, adopted, now, count

vars == <<disk, db, lock, task, merge, iter, maybe, adopted, now, count>>

-----------------------------------------------------------------------------
(* What is written.                                                        *)

NoExpiry == MaxClock + 1

Header(version) == [op |-> "header", version |-> version]

PutRecord(k, v, e) == [op |-> "put", key |-> k, val |-> v, exp |-> e]

DelRecord(k) == [op |-> "del", key |-> k, exp |-> NoExpiry]

Manifest(ids, next, obsolete) ==
  [op |-> "manifest", ids |-> ids, next |-> next, obsolete |-> obsolete]

(* A hint names the records of the data file it was written with. *)
Hint(records) == [op |-> "hint", records |-> records, len |-> 1 + Len(records)]

Legacy == -1   \* the id of a single-file store's data file

NameOf(id) == IF id = Legacy THEN Path ELSE DataName(id)

IsRecord(version, b) ==
  \/ b.op = "del"
  \/ b.op = "put" /\ (b.exp = NoExpiry \/ version = "expiry")

Expired(b, t) == b.exp <= t

-----------------------------------------------------------------------------
(* Memory of the Db.                                                       *)

Closed ==
  [up |-> FALSE, files |-> <<>>, multi |-> FALSE, next |-> 1, obsolete |-> {}, pending |-> {},
   retired |-> {}, keydir |-> [k \in {} |-> 0], dead |-> 0, poisoned |-> FALSE, unsynced |-> FALSE]

DataFile(id, f, version) == [id |-> id, file |-> f, version |-> version, live |-> 0, dead |-> 0]

Active(b) == b.files[Len(b.files)]

Record(d, e) == d.files[e.file].data[e.off]

(* live and dead records of file f change *)
Count(b, f, live, dead) ==
  [b EXCEPT !.files = [i \in DOMAIN @ |->
     IF @[i].file = f THEN [@[i] EXCEPT !.live = @ + live, !.dead = @ + dead] ELSE @[i]]]

AddDead(b, f) == [Count(b, f, 0, 1) EXCEPT !.dead = @ + 1]

(* k's record, if it has one, is no longer pointed at *)
Supersede(b, k) ==
  IF k \in DOMAIN b.keydir
  THEN [Count(b, b.keydir[k].file, -1, 1) EXCEPT !.dead = @ + 1]
  ELSE b

Forget(b, k) == [Supersede(b, k) EXCEPT !.keydir = Restrict(@, DOMAIN @ \ {k})]

Point(b, k, f, off) ==
  [b EXCEPT !.keydir = [j \in DOMAIN @ \union {k} |->
     IF j = k THEN [file |-> f, off |-> off] ELSE @[j]]]

(* A record, read from the log or from a hint, or just appended. *)
ApplyRecord(b, f, off, r, t) ==
  IF r.op = "del" \/ Expired(r, t)
  THEN AddDead(Forget(b, r.key), f)
  ELSE Point(Count(Supersede(b, r.key), f, 1, 0), r.key, f, off)

(* The records rs, the first of them at block `from` of file f. *)
ApplyAll(b, f, from, rs, t) ==
  FoldLeft(LAMBDA a, i : ApplyRecord(a, f, from + i - 1, rs[i], t), b, [i \in 1..Len(rs) |-> i])

-----------------------------------------------------------------------------
(* What the store holds, as get and iterator report it.                    *)

Absent  == <<>>
Corrupt == <<"corrupt">>

Read(d, e, k, t) ==
  IF e.file \notin DOMAIN d.files \/ e.off > Len(d.files[e.file].data) THEN Corrupt
  ELSE LET r == Record(d, e)
       IN  IF r.op # "put" \/ r.key # k THEN Corrupt
           ELSE IF Expired(r, t) THEN Absent ELSE <<r.val, r.exp>>

View(b, d, t) ==
  [k \in Key |-> IF k \in DOMAIN b.keydir THEN Read(d, b.keydir[k], k, t) ELSE Absent]

Unexpired(map, t) == [k \in Key |-> IF map[k] # Absent /\ map[k][2] <= t THEN Absent ELSE map[k]]

-----------------------------------------------------------------------------
(* Storage calls, in the order an operation makes them.  `err` is what the *)
(* operation does when the call fails, `mem` what it does to the memory of *)
(* the Db when it has succeeded.                                           *)

NoMem == [op |-> "none"]

Call(do, name) ==
  [do |-> do, name |-> name, to |-> name, blocks |-> <<>>, len |-> 0, err |-> "poison", mem |-> NoMem]

Opening(n)       == Call("open", n)
Creating(n)      == Call("create", n)
Writing(n, bs)   == [Call("write", n) EXCEPT !.blocks = bs]
Syncing(n)       == Call("sync", n)
Cutting(n, len)  == [Call("cut", n) EXCEPT !.len = len]
Renaming(n, to)  == [Call("rename", n) EXCEPT !.to = to]
Deleting(n)      == Call("delete", n)
SyncingDir       == Call("syncDir", Path)

(* deleteDataFile: the hint, then the data file. *)
DeletingData(id) == <<Deleting(HintName(id)), Deleting(DataName(id))>>

Exec(d, c) ==
  CASE c.do = "open"       -> OpenOrCreate(d, c.name)
    [] c.do = "create"     -> CreateTruncate(d, c.name)
    [] c.do = "write"      -> WriteAll(d, c.name, c.blocks)
    [] c.do = "sync"       -> SyncFile(d, c.name)
    [] c.do = "cut"        -> Truncate(d, c.name, c.len)
    [] c.do = "rename"     -> Rename(d, c.name, c.to)
    [] c.do = "delete"     -> Delete(d, c.name)
    [] c.do = "syncDir"    -> SyncDir(d)

ExecAll(d, calls) == FoldLeft(Exec, d, calls)

(* What a failed call may have done: nothing, all of it unless it is an     *)
(* open, or part of a write; a merge output whose header failed is deleted. *)
Failed(d, c) ==
  LET left == {d}
        \union (IF c.do \in {"open", "create"} THEN {} ELSE {Exec(d, c)})
        \union (IF c.do = "write" THEN {WriteAll(d, c.name, <<Torn>>)} ELSE {})
  IN  IF c.mem.op = "started" THEN {Delete(Delete(e, HintName(c.name[2])), c.name) : e \in left} ELSE left

OnError(err, calls) == [i \in DOMAIN calls |-> [calls[i] EXCEPT !.err = err]]

(* The memory changes once the last of the calls has succeeded. *)
Then(calls, mem) == [calls EXCEPT ![Len(calls)].mem = mem]

IfThere(d, n, c) == IF Exists(d, n) THEN <<c>> ELSE <<>>

-----------------------------------------------------------------------------
(* open: the calls recovery makes, and the memory it builds.               *)

(* No whole header: an empty file, or the remnant of a crashed creation. *)
Blank(d) == Content(d, Path) \in {<<>>, <<Torn>>}

(* The last block of the records that check out, from block `from` on. *)
ValidTo(data, from) ==
  CHOOSE n \in from - 1 .. Len(data) :
    /\ \A i \in from..n : IsRecord(data[1].version, data[i])
    /\ n = Len(data) \/ ~IsRecord(data[1].version, data[n + 1])

UsableHint(d, id) ==
  LET h == Content(d, HintName(id))
  IN  /\ h # <<>>
      /\ h[1].op = "hint"
      /\ h[1].len <= Len(Content(d, NameOf(id)))

(* Adopt data file id and apply its hint, if it has one, then its records. *)
LoadFile(b, d, id) ==
  LET f    == FileOf(d, NameOf(id))
      data == d.files[f].data
      a    == [b EXCEPT !.files = Append(@, DataFile(id, f, data[1].version))]
      hint == IF id # Legacy /\ UsableHint(d, id) THEN Content(d, HintName(id))[1].records ELSE <<>>
      from == 2 + Len(hint)
      n    == ValidTo(data, from)
  IN  ApplyAll(ApplyAll(a, f, 2, hint, now), f, from, SubSeq(data, from, n), now)

(* Where the records of data file id stop checking out. *)
GoodLen(d, id) ==
  LET data == Content(d, NameOf(id))
  IN  ValidTo(data, IF id # Legacy /\ UsableHint(d, id) THEN 1 + Content(d, HintName(id))[1].len ELSE 2)

Whole(d, id) == GoodLen(d, id) = Len(Content(d, NameOf(id)))

CutTail(d, id) ==
  IF Whole(d, id) THEN <<>>
  ELSE <<Cutting(NameOf(id), GoodLen(d, id)), Syncing(NameOf(id))>>

HasHeader(d, id) ==
  Content(d, NameOf(id)) # <<>> /\ Content(d, NameOf(id))[1].op = "header"

(* Ids past the manifest's next one, up to the first that has no file. *)
Strays(d, next) ==
  LET Run(n) == next..(next + n - 1)
      n == CHOOSE n \in 0..Cardinality(DOMAIN d.names) :
             /\ \A i \in Run(n) : Exists(d, DataName(i))
             /\ ~Exists(d, DataName(next + n))
  IN  [i \in 1..(n + 1) |-> next + i - 1]

DeletingAll(d, ids) ==
  FlattenSeq([i \in DOMAIN ids |->
    IF Exists(d, DataName(ids[i])) \/ Exists(d, HintName(ids[i])) THEN DeletingData(ids[i]) ELSE <<>>])

Ascending(ids) == SetToSortSeq(ids, LAMBDA i, j : i < j)

(* Refused is error.Corrupt. *)
Refused == [ok |-> FALSE, calls |-> <<>>, db |-> Closed]

LoadFresh(d, calls) ==
  [ok    |-> TRUE,
   calls |-> calls \o <<SyncingDir>>,
   db    |-> [LoadFile(Closed, d, Legacy) EXCEPT !.up = TRUE]]

LoadSingle(d, calls) ==
  LET last == IfThere(d, ManifestTmp, Deleting(ManifestTmp)) \o CutTail(d, Legacy)
  IN  [ok    |-> TRUE,
       calls |-> calls \o last \o <<SyncingDir>>,
       db    |-> [LoadFile(Closed, d, Legacy) EXCEPT !.up = TRUE]]

LoadManifest(d, calls) ==
  LET m    == Content(d, Path)[1]
      act  == m.ids[Len(m.ids)]
      last == IfThere(d, ManifestTmp, Deleting(ManifestTmp))
                \o DeletingAll(d, Ascending(m.obsolete)) \o DeletingAll(d, Strays(d, m.next))
      e    == ExecAll(d, last)
      b    == [Closed EXCEPT !.up = TRUE, !.multi = TRUE, !.next = m.next]
  IN  IF /\ \A i \in DOMAIN m.ids : m.ids[i] < m.next /\ HasHeader(e, m.ids[i])
         /\ Content(e, DataName(act))[1].version = "expiry"
         /\ \A i \in 1..(Len(m.ids) - 1) : Whole(e, m.ids[i])
      THEN [ok    |-> TRUE,
            calls |-> calls \o last \o CutTail(e, act) \o <<SyncingDir>>,
            db    |-> FoldLeft(LAMBDA a, id : LoadFile(a, e, id), b, m.ids)]
      ELSE Refused

Load(d) ==
  LET first  == IfThere(d, CompactTmp, Deleting(CompactTmp)) \o <<Opening(Path)>>
      d1     == ExecAll(d, first)
      resume == Blank(d1) /\ Exists(d1, DataName(0))
      second == IF resume THEN <<Renaming(ManifestTmp, Path), SyncingDir>> ELSE <<>>
      d2     == ExecAll(d1, second)
      fresh  == <<Cutting(Path, 0), Writing(Path, <<Header("plain")>>), Syncing(Path)>>
  IN  IF resume /\ ~Exists(d1, ManifestTmp) THEN Refused
      ELSE IF Blank(d2) THEN LoadFresh(ExecAll(d2, fresh), first \o second \o fresh)
      ELSE IF Content(d2, Path)[1] = Torn THEN Refused
      ELSE IF Content(d2, Path)[1].op = "manifest" THEN LoadManifest(d2, first \o second)
      ELSE LoadSingle(d2, first \o second)

-----------------------------------------------------------------------------
(* The writers' operations, as calls.                                      *)

Size(d, f) == Len(d.files[f].data) - 1   \* records in data file f

ManifestTemp(ids, next, obsolete) ==
  <<Creating(ManifestTmp), Writing(ManifestTmp, <<Manifest(ids, next, obsolete)>>), Syncing(ManifestTmp)>>

(* Mutant: the file a manifest is about to name is not synced. *)
UnsyncedNewFile(b, id) == <<Creating(DataName(id)), Writing(DataName(id), <<Header("expiry")>>)>>

NewFile(b, id) == <<Creating(DataName(id)), Writing(DataName(id), <<Header("expiry")>>), Syncing(DataName(id))>>

Seal(b) == <<Syncing(NameOf(Active(b).id))>>

(* Mutant: the data file is renamed before the manifest that names it exists. *)
RenameFirst(b, temp) ==
  (IF b.multi THEN <<>> ELSE <<Renaming(Path, DataName(0)), SyncingDir>>) \o temp \o <<Renaming(ManifestTmp, Path), SyncingDir>>

(* The manifest, and before it the rename that turns a single-file store    *)
(* into a multi-file one.                                                   *)
Naming(b, temp) ==
  temp \o (IF b.multi THEN <<>> ELSE <<Renaming(Path, DataName(0)), SyncingDir>>) \o <<Renaming(ManifestTmp, Path), SyncingDir>>

(* rotateLocked: seal the active file, create the next one, name both. *)
RotateCalls(b) ==
  LET id   == b.next
      ids  == Append([i \in DOMAIN b.files |-> IF b.files[i].id = Legacy THEN 0 ELSE b.files[i].id], id)
      temp == ManifestTemp(ids, id + 1, b.obsolete \union b.pending)
  IN  Then(Seal(b) \o NewFile(b, id) \o Naming(b, temp), [op |-> "rotated", id |-> id])

(* Is an fsync due after this write?  The sync clock may say either. *)
Due == CASE Policy = "always" -> {TRUE} [] Policy = "none" -> {FALSE} [] Policy = "interval" -> BOOLEAN

(* Mutant: the keydir points at the record before it is synced. *)
EarlyAppend(name, r, due) ==
  Then(<<Writing(name, <<r>>)>>, [op |-> "applied", rec |-> r, due |-> due])
    \o (IF due THEN <<Syncing(name)>> ELSE <<>>)

WriteAndSync(name, r, due) ==
  Then(<<Writing(name, <<r>>)>> \o (IF due THEN <<Syncing(name)>> ELSE <<>>),
       [op |-> "applied", rec |-> r, due |-> due])

(* appendLocked, and what put and delete do once it has returned. *)
AppendCalls(b, d, r, due) ==
  LET full == Size(d, Active(b).file) >= MaxFileRecords
      name == IF full THEN DataName(b.next) ELSE NameOf(Active(b).id)
  IN  (IF full THEN RotateCalls(b) ELSE <<>>) \o WriteAndSync(name, r, due)

LiveKeys(b, d) == {k \in DOMAIN b.keydir : ~Expired(Record(d, b.keydir[k]), now)}

LiveRecords(b, d) ==
  LET keys == SetToSeq(LiveKeys(b, d)) IN [i \in DOMAIN keys |-> Record(d, b.keydir[keys[i]])]

(* compactLocked *)
CompactCalls(b, d, version) ==
  OnError("undo", <<Creating(CompactTmp),
                    Writing(CompactTmp, <<Header(version)>> \o LiveRecords(b, d)),
                    Syncing(CompactTmp)>>)
    \o Then(<<Renaming(CompactTmp, Path), SyncingDir>>, [op |-> "compacted"])

(* A merge output: startOutput, and finishOutput with its hint. *)
StartCalls(id) ==
  <<[Creating(DataName(id)) EXCEPT !.mem = [op |-> "named", id |-> id]],
    [Writing(DataName(id), <<Header("expiry")>>) EXCEPT !.mem = [op |-> "started", id |-> id]]>>

FinishCalls(id, records) ==
  Then(<<Syncing(DataName(id)), Creating(HintName(id)), Writing(HintName(id), <<Hint(records)>>),
         Syncing(HintName(id))>>, [op |-> "finished"])

(* retireFiles: a failed deletion leaves the id obsolete *)
RetireCalls(ids) ==
  OnError("skip", FlattenSeq([i \in DOMAIN ids |-> Then(DeletingData(ids[i]), [op |-> "retired", id |-> ids[i]])]))

Ids(files) == [i \in DOMAIN files |-> files[i].id]

(* From the manifest's rename on there is no way back. *)
SwapAll(outs, old) ==
  Then(<<Renaming(ManifestTmp, Path), SyncingDir>>, [op |-> "compactedAll", outs |-> outs]) \o RetireCalls(old)

(* mergeAllLocked: the live records in chunks, each into a file of its own. *)
MergeAllCalls(b, d) ==
  LET rs   == LiveRecords(b, d)
      n    == IF rs = <<>> THEN 1 ELSE (Len(rs) + MaxFileRecords - 1) \div MaxFileRecords
      Chunk(j) == SubSeq(rs, (j - 1) * MaxFileRecords + 1,
                             IF j * MaxFileRecords < Len(rs) THEN j * MaxFileRecords ELSE Len(rs))
      Output(j) == LET id == b.next + j - 1
                   IN  StartCalls(id) \o (IF rs = <<>> THEN <<>> ELSE <<Writing(DataName(id), Chunk(j))>>)
                         \o FinishCalls(id, Chunk(j))
      outs == [j \in 1..n |-> b.next + j - 1]
      old  == Ids(b.files)
      temp == ManifestTemp(outs, b.next + n, b.obsolete \union ToSet(old))
  IN  OnError("undo", FlattenSeq([j \in 1..n |-> Output(j)]) \o temp) \o SwapAll(outs, old)

(* What a compaction does when a call before its swap fails. *)
DeletingOutputs(ids) == OnError("skip", FlattenSeq([i \in DOMAIN ids |-> DeletingData(ids[i])]))

(* After a failed call whose error is ignored: no deletion of a data file    *)
(* whose hint could not be deleted.                                          *)
AfterSkip(calls) == IF Head(calls).name[1] = "hint" THEN Tail(Tail(calls)) ELSE Tail(calls)

UndoCalls(b) ==
  IF b.multi THEN DeletingOutputs(Ascending(b.pending)) ELSE OnError("skip", <<Deleting(CompactTmp)>>)

-----------------------------------------------------------------------------
(* What the calls' successes do to the memory.                             *)

Pinned(f) == iter.on /\ \E k \in DOMAIN iter.items : iter.items[k].file = f

(* Mutant: every handle is closed at once. *)
ClosingRelease(b, fs) == b

(* releaseLocked: the handle stays while an iterator pins the file *)
Release(b, fs) == [b EXCEPT !.retired = @ \union {f \in fs : Pinned(f)}]

FilesOf(b) == {b.files[i].file : i \in DOMAIN b.files}

(* The data files ids, holding exactly the live records. *)
Rebuilt(b, d, ids) ==
  LET a == [Release(b, FilesOf(b)) EXCEPT
              !.files = <<>>, !.keydir = [k \in {} |-> 0], !.dead = 0, !.unsynced = FALSE]
      Adopt(c, id) ==
        LET f    == FileOf(d, NameOf(id))
            data == d.files[f].data
        IN  ApplyAll([c EXCEPT !.files = Append(@, DataFile(id, f, data[1].version))],
                     f, 2, Tail(data), 0)
  IN  FoldLeft(Adopt, a, ids)

(* The swap of merge: outputs in the place of the newest merged file; keys  *)
(* rewritten meanwhile keep their newer record.                             *)
Merged(b) == {i \in DOMAIN b.files : b.files[i].file \in merge.sel}

(* Mutant: outputs in the place of the oldest merged file. *)
OldestPlace(b) == CHOOSE i \in Merged(b) : \A j \in Merged(b) : i <= j

Place(b) == CHOOSE i \in Merged(b) : \A j \in Merged(b) : j <= i

MergedFiles(b) ==
  LET Keep(df) == df.file \notin merge.sel
      outs == [i \in DOMAIN merge.outs |->
                 [DataFile(merge.outs[i].id, merge.outs[i].file, "expiry") EXCEPT !.dead = merge.outs[i].dead]]
  IN  SelectSeq(SubSeq(b.files, 1, Place(b)), Keep) \o outs
        \o SelectSeq(SubSeq(b.files, Place(b) + 1, Len(b.files)), Keep)

(* Mutant: a key rewritten during the copy is moved back. *)
BlindMoved(b, m) ==
  IF m.to = <<>> THEN [b EXCEPT !.keydir = Restrict(@, DOMAIN @ \ {m.key})]
  ELSE Point(Count(b, m.to[1].file, 1, 0), m.key, m.to[1].file, m.to[1].off)

Moved(b, m) ==
  IF m.key \notin DOMAIN b.keydir \/ b.keydir[m.key] # m.from
  THEN IF m.to = <<>> THEN b ELSE AddDead(b, m.to[1].file)
  ELSE IF m.to = <<>> THEN [b EXCEPT !.keydir = Restrict(@, DOMAIN @ \ {m.key})]
  ELSE Point(Count(b, m.to[1].file, 1, 0), m.key, m.to[1].file, m.to[1].off)

Sum(seq) == FoldLeft(LAMBDA a, x : a + x, 0, seq)

Swapped(b) ==
  LET Dead(files) == Sum([i \in DOMAIN files |-> files[i].dead])
      gone  == Dead(SelectSeq(b.files, LAMBDA df : df.file \in merge.sel))
      a == [b EXCEPT !.files = MergedFiles(b), !.dead = @ + Dead(merge.outs) - gone]
  IN  Release(FoldLeft(Moved, a, merge.moves), merge.sel)

Remember(b, d, m) ==
  CASE m.op = "none"    -> b
    [] m.op = "applied" ->
         LET f == Active(b).file
         IN  [ApplyRecord(b, f, Len(d.files[f].data), m.rec, 0) EXCEPT !.unsynced = ~m.due]
    [] m.op = "rotated" ->
         [b EXCEPT !.files = Append([i \in DOMAIN @ |-> IF @[i].id = Legacy THEN [@[i] EXCEPT !.id = 0] ELSE @[i]],
                                    DataFile(m.id, FileOf(d, DataName(m.id)), "expiry")),
                   !.multi = TRUE, !.next = m.id + 1, !.unsynced = FALSE]
    [] m.op = "compacted" -> Rebuilt(b, d, <<Legacy>>)
    [] m.op = "compactedAll" ->
         [Rebuilt(b, d, m.outs) EXCEPT !.obsolete = @ \union ToSet(Ids(b.files)), !.pending = {}]
    [] m.op = "named"    -> [b EXCEPT !.next = m.id + 1]
    [] m.op = "started"  -> [b EXCEPT !.pending = @ \union {m.id}]
    [] m.op \in {"finished", "copied"} -> b
    [] m.op = "swapped"  -> Swapped(b)
    [] m.op = "retired"  -> [b EXCEPT !.obsolete = @ \ {m.id}]
    [] m.op = "synced"   -> [b EXCEPT !.unsynced = FALSE]
    [] m.op = "opened"   -> Load(d).db
    [] m.op = "closed"   -> Closed

-----------------------------------------------------------------------------
NoTask  == [kind |-> "none", calls |-> <<>>, rec |-> <<>>]
NoMerge == [phase |-> "off", sel |-> {}, at |-> 0, left |-> <<>>, hold |-> <<>>, outs |-> <<>>,
            moves |-> <<>>, calls |-> <<>>, finished |-> FALSE]
NoIter  == [on |-> FALSE, items |-> [k \in {} |-> 0], saw |-> [k \in Key |-> Absent]]

NoneYet == [writes |-> 0, compacts |-> 0, merges |-> 0, iterators |-> 0, closes |-> 0,
            errors |-> 0, kills |-> 0, losses |-> 0]

Init ==
  /\ disk = EmptyDisk
  /\ db = Closed
  /\ lock = "free"
  /\ task = NoTask
  /\ merge = NoMerge
  /\ iter = NoIter
  /\ maybe = {[k \in Key |-> Absent]}
  /\ adopted = FALSE
  /\ now = 0
  /\ count = NoneYet

Once(what, bound) ==
  /\ count[what] < bound
  /\ count' = [count EXCEPT ![what] = @ + 1]

(* The storage is d and the memory b. *)
Become(d, b) ==
  /\ disk' = Collect(d, FilesOf(b) \union b.retired)
  /\ db' = b

(* The contents a crash may leave once m has made the memory b: a durability *)
(* barrier leaves no choice.                                                 *)
IsBarrier(m) ==
  \/ m.op \in {"compacted", "compactedAll", "synced", "closed"}
  \/ m.op = "applied" /\ m.due
  \/ m.op = "opened" /\ ~adopted

Promised(d, b, m) ==
  IF IsBarrier(m) THEN {View(IF m.op = "closed" THEN db ELSE b, d, now)} ELSE maybe

With(map, r) ==
  Unexpired([map EXCEPT ![r.key] = IF r.op = "del" THEN Absent ELSE <<r.val, r.exp>>], now)

-----------------------------------------------------------------------------
(* open and the writers.                                                   *)

Start(kind, calls) ==
  /\ lock = "free"
  /\ lock' = "writer"
  /\ task' = [kind |-> kind, calls |-> calls, rec |-> <<>>]
  /\ UNCHANGED <<disk, db, merge, iter, adopted, now>>

Open ==
  /\ ~db.up
  /\ Load(disk).ok
  /\ Start("open", Then(Load(disk).calls, [op |-> "opened"]))
  /\ UNCHANGED <<maybe, count>>

Writable == db.up /\ ~db.poisoned

AppendRecord(r) ==
  /\ \E due \in Due : Start("write", AppendCalls(db, disk, r, due))
  /\ maybe' = maybe \union {With(View(db, disk, now), r)}

Put(k, v) ==
  /\ Writable
  /\ Once("writes", MaxWrites)
  /\ AppendRecord(PutRecord(k, v, NoExpiry))

(* The first one into a version-1 store compacts it to version 2 first. *)
PutExpiring(k, v, e) ==
  /\ Writable
  /\ Once("writes", MaxWrites)
  /\ LET r == PutRecord(k, v, e)
     IN  IF Active(db).version = "expiry" THEN AppendRecord(r)
         ELSE /\ lock = "free"
              /\ lock' = "writer"
              /\ task' = [kind |-> "write", calls |-> CompactCalls(db, disk, "expiry"), rec |-> <<r>>]
              /\ UNCHANGED <<disk, db, merge, iter, maybe, adopted, now>>

DeleteKey(k) ==
  /\ Writable
  /\ k \in DOMAIN db.keydir
  /\ Once("writes", MaxWrites)
  /\ AppendRecord(DelRecord(k))

Sync ==
  /\ Writable
  /\ db.unsynced
  /\ Start("sync", Then(<<Syncing(NameOf(Active(db).id))>>, [op |-> "synced"]))
  /\ UNCHANGED <<maybe, count>>

Compact ==
  /\ Writable
  /\ merge.phase = "off"
  /\ Once("compacts", MaxCompacts)
  /\ Start("compact", IF db.multi THEN MergeAllCalls(db, disk) ELSE CompactCalls(db, disk, Active(db).version))
  /\ UNCHANGED maybe

Close ==
  /\ db.up
  /\ lock = "free"
  /\ merge.phase = "off"
  /\ ~iter.on
  /\ Once("closes", MaxCloses)
  /\ IF db.unsynced /\ ~db.poisoned
     THEN /\ lock' = "writer"
          /\ task' = [kind  |-> "close",
                      calls |-> OnError("skip", Then(<<Syncing(NameOf(Active(db).id))>>, [op |-> "closed"])),
                      rec   |-> <<>>]
          /\ UNCHANGED <<disk, db, adopted>>
     ELSE /\ Become(disk, Closed)
          /\ adopted' = (adopted \/ db.poisoned)
          /\ UNCHANGED <<lock, task>>
  /\ UNCHANGED <<merge, iter, maybe, now>>

(* Mutant: the lock is not released. *)
StuckContinue(calls, rec) ==
  /\ task' = IF calls = <<>> THEN NoTask ELSE [task EXCEPT !.calls = calls, !.rec = rec]
  /\ lock' = "writer"

(* The rest of the operation, and the lock when there is none. *)
Continue(calls, rec) ==
  /\ task' = IF calls = <<>> THEN NoTask ELSE [task EXCEPT !.calls = calls, !.rec = rec]
  /\ lock' = IF calls = <<>> THEN "free" ELSE "writer"

WriterStep ==
  /\ task.calls # <<>>
  /\ LET c    == Head(task.calls)
         rest == Tail(task.calls)
         d    == Exec(disk, c)
         b    == Remember(db, d, c.mem)
         m    == Promised(d, b, c.mem)
     IN  /\ Become(d, b)
         /\ IF rest = <<>> /\ task.rec # <<>>
            THEN /\ \E due \in Due : Continue(AppendCalls(b, d, task.rec[1], due), <<>>)
                 /\ maybe' = m \union {With(View(b, d, now), task.rec[1])}
            ELSE Continue(rest, task.rec) /\ maybe' = m
         /\ adopted' = (adopted /\ ~IsBarrier(c.mem))
  /\ UNCHANGED <<merge, iter, now, count>>

(* A storage call of the writer fails. *)
WriterFails ==
  /\ task.calls # <<>>
  /\ Once("errors", MaxErrors)
  /\ LET c == Head(task.calls)
     IN  \/ /\ c.err = "poison"
            /\ \E d \in Failed(disk, c) : Become(d, IF db.up THEN [db EXCEPT !.poisoned = TRUE] ELSE Closed)
            /\ Continue(<<>>, <<>>)
         \/ /\ c.err = "undo"
            /\ \E d \in Failed(disk, c) :
                 Become(d, [db EXCEPT !.next = IF c.mem.op = "named" THEN c.mem.id + 1 ELSE @, !.pending = {}])
            /\ Continue(UndoCalls(db), <<>>)
         \/ /\ c.err = "skip"
            /\ Become(disk, IF c.mem.op = "closed" THEN Closed ELSE db)
            /\ Continue(AfterSkip(task.calls), task.rec)
  /\ adopted' = (adopted \/ task.kind \in {"open", "close"})
  /\ UNCHANGED <<merge, iter, maybe, now>>

-----------------------------------------------------------------------------
(* merge: everything but the creation of an output and the swap runs       *)
(* without Db.lock.                                                        *)

MergeStart ==
  /\ db.up
  /\ db.multi
  /\ merge.phase = "off" /\ task.kind \notin {"compact", "close"}
  /\ Once("merges", MaxMerges)
  /\ \E ps \in SUBSET (1..(Len(db.files) - 1)) :
       LET Records(p) ==
             [i \in 1..Size(disk, db.files[p].file) |->
                [file |-> db.files[p].file, off |-> i + 1, keep |-> \E q \in 1..(p - 1) : q \notin ps]]
           order    == Ascending(ps)
           expiring == \E k \in DOMAIN db.keydir : Record(disk, db.keydir[k]).exp # NoExpiry
       IN  /\ ps # {}
           /\ merge' = [NoMerge EXCEPT !.phase = "copy",
                                       !.sel = {db.files[p].file : p \in ps},
                                       !.at = IF expiring THEN now ELSE 0,
                                       !.left = FlattenSeq([i \in DOMAIN order |-> Records(order[i])])]
  /\ UNCHANGED <<disk, db, lock, task, iter, maybe, adopted, now>>

(* A deletion, or a record found expired, must go on hiding the values of   *)
(* its key in older files that stay outside the merge.                      *)
NeedsMarker(keep, r, present, ended) == keep /\ (ended \/ (r.op = "del" /\ ~present))

(* Look the next record up in the keydir: does it, or a marker for it, go on? *)
MergeExamine ==
  /\ merge.phase = "copy"
  /\ merge.calls = <<>> /\ merge.hold = <<>> /\ merge.left # <<>>
  /\ LET x       == Head(merge.left)
         from    == [file |-> x.file, off |-> x.off]
         r       == Record(disk, from)
         present == r.key \in DOMAIN db.keydir
         live    == present /\ r.op = "put" /\ db.keydir[r.key] = from
         ended   == live /\ Expired(r, merge.at)
         marker  == NeedsMarker(x.keep, r, present, ended)
     IN  merge' = [merge EXCEPT
           !.left  = Tail(@),
           !.hold  = IF marker THEN <<[rec |-> DelRecord(r.key), from |-> from]>>
                     ELSE IF live /\ ~ended THEN <<[rec |-> r, from |-> from]>> ELSE <<>>,
           !.moves = IF ended THEN Append(@, [key |-> r.key, from |-> from, to |-> <<>>]) ELSE @]
  /\ UNCHANGED <<disk, db, lock, task, iter, maybe, adopted, now, count>>

Output == merge.outs[Len(merge.outs)]

FinishOutput == OnError("undo", FinishCalls(Output.id, Tail(Content(disk, DataName(Output.id)))))

(* mergeWrite: into the current output, or a new one when that is full. *)
MergeWrite ==
  /\ merge.phase = "copy"
  /\ merge.calls = <<>> /\ merge.hold # <<>>
  /\ LET full == IF merge.outs = <<>> THEN TRUE ELSE Size(disk, Output.file) >= MaxFileRecords
     IN  \/ /\ ~full
            /\ merge' = [merge EXCEPT !.calls =
                 OnError("undo", Then(<<Writing(DataName(Output.id), <<merge.hold[1].rec>>)>>, [op |-> "copied"]))]
            /\ UNCHANGED lock
         \/ /\ full /\ merge.outs # <<>> /\ ~merge.finished
            /\ merge' = [merge EXCEPT !.calls = FinishOutput]
            /\ UNCHANGED lock
         \/ /\ full /\ (merge.outs = <<>> \/ merge.finished)
            /\ lock = "free"
            /\ lock' = "merge"
            /\ merge' = [merge EXCEPT !.calls = OnError("undo", StartCalls(db.next))]
  /\ UNCHANGED <<disk, db, task, iter, maybe, adopted, now, count>>

MergeFinish ==
  /\ merge.phase = "copy"
  /\ merge.calls = <<>> /\ merge.hold = <<>> /\ merge.left = <<>>
  /\ merge.outs # <<>> /\ ~merge.finished
  /\ merge' = [merge EXCEPT !.calls = FinishOutput]
  /\ UNCHANGED <<disk, db, lock, task, iter, maybe, adopted, now, count>>

SelIds(b) == {b.files[i].id : i \in {i \in DOMAIN b.files : b.files[i].file \in merge.sel}}

MergeSwap ==
  /\ merge.phase = "copy"
  /\ merge.calls = <<>> /\ merge.hold = <<>> /\ merge.left = <<>>
  /\ merge.outs = <<>> \/ merge.finished
  /\ lock = "free"
  /\ IF db.poisoned
     THEN merge' = [merge EXCEPT !.phase = "abort"] /\ UNCHANGED <<db, lock>>
     ELSE /\ lock' = "merge"
          /\ db' = [db EXCEPT !.obsolete = @ \union SelIds(db), !.pending = @ \ ToSet(Ids(merge.outs))]
          /\ merge' = [merge EXCEPT
               !.phase = "swap",
               !.calls = OnError("undo", ManifestTemp(Ids(MergedFiles(db)), db.next, db'.obsolete \union db'.pending))
                           \o Then(<<Renaming(ManifestTmp, Path), SyncingDir>>, [op |-> "swapped"])
                           \o RetireCalls(Ascending(SelIds(db)))]
  /\ UNCHANGED <<disk, task, iter, maybe, adopted, now, count>>

(* What the success of its call c, which left the storage d, does to the merge. *)
MergeRemember(c, d) ==
  LET m == [merge EXCEPT !.calls = Tail(@)]
      h == merge.hold[1]
      to == [file |-> Output.file, off |-> Len(d.files[Output.file].data)]
  IN  CASE c.mem.op = "started" ->
             [m EXCEPT !.outs = Append(@, [id |-> c.mem.id, file |-> FileOf(d, c.name), dead |-> 0]),
                       !.finished = FALSE]
        [] c.mem.op = "finished" -> [m EXCEPT !.finished = TRUE]
        [] c.mem.op = "copied" /\ h.rec.op = "del" ->
             [m EXCEPT !.hold = <<>>, !.outs[Len(merge.outs)].dead = @ + 1]
        [] c.mem.op = "copied" /\ h.rec.op = "put" ->
             [m EXCEPT !.hold = <<>>, !.moves = Append(@, [key |-> h.rec.key, from |-> h.from, to |-> <<to>>])]
        [] OTHER -> m

MergeStep ==
  /\ merge.calls # <<>>
  /\ LET c    == Head(merge.calls)
         d    == Exec(disk, c)
         over == merge.phase \in {"swap", "abort"} /\ Tail(merge.calls) = <<>>
     IN  /\ Become(d, Remember(db, d, c.mem))
         /\ merge' = IF over THEN NoMerge ELSE MergeRemember(c, d)
         /\ lock' = IF over \/ c.mem.op = "started" THEN "free" ELSE lock
  /\ UNCHANGED <<task, iter, maybe, adopted, now, count>>

(* Mutant: the merged files stay listed as obsolete. *)
ForgetfulUndone(b, c) == [b EXCEPT !.next = IF c.mem.op = "named" THEN c.mem.id + 1 ELSE @]

(* The memory after a call before the swap has failed. *)
Undone(b, c) ==
  [b EXCEPT !.next = IF c.mem.op = "named" THEN c.mem.id + 1 ELSE @,
            !.obsolete = IF merge.phase = "swap" THEN @ \ SelIds(b) ELSE @]

Unlock == lock' = IF lock = "merge" THEN "free" ELSE lock

(* A storage call of the merge fails. *)
MergeFails ==
  /\ merge.calls # <<>>
  /\ Once("errors", MaxErrors)
  /\ LET c == Head(merge.calls)
     IN  \/ /\ c.err = "poison"
            /\ \E d \in Failed(disk, c) : Become(d, [db EXCEPT !.poisoned = TRUE])
            /\ merge' = NoMerge
            /\ Unlock
         \/ /\ c.err = "undo"
            /\ \E d \in Failed(disk, c) : Become(d, Undone(db, c))
            /\ merge' = [merge EXCEPT !.phase = "abort", !.calls = <<>>]
            /\ Unlock
         \/ /\ c.err = "skip"
            /\ UNCHANGED <<disk, db>>
            /\ IF AfterSkip(merge.calls) = <<>> THEN merge' = NoMerge /\ Unlock
               ELSE merge' = [merge EXCEPT !.calls = AfterSkip(@)] /\ UNCHANGED lock
  /\ UNCHANGED <<task, iter, maybe, adopted, now>>

(* Delete the outputs no manifest names. *)
MergeAbort ==
  /\ merge.phase = "abort"
  /\ merge.calls = <<>>
  /\ lock = "free"
  /\ db' = [db EXCEPT !.pending = @ \ ToSet(Ids(merge.outs))]
  /\ IF merge.outs = <<>> THEN merge' = NoMerge /\ UNCHANGED lock
     ELSE merge' = [merge EXCEPT !.calls = DeletingOutputs(Ids(merge.outs))] /\ lock' = "merge"
  /\ UNCHANGED <<disk, task, iter, maybe, adopted, now, count>>

-----------------------------------------------------------------------------
(* Iterators, time and crashes.                                            *)

TakeIterator ==
  /\ db.up
  /\ ~iter.on /\ task.kind # "close"
  /\ Once("iterators", MaxIterators)
  /\ iter' = [on    |-> TRUE,
              items |-> Restrict(db.keydir, LiveKeys(db, disk)),
              saw   |-> View(db, disk, now)]
  /\ UNCHANGED <<disk, db, lock, task, merge, maybe, adopted, now>>

(* deinit: the last unpin of a retired file closes it *)
DropIterator ==
  /\ iter.on
  /\ lock = "free" \/ \A f \in db.retired : ~Pinned(f)
  /\ Become(disk, [db EXCEPT !.retired = {f \in @ : ~Pinned(f)}])
  /\ iter' = NoIter
  /\ UNCHANGED <<lock, task, merge, maybe, adopted, now, count>>

Tick ==
  /\ now < MaxClock
  /\ now' = now + 1
  /\ maybe' = {Unexpired(m, now') : m \in maybe}
  /\ UNCHANGED <<disk, db, lock, task, merge, iter, adopted, count>>

(* The process is gone; the storage is d. *)
Gone(d) ==
  /\ Become(d, Closed)
  /\ lock' = "free"
  /\ task' = NoTask
  /\ merge' = NoMerge
  /\ iter' = NoIter
  /\ UNCHANGED <<maybe, now>>

Kill ==
  /\ db.up \/ task # NoTask
  /\ Once("kills", MaxKills)
  /\ Gone(disk)
  /\ adopted' = TRUE

PowerLoss ==
  /\ Once("losses", MaxPowerLosses)
  /\ \E d \in AfterPowerLoss(disk) : Gone(d)
  /\ adopted' = FALSE

Next ==
  \/ Open \/ Sync \/ Compact \/ Close
  \/ \E k \in Key, v \in Value : Put(k, v)
  \/ \E k \in Key, v \in Value, e \in Expiries : PutExpiring(k, v, e)
  \/ \E k \in Key : DeleteKey(k)
  \/ WriterStep \/ WriterFails
  \/ MergeStart \/ MergeExamine \/ MergeWrite \/ MergeFinish \/ MergeSwap
  \/ MergeStep \/ MergeFails \/ MergeAbort
  \/ TakeIterator \/ DropIterator
  \/ Tick \/ Kill \/ PowerLoss

Spec == Init /\ [][Next]_vars

-----------------------------------------------------------------------------
(* Properties.                                                             *)

(* The lock is held exactly while an operation needs it; data files have    *)
(* distinct ids below next_file_id; no id is both in use and listed as      *)
(* obsolete or pending, which the next open would delete.                   *)
TypeOK ==
  /\ lock \in {"free", "writer", "merge"}
  /\ (lock = "writer") = (task.kind # "none")
  /\ DOMAIN db.keydir \subseteq Key
  /\ \A k \in DOMAIN db.keydir : db.keydir[k].file \in FilesOf(db)
  /\ \A i, j \in DOMAIN db.files : i # j => db.files[i].id # db.files[j].id
  /\ \A id \in ToSet(Ids(db.files)) \union db.obsolete \union db.pending : id < db.next
  /\ lock = "free" /\ ~db.poisoned => ToSet(Ids(db.files)) \intersect (db.obsolete \union db.pending) = {}
  /\ maybe # {}

(* What an open Db serves, for KvMap. *)
Served == IF db.up THEN <<View(db, disk, now)>> ELSE <<>>

Map == INSTANCE KvMap WITH served <- Served

(* The log is a map: what get returns changes only by a write of one key, by *)
(* time, or by a restart that finds one of the contents a crash may leave.   *)
(* The swap of a merge or compaction, a rotation, a failed write and         *)
(* recovery are invisible.                                                   *)
IsMap == Map!Spec

(* load accepts disk d and finds one of the contents `maybe` allows. *)
Recovers(d) == LET l == Load(d) IN l.ok /\ View(l.db, d, now) \in maybe

(* At whatever storage call the process dies, the next open accepts the      *)
(* files and finds every acknowledged write, the one in progress or not, and *)
(* nothing else: rotation, migration, compaction and merge leave no call     *)
(* sequence half done that load could misread.                               *)
KillSafe == Recovers(disk)

(* Whichever storage call fails, with or without effect: a writer or a       *)
(* compaction leaves files the next open accepts, and a merge that fails     *)
(* before its swap has given the store back as it was, with no live file     *)
(* listed as obsolete.  A merge in a poisoned Db is excepted.                *)
UndoSafe == (db.poisoned /\ count.merges > 0) \/ Recovers(disk)

(* The same when the machine loses power and every file may lose or tear     *)
(* what was not synced, every directory change since the last syncDir: the   *)
(* acknowledged writes the sync policy made durable are there, and the rest  *)
(* is a prefix of the writes.  A Db that took over unsynced files of a dead  *)
(* process is excepted until its first sync.                                 *)
PowerSafe == adopted \/ \A d \in AfterPowerLoss(disk) : Recovers(d)

(* Both of them: whatever a merge has copied, swapped or deleted so far,     *)
(* beside whatever writers did meanwhile, the death of the process or the    *)
(* loss of power now leaves files that open reads as one of the contents     *)
(* acknowledged.                                                             *)
CrashSafe == KillSafe /\ PowerSafe

(* What get returns was made durable first: with nothing reported unsynced,  *)
(* every record the keydir points at is below the synced end of its file.    *)
ServedIsDurable ==
  db.up /\ ~db.unsynced =>
    \A k \in DOMAIN db.keydir : db.keydir[k].off <= disk.files[db.keydir[k].file].synced

Quiet == db.up /\ ~db.poisoned /\ lock = "free"

(* Between writes the keydir serves exactly what replay of the files would:  *)
(* the order in which merge places its outputs loses or revives no key.      *)
MemoryIsLog == Quiet => View(Load(disk).db, disk, now) = View(db, disk, now)

(* The accounting merge planning uses never drifts: live counts the records  *)
(* the keydir points at, dead the others, and dead_bytes is their sum over   *)
(* the files - overwrites that race the copy of a merge included.            *)
CountsExact ==
  Quiet =>
    /\ \A i \in DOMAIN db.files :
         LET df == db.files[i]
         IN  /\ df.live = Cardinality({k \in DOMAIN db.keydir : db.keydir[k].file = df.file})
             /\ df.live + df.dead = Size(disk, df.file)
    /\ db.dead = Sum([i \in DOMAIN db.files |-> db.files[i].dead])

(* open's probe and the obsolete list leave no data file or hint behind that *)
(* the store does not know of.                                               *)
NoStrays ==
  Quiet /\ db.multi /\ merge.phase = "off" =>
    \A n \in DOMAIN disk.names :
      n[1] \in {"data", "hint"} => n[2] \in ToSet(Ids(db.files)) \union db.obsolete

(* An Iterator reads its snapshot to the end, whatever is written, merged or *)
(* deleted meanwhile: a pinned file is not closed under it.                  *)
IteratorStable ==
  iter.on => \A k \in DOMAIN iter.items : Read(disk, iter.items[k], k, 0) = iter.saw[k]

(* Between operations the open store agrees with its files: the keydir with *)
(* what a replay of the log gives, the live and dead counts with the        *)
(* records, and the directory with the files the store knows.               *)
MemoryMatchesDisk == MemoryIsLog /\ CountsExact /\ NoStrays
=============================================================================
