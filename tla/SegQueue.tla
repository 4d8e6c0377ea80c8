------------------------------ MODULE SegQueue ------------------------------
(****************************************************************************)
(* lockfree.SegQueue (modules/lockfree/src/segqueue.zig): an unbounded      *)
(* multi-producer multi-consumer queue of blocks.  One step is one atomic   *)
(* access of the code; private work (resetting a block one owns, linking    *)
(* it) rides on the access that precedes or publishes it.  Accesses are     *)
(* taken as sequentially consistent.                                        *)
(****************************************************************************)
EXTENDS Naturals, Sequences, FiniteSets

CONSTANTS
  Thread,
  BlockSlots,   \* opts.block_slots
  MaxBlocks,    \* addresses the allocator hands out
  MaxPush,      \* the most pushes of one thread
  Workloads     \* what a run starts from: `used` items pushed and popped and
                \* `filled` more pushed, in a run of calls one at a time, the
                \* calls each thread makes, and how many allocations and
                \* compare-and-swaps may fail for no reason of the queue's

ASSUME SlotsAssumption ==
  /\ BlockSlots \in Nat \ {0}
  /\ \A w \in Workloads : w.used < BlockSlots /\ w.used + w.filled < MaxBlocks * BlockSlots

VARIABLES
  head,     \* consumers' end: [index, block]
  tail,     \* producers' end: [index, block]
  seen,     \* head.tail_seen
  mem,      \* address -> block: [state, value, next, link]
  live,     \* addresses now allocated
  pending,  \* top of the stack of retired blocks
  spare,    \* the one block kept for reuse
  th,       \* thread -> where it is and its locals
  todo,     \* thread -> the calls it has yet to make
  refusals, \* allocations that may yet fail
  spurious, \* times cmpxchgWeak may yet fail for no reason
  claimed,  \* history: the item of every slot position producers have claimed
  out       \* thread -> what its last call returned, until the next call

shared == <<head, tail, seen, mem, live, pending, spare>>
limits == <<refusals, spurious>>
vars == <<shared, th, todo, limits, claimed, out>>

Null == 0
Block == 1..MaxBlocks
Poison == <<"poison">>
Nothing == <<"nothing">>
NotYet == <<"not yet">>
Ok == <<"ok">>
NoMemory == <<"out of memory">>

lap == BlockSlots + 1
closed == BlockSlots
Slots == 0..(BlockSlots - 1)
Off(pos) == pos % lap

slotsBefore(pos) == (pos \div lap) * closed + (pos % lap)

reset ==
  [state |-> [o \in Slots |-> "empty"], value |-> [o \in Slots |-> Poison],
   next |-> Null, link |-> Null]

Rest ==
  [op |-> "idle", pc |-> "idle", item |-> Nothing, pos |-> 0, blk |-> Null,
   nb |-> Null, list |-> Null, mark |-> 0, val |-> Nothing]

(* The state after `used` items came and went and `filled` more came, as the  *)
(* same calls made one after the other leave it.                              *)
Init ==
  \E w \in Workloads :
    LET n == w.used + w.filled
        blocks == 1..(n \div BlockSlots + 1)
        item(i) == <<"earlier", i>>
        Slot(b, o) == (b - 1) * BlockSlots + o + 1
    IN
    /\ head = [index |-> w.used, block |-> 1]
    /\ tail = [index |-> (n \div BlockSlots) * lap + (n % BlockSlots),
               block |-> n \div BlockSlots + 1]
    /\ seen = w.used
    /\ mem = [b \in Block |->
         [state |-> [o \in Slots |-> IF Slot(b, o) <= w.used THEN "read"
                                    ELSE IF Slot(b, o) <= n THEN "written" ELSE "empty"],
          value |-> [o \in Slots |-> IF Slot(b, o) <= n THEN item(Slot(b, o)) ELSE Poison],
          next |-> IF b + 1 \in blocks THEN b + 1 ELSE Null,
          link |-> Null]]
    /\ live = blocks
    /\ pending = Null
    /\ spare = Null
    /\ th = [t \in Thread |-> Rest]
    /\ todo = w.calls
    /\ refusals = w.refusals
    /\ spurious = w.spurious
    /\ claimed = [i \in 1..n |-> item(i)]
    /\ out = [t \in Thread |-> NotYet]

----------------------------------------------------------------------------
At(t, pc) == th[t].pc = pc
Goto(t, pc) == th' = [th EXCEPT ![t].pc = pc]
Last(t) == Off(th[t].pos) = closed - 1

(* The caller gets `result` and the thread is free again. *)
Return(t, result) ==
  /\ out' = [out EXCEPT ![t] = result]
  /\ th' = [th EXCEPT ![t] = Rest]

Call(t) ==
  /\ At(t, "idle")
  /\ \E op \in {"push", "pop"} :
       /\ todo[t][op] > 0
       /\ todo' = [todo EXCEPT ![t][op] = @ - 1]
       /\ th' = [th EXCEPT ![t] = [Rest EXCEPT !.op = op, !.pc = op,
                   !.item = IF op = "push" THEN <<t, todo[t].push>> ELSE Nothing]]
  /\ out' = [out EXCEPT ![t] = NotYet]
  /\ UNCHANGED <<shared, limits, claimed>>

(* A push or a pop that changed nothing reports it. *)
Report(t) ==
  /\ At(t, "report")
  /\ Return(t, th[t].val)
  /\ UNCHANGED <<shared, todo, limits, claimed>>

----------------------------------------------------------------------------
(* push *)

PushLoad(t) ==
  /\ At(t, "push")
  /\ Off(tail.index) # closed
  /\ th' = [th EXCEPT ![t].pos = tail.index,
              ![t].pc = IF Off(tail.index) = closed - 1 /\ th[t].nb = Null
                        THEN "takeBlock" ELSE "tailBlock"]
  /\ UNCHANGED <<shared, todo, limits, claimed, out>>

FreeAddress == CHOOSE b \in Block \ live : \A c \in Block \ live : b <= c

(* The spare, else a fresh block; the allocator may refuse. *)
takeBlock(t) ==
  /\ At(t, "takeBlock")
  /\ \/ /\ spare # Null
        /\ spare' = Null
        /\ mem' = [mem EXCEPT ![spare] = reset]
        /\ th' = [th EXCEPT ![t].nb = spare, ![t].pc = "tailBlock"]
        /\ UNCHANGED <<live, refusals>>
     \/ /\ spare = Null
        /\ live # Block
        /\ live' = live \union {FreeAddress}
        /\ mem' = [mem EXCEPT ![FreeAddress] = reset]
        /\ th' = [th EXCEPT ![t].nb = FreeAddress, ![t].pc = "tailBlock"]
        /\ UNCHANGED <<spare, refusals>>
     \/ /\ spare = Null
        /\ refusals > 0
        /\ refusals' = refusals - 1
        /\ th' = [th EXCEPT ![t].val = NoMemory, ![t].pc = "report"]
        /\ UNCHANGED <<mem, live, spare>>
  /\ UNCHANGED <<head, tail, seen, pending, todo, spurious, claimed, out>>

TailBlock(t) ==
  /\ At(t, "tailBlock")
  /\ th' = [th EXCEPT ![t].blk = tail.block, ![t].pc = "claimTail"]
  /\ UNCHANGED <<shared, todo, limits, claimed, out>>

End(t) == IF th[t].op = "push" THEN tail ELSE head

(* cmpxchgWeak lost, or failed for no reason: start over. *)
LostClaim(t) ==
  /\ th[t].pc \in {"claimTail", "claimHead"}
  /\ \/ End(t).index # th[t].pos /\ UNCHANGED spurious
     \/ End(t).index = th[t].pos /\ spurious > 0 /\ spurious' = spurious - 1
  /\ th' = [th EXCEPT ![t].pc = th[t].op, ![t].pos = 0, ![t].blk = Null]
  /\ UNCHANGED <<shared, todo, refusals, claimed, out>>

ClaimTail(t) ==
  /\ At(t, "claimTail")
  /\ tail.index = th[t].pos
  /\ tail' = [tail EXCEPT !.index = @ + 1]
  /\ claimed' = Append(claimed, th[t].item)
  /\ Goto(t, IF Last(t) THEN "install" ELSE "write")
  /\ UNCHANGED <<head, seen, mem, live, pending, spare, todo, limits, out>>

InstallBlock(t) ==
  /\ At(t, "install")
  /\ tail' = [tail EXCEPT !.block = th[t].nb]
  /\ Goto(t, "linkNext")
  /\ UNCHANGED <<head, seen, mem, live, pending, spare, todo, limits, claimed, out>>

LinkNext(t) ==
  /\ At(t, "linkNext")
  /\ mem' = [mem EXCEPT ![th[t].blk].next = th[t].nb]
  /\ Goto(t, "openLap")
  /\ UNCHANGED <<head, tail, seen, live, pending, spare, todo, limits, claimed, out>>

(* Mutant: the index is left on the closed position. *)
StuckOpenLap(t) ==
  /\ At(t, "openLap")
  /\ tail' = [tail EXCEPT !.index = th[t].pos + 1]
  /\ th' = [th EXCEPT ![t].nb = Null, ![t].pc = "write"]
  /\ UNCHANGED <<head, seen, mem, live, pending, spare, todo, limits, claimed, out>>

OpenLap(t) ==
  /\ At(t, "openLap")
  /\ tail' = [tail EXCEPT !.index = th[t].pos + 2]
  /\ th' = [th EXCEPT ![t].nb = Null, ![t].pc = "write"]
  /\ UNCHANGED <<head, seen, mem, live, pending, spare, todo, limits, claimed, out>>

(* The item and then `written`: no one reads the slot in between. *)
Publish(t) ==
  /\ At(t, "write")
  /\ mem' = [mem EXCEPT ![th[t].blk].value[Off(th[t].pos)] = th[t].item,
                        ![th[t].blk].state[Off(th[t].pos)] = "written"]
  /\ IF th[t].nb = Null THEN Return(t, Ok)
     ELSE Goto(t, "handBack") /\ UNCHANGED out
  /\ UNCHANGED <<head, tail, seen, live, pending, spare, todo, limits, claimed>>

(* Poison the items, make b the spare and free the spare it displaces. *)
recycle(b) ==
  /\ spare' = b
  /\ live' = live \ {spare}
  /\ mem' = [mem EXCEPT ![b].value = reset.value]

(* The defer of push: a block taken for a claim that went elsewhere. *)
HandBack(t) ==
  /\ At(t, "handBack")
  /\ recycle(th[t].nb)
  /\ Return(t, Ok)
  /\ UNCHANGED <<head, tail, seen, pending, todo, limits, claimed>>

----------------------------------------------------------------------------
(* pop *)

PopLoad(t) ==
  /\ At(t, "pop")
  /\ Off(head.index) # closed
  /\ th' = [th EXCEPT ![t].pos = head.index, ![t].pc = "seen"]
  /\ UNCHANGED <<shared, todo, limits, claimed, out>>

PopSeen(t) ==
  /\ At(t, "seen")
  /\ Goto(t, IF th[t].pos >= seen THEN "tail" ELSE "headBlock")
  /\ UNCHANGED <<shared, todo, limits, claimed, out>>

PopTail(t) ==
  /\ At(t, "tail")
  /\ th' = [th EXCEPT ![t].pc = IF th[t].pos = tail.index THEN "report" ELSE "storeSeen",
                      ![t].mark = IF th[t].pos = tail.index THEN 0 ELSE tail.index]
  /\ UNCHANGED <<shared, todo, limits, claimed, out>>

StoreSeen(t) ==
  /\ At(t, "storeSeen")
  /\ seen' = th[t].mark
  /\ th' = [th EXCEPT ![t].mark = 0, ![t].pc = "headBlock"]
  /\ UNCHANGED <<head, tail, mem, live, pending, spare, todo, limits, claimed, out>>

HeadBlock(t) ==
  /\ At(t, "headBlock")
  /\ th' = [th EXCEPT ![t].blk = head.block, ![t].pc = "claimHead"]
  /\ UNCHANGED <<shared, todo, limits, claimed, out>>

ClaimHead(t) ==
  /\ At(t, "claimHead")
  /\ head.index = th[t].pos
  /\ head' = [head EXCEPT !.index = @ + 1]
  /\ Goto(t, IF Last(t) THEN "next" ELSE "ready")
  /\ UNCHANGED <<tail, seen, mem, live, pending, spare, todo, limits, claimed, out>>

AwaitNext(t) ==
  /\ At(t, "next")
  /\ mem[th[t].blk].next # Null
  /\ th' = [th EXCEPT ![t].nb = mem[th[t].blk].next, ![t].pc = "moveBlock"]
  /\ UNCHANGED <<shared, todo, limits, claimed, out>>

MoveBlock(t) ==
  /\ At(t, "moveBlock")
  /\ head' = [head EXCEPT !.block = th[t].nb]
  /\ th' = [th EXCEPT ![t].nb = Null, ![t].pc = "moveIndex"]
  /\ UNCHANGED <<tail, seen, mem, live, pending, spare, todo, limits, claimed, out>>

MoveIndex(t) ==
  /\ At(t, "moveIndex")
  /\ head' = [head EXCEPT !.index = th[t].pos + 2]
  /\ Goto(t, "ready")
  /\ UNCHANGED <<tail, seen, mem, live, pending, spare, todo, limits, claimed, out>>

(* Mutant: the copy does not wait for the slot's producer. *)
HastyCopy(t) ==
  /\ At(t, "ready")
  /\ th' = [th EXCEPT ![t].val = mem[th[t].blk].value[Off(th[t].pos)], ![t].pc = "read"]
  /\ UNCHANGED <<shared, todo, limits, claimed, out>>

Copy(t) ==
  /\ At(t, "ready")
  /\ mem[th[t].blk].state[Off(th[t].pos)] # "empty"
  /\ th' = [th EXCEPT ![t].val = mem[th[t].blk].value[Off(th[t].pos)], ![t].pc = "read"]
  /\ UNCHANGED <<shared, todo, limits, claimed, out>>

StoreRead(t) ==
  /\ At(t, "read")
  /\ mem' = [mem EXCEPT ![th[t].blk].state[Off(th[t].pos)] = "read"]
  /\ IF Last(t) THEN Goto(t, "retire") /\ UNCHANGED out
     ELSE Return(t, th[t].val)
  /\ UNCHANGED <<head, tail, seen, live, pending, spare, todo, limits, claimed>>

(* Mutant: a retired block is taken for fully read. *)
TrustedRead(b) == TRUE

(* Slot states only advance, so the loads of the scan are worth one. *)
allRead(b) == \A o \in Slots : mem[b].state[o] = "read"

(* The push of b on `pending` succeeds on the top it linked to. *)
deferBlock(b) ==
  /\ pending' = b
  /\ mem' = [mem EXCEPT ![b].link = pending]
  /\ UNCHANGED <<spare, live>>

(* retire takes the whole stack... *)
Retire(t) ==
  /\ At(t, "retire")
  /\ pending' = Null
  /\ th' = [th EXCEPT ![t].list = pending, ![t].pc = "scan"]
  /\ UNCHANGED <<head, tail, seen, mem, live, spare, todo, limits, claimed, out>>

(* ... recycles each block of it that is fully read, puts the others back... *)
Scan(t) ==
  /\ At(t, "scan")
  /\ th[t].list # Null
  /\ IF allRead(th[t].list) THEN recycle(th[t].list) /\ UNCHANGED pending
     ELSE deferBlock(th[t].list)
  /\ th' = [th EXCEPT ![t].list = mem[@].link]
  /\ UNCHANGED <<head, tail, seen, todo, limits, claimed, out>>

(* ... and parks the block just finished. *)
Park(t) ==
  /\ At(t, "scan")
  /\ th[t].list = Null
  /\ deferBlock(th[t].blk)
  /\ Return(t, th[t].val)
  /\ UNCHANGED <<head, tail, seen, todo, limits, claimed>>

----------------------------------------------------------------------------
Step(t) ==
  \/ Report(t) \/ LostClaim(t)
  \/ PushLoad(t) \/ takeBlock(t) \/ TailBlock(t) \/ ClaimTail(t) \/ InstallBlock(t)
  \/ LinkNext(t) \/ OpenLap(t) \/ Publish(t) \/ HandBack(t)
  \/ PopLoad(t) \/ PopSeen(t) \/ PopTail(t) \/ StoreSeen(t) \/ HeadBlock(t)
  \/ ClaimHead(t) \/ AwaitNext(t) \/ MoveBlock(t) \/ MoveIndex(t) \/ Copy(t)
  \/ StoreRead(t) \/ Retire(t) \/ Scan(t) \/ Park(t)

Next == \E t \in Thread : Call(t) \/ Step(t)

(* Every thread inside a call keeps running. *)
Fairness == \A t \in Thread : WF_vars(Step(t))

Spec == Init /\ [][Next]_vars /\ Fairness

----------------------------------------------------------------------------
PushClaimed == {"install", "linkNext", "openLap", "write", "handBack"}
PopClaimed == {"next", "moveBlock", "moveIndex", "ready", "read", "retire", "scan"}

(* What a call has come to: a push counts from its claim of `tail`, a pop     *)
(* from its claim of `head` or, if no producer had claimed that position,     *)
(* from the moment one does.                                                  *)
Effect(t) ==
  IF At(t, "report") THEN th[t].val
  ELSE IF th[t].pc \in PushClaimed THEN Ok
  ELSE IF th[t].pc \in PopClaimed /\ slotsBefore(th[t].pos) < Len(claimed)
       THEN claimed[slotsBefore(th[t].pos) + 1]
  ELSE NotYet

Queue == SubSeq(claimed, slotsBefore(head.index) + 1, Len(claimed))

Abstract == INSTANCE Fifo WITH
  Item <- UNION {{<<t, n>> : n \in 1..MaxPush} : t \in Thread},
  Initial <- {[i \in 1..w.filled |-> <<"earlier", w.used + i>>] : w \in Workloads},
  queue <- Queue,
  call <- [t \in Thread |-> [op |-> th[t].op, item |-> th[t].item]],
  effect <- [t \in Thread |-> Effect(t)]

(* The queue is linearizable: whatever the interleaving of the loads, CASes   *)
(* and stores of push and pop, every call has the result of a first-in        *)
(* first-out queue on which it acts at one instant.  No item is lost,         *)
(* duplicated, reordered or read before it is written, and a push refused     *)
(* for want of memory leaves the queue unchanged.                             *)
Linearizable == Abstract!Spec

Follow(start, succ) ==
  LET reach[n \in 0..MaxBlocks] ==
        IF n = 0 THEN {start} \ {Null}
        ELSE reach[n - 1] \union ({succ[b] : b \in reach[n - 1]} \ {Null})
  IN reach[MaxBlocks]

Next_ == [b \in Block |-> mem[b].next]
Link_ == [b \in Block |-> mem[b].link]

(* <<who, block>>: what deinit would find from `head`, `pending` and `spare`, *)
(* and what a thread in the middle of a call holds.                           *)
Owns ==
  ({<<"chain">>} \X (Follow(head.block, Next_) \union {tail.block}))
  \union ({<<"pending">>} \X Follow(pending, Link_))
  \union ({<<"spare">>} \X ({spare} \ {Null}))
  \union UNION {{<<t, "next">>} \X ({th[t].nb} \ {Null}) : t \in
        {t \in Thread : th[t].op = "push" /\ th[t].pc \notin {"linkNext", "openLap"}}}
  \union UNION {{<<t, "list">>} \X Follow(th[t].list, Link_) : t \in Thread}
  \union UNION {{<<t, "retiring">>} \X {th[t].blk} : t \in
        {t \in Thread : Last(t) /\ th[t].pc \in {"moveIndex", "ready", "read", "retire", "scan"}}}

(* Every allocated block has exactly one owner and no freed block has any, so *)
(* no block is leaked, freed twice or handed to two threads; and a thread     *)
(* that has claimed a slot and not finished with it finds its block neither   *)
(* freed nor kept for reuse ("Why a block is not freed under a thread still   *)
(* using it").                                                                *)
OneOwner ==
  /\ \A b \in Block : Cardinality({o \in Owns : o[2] = b}) = (IF b \in live THEN 1 ELSE 0)
  /\ \A t \in Thread :
       th[t].pc \in (PushClaimed \ {"handBack"}) \union (PopClaimed \ {"retire", "scan"})
         => \E o \in Owns : o[2] = th[t].blk /\ o[1] # <<"spare">> /\ o[1] \notin (Thread \X {"next"})

(* "less means pos already has a producer" (pop): a consumer claims a         *)
(* position only after a producer has.                                        *)
ClaimedHasProducer ==
  \A t \in Thread : th[t].pc \in PopClaimed => slotsBefore(th[t].pos) < Len(claimed)

(* A push returns, and so does a pop once its position has a producer: the    *)
(* three waits (for the installer, for `next`, for `written`) are each for a  *)
(* thread that has claimed and finishes without waiting in a circle.          *)
CallsReturn ==
  \A t \in Thread :
    (th[t].op = "push" \/ Effect(t) # NotYet) ~> (th[t].op = "idle")
=============================================================================
