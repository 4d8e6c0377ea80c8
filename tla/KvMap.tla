------------------------------- MODULE KvMap --------------------------------
(***************************************************************************)
(* What modules/kv promises: a map.  A value is <<val, exp>> and absent    *)
(* from exp on.  Its state is                                              *)
(*   served  <<map>> while a Db is open, <<>> while none is                *)
(*   maybe   the maps the next Db may find: those since the last           *)
(*           durability barrier, and the one a write in progress makes     *)
(*   now     the clock                                                     *)
(***************************************************************************)
EXTENDS Naturals

CONSTANTS Key, Value, Expiries, MaxClock

VARIABLES served, maybe, now

None == <<>>

Entries == {None} \union (Value \X (Expiries \union {MaxClock + 1}))

At(map, t) == [k \in Key |-> IF map[k] # None /\ map[k][2] <= t THEN None ELSE map[k]]

Init ==
  /\ served = <<>>
  /\ maybe = {[k \in Key |-> None]}
  /\ now = 0

(* A write has begun: the crash may come before or after it. *)
Begin(k, x) ==
  /\ served # <<>>
  /\ maybe' = maybe \union {At([served[1] EXCEPT ![k] = x], now)}
  /\ UNCHANGED <<served, now>>

(* The write begun last is acknowledged, durably or not. *)
Commit(k, x) ==
  /\ served # <<>>
  /\ served' = <<At([served[1] EXCEPT ![k] = x], now)>>
  /\ served'[1] \in maybe
  /\ maybe' \in {maybe, {served'[1]}}
  /\ UNCHANGED now

(* sync, compact and close. *)
Barrier ==
  /\ served # <<>>
  /\ maybe' = {served[1]}
  /\ served' \in {served, <<>>}
  /\ UNCHANGED now

(* An expiring put that first upgrades the file: a barrier, then a write. *)
BarrierBegin(k, x) ==
  /\ served # <<>>
  /\ maybe' = {served[1], At([served[1] EXCEPT ![k] = x], now)}
  /\ UNCHANGED <<served, now>>

Stop ==
  /\ served # <<>>
  /\ served' = <<>>
  /\ UNCHANGED <<maybe, now>>

Open ==
  /\ served = <<>>
  /\ \E map \in maybe :
       /\ served' = <<map>>
       /\ maybe' \in {maybe, {map}}
  /\ UNCHANGED now

Tick ==
  /\ now' = now + 1
  /\ served' = IF served = <<>> THEN <<>> ELSE <<At(served[1], now')>>
  /\ maybe' = {At(map, now') : map \in maybe}

Next ==
  \/ \E k \in Key, x \in Entries : Begin(k, x) \/ Commit(k, x) \/ BarrierBegin(k, x)
  \/ Barrier \/ Stop \/ Open \/ Tick

Spec == Init /\ [][Next]_<<served, maybe, now>>
=============================================================================
