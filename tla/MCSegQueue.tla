----------------------------- MODULE MCSegQueue -----------------------------
(* Small instances of SegQueue for TLC: blocks of three slots, three threads. *)
EXTENDS SegQueue

Calls(push, pop) == [push |-> push, pop |-> pop]

Workload(used, filled, fail, a, b, c) ==
  [used |-> used, filled |-> filled, refusals |-> fail, spurious |-> fail,
   calls |-> [t \in Thread |-> IF t = "a" THEN a ELSE IF t = "b" THEN b ELSE c]]

(* b may be overtaken in the middle of a copy while c finishes that block and *)
(* the next, and a fills the last slot and then starts the following block.   *)
Straggler == Workload(1, 7, 0, Calls(2, 0), Calls(0, 2), Calls(0, 4))

(* Two producers race for the last slot of a block; the loser still has the   *)
(* block it took.                                                             *)
LostRace == Workload(1, 1, 1, Calls(2, 0), Calls(1, 0), Calls(0, 2))

(* Two consumers race over the end of a block while it is being filled.       *)
Overtake == Workload(2, 0, 0, Calls(2, 0), Calls(0, 2), Calls(0, 2))

AllWorkloads == {Straggler, LostRace, Overtake}
JustOvertake == {Overtake}
=============================================================================
