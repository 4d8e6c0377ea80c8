---------------------------- MODULE StateMachines ----------------------------
(***************************************************************************)
(* What modules/raft promises its callers: replicated state machines.      *)
(* There is one sequence of decided entries.  It only ever grows, each     *)
(* server applies it in order and without gaps, and a server that crashes  *)
(* starts over or continues where it was.                                  *)
(***************************************************************************)
EXTENDS Naturals, Sequences, SequencesExt

CONSTANT Server

VARIABLES
  decided,  \* the entries decided so far
  applied   \* applied[i]: what server i's state machine has been given

vars == <<decided, applied>>

Init ==
  /\ decided = <<>>
  /\ applied = [i \in Server |-> <<>>]

(* Server i applies more entries.  They continue what it has applied, and   *)
(* they are decided already or are decided by this step.                    *)
Apply(i) ==
  /\ applied' = [applied EXCEPT ![i] = applied'[i]]
  /\ IsPrefix(applied[i], applied'[i])
  /\ \/ IsPrefix(applied'[i], decided) /\ decided' = decided
     \/ IsPrefix(decided, applied'[i]) /\ decided' = applied'[i]

(* Server i crashes; its state machine is rebuilt from nothing. *)
Crash(i) ==
  /\ applied' = [applied EXCEPT ![i] = <<>>]
  /\ UNCHANGED decided

Next == \E i \in Server : Apply(i) \/ Crash(i)

Spec == Init /\ [][Next]_vars
=============================================================================
