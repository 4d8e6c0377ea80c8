--------------------------- MODULE RaftRefinement ---------------------------
(***************************************************************************)
(* A cluster of Raft servers implements replicated state machines.         *)
(***************************************************************************)
EXTENDS Raft

(* The decided entries are those applied anywhere. *)
Decided ==
  [k \in 1 .. Len(commit_terms) |->
     (CHOOSE r \in applied_log : r.index = k).entry]

(* What a server has applied is its log up to applied. *)
Abstract == INSTANCE StateMachines WITH
  decided <- Decided,
  applied <- [i \in Server |-> SubSeq(node[i].log, 1, node[i].applied)]

(* No step of a server changes what is decided or what a state machine has  *)
(* been given but by applying more of it, in order, and a crash only starts *)
(* a state machine over or leaves it where it was (the contract of          *)
(* Ready.committed and Restore.applied).                                    *)
ImplementsStateMachines == Abstract!Spec
=============================================================================
