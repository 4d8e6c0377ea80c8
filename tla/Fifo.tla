-------------------------------- MODULE Fifo --------------------------------
(****************************************************************************)
(* What lockfree.SegQueue promises its callers: an unbounded first-in       *)
(* first-out queue whose calls take effect at one instant between the call  *)
(* and the return.  A push may fail for want of memory and then leaves the  *)
(* queue unchanged; a pop of an empty queue returns nothing.                *)
(****************************************************************************)
EXTENDS Sequences

CONSTANTS
  Thread, Item, NotYet, Ok, NoMemory, Nothing,
  Initial   \* the contents the queue may start with

VARIABLES
  queue,    \* the items, oldest first
  call,     \* thread -> the call it is in: [op, item]
  effect,   \* thread -> the result, once the call has taken effect
  out       \* thread -> what its last call returned, until the next call

vars == <<queue, call, effect, out>>

Idle == [op |-> "idle", item |-> Nothing]

Init ==
  /\ queue \in Initial
  /\ call = [t \in Thread |-> Idle]
  /\ effect = [t \in Thread |-> NotYet]
  /\ out = [t \in Thread |-> NotYet]

Call(t) ==
  /\ call[t] = Idle
  /\ \E c \in [op : {"push"}, item : Item] \union [op : {"pop"}, item : {Nothing}] :
       call' = [call EXCEPT ![t] = c]
  /\ out' = [out EXCEPT ![t] = NotYet]
  /\ UNCHANGED <<queue, effect>>

TakesEffect(t, result) ==
  /\ effect[t] = NotYet
  /\ effect' = [effect EXCEPT ![t] = result]
  /\ UNCHANGED <<call, out>>

Push(t) ==
  /\ call[t].op = "push"
  /\ \/ TakesEffect(t, Ok) /\ queue' = Append(queue, call[t].item)
     \/ TakesEffect(t, NoMemory) /\ UNCHANGED queue

Pop(t) ==
  /\ call[t].op = "pop"
  /\ \/ queue # <<>> /\ TakesEffect(t, Head(queue)) /\ queue' = Tail(queue)
     \/ queue = <<>> /\ TakesEffect(t, Nothing) /\ UNCHANGED queue

(* A push and a pop of the empty queue in one instant, the push first.  *)
Handover(t, u) ==
  /\ call[t].op = "push" /\ call[u].op = "pop"
  /\ effect[t] = NotYet /\ effect[u] = NotYet
  /\ queue = <<>>
  /\ effect' = [effect EXCEPT ![t] = Ok, ![u] = call[t].item]
  /\ UNCHANGED <<queue, call, out>>

Return(t) ==
  /\ effect[t] # NotYet
  /\ out' = [out EXCEPT ![t] = effect[t]]
  /\ call' = [call EXCEPT ![t] = Idle]
  /\ effect' = [effect EXCEPT ![t] = NotYet]
  /\ UNCHANGED queue

Next ==
  \/ \E t \in Thread : Call(t) \/ Push(t) \/ Pop(t) \/ Return(t)
  \/ \E t, u \in Thread : Handover(t, u)

Spec == Init /\ [][Next]_vars
=============================================================================
