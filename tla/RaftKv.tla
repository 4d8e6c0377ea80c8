------------------------------- MODULE RaftKv -------------------------------
(***************************************************************************)
(* The client side of the raft-kv application on top of the cluster: a     *)
(* connection thread proposes a command under the node lock, releases it,  *)
(* and then polls, every time under the lock, until the entry it proposed  *)
(* is applied, is seen to be replaced, or the wait times out.              *)
(*                                                                         *)
(* The thread holds nothing but the index and the term it remembered, so   *)
(* between two polls the log may be cut, refilled and applied by others.   *)
(***************************************************************************)
EXTENDS Raft

CONSTANTS
  Client,   \* connections, one write each
  Contact   \* bound: the servers clients connect to

ASSUME ContactAssumption == Contact \subseteq Server

VARIABLE write    \* the state of each client's write

kv_vars == <<vars, write>>

(* A client before its request, and one that was told its write failed or   *)
(* lost its connection.                                                     *)
Idle == [state |-> "idle"]
Failed == [state |-> "failed"]

KvInit ==
  /\ Init
  /\ write = [c \in Client |-> Idle]

(* Mutant: the index before the proposal is remembered. *)
OffByOneStartWrite(c, i, v) ==
  /\ write[c].state = "idle"
  /\ ClientRequest(i, v)
  /\ write' = [write EXCEPT ![c] = [state |-> "waiting", server |-> i, val |-> v,
                                    index |-> LastIndex(node[i].log),
                                    term |-> node[i].term]]

(* clientWrite at the leader: propose and remember index and term.  At any  *)
(* other server it is answered with a redirect and changes nothing.         *)
StartWrite(c, i, v) ==
  /\ write[c].state = "idle"
  /\ ClientRequest(i, v)
  /\ write' = [write EXCEPT ![c] = [state |-> "waiting", server |-> i, val |-> v,
                                    index |-> LastIndex(node[i].log) + 1,
                                    term |-> node[i].term]]

(* Mutant: the poll looks at the applied index only. *)
TrustingPoll(c) ==
  LET w == write[c]
  IN  /\ w.state = "waiting"
      /\ AcceptsInput
      /\ node[w.server].applied >= w.index
      /\ write' = [write EXCEPT ![c].state = "ok"]
      /\ UNCHANGED vars

(* The log still holds, at the remembered index, an entry of the remembered *)
(* term.                                                                    *)
StillOurs(w) ==
  LET log == node[w.server].log
  IN  w.index <= LastIndex(log) /\ log[w.index].term = w.term

(* One turn of the wait loop that ends it: the entry at the index is not    *)
(* ours any more, or it is and has been applied.                            *)
Poll(c) ==
  LET w == write[c]
  IN  /\ w.state = "waiting"
      /\ AcceptsInput
      /\ StillOurs(w) => node[w.server].applied >= w.index
      /\ write' = [write EXCEPT ![c] = IF StillOurs(w) THEN [w EXCEPT !.state = "ok"]
                                                   ELSE Failed]
      /\ UNCHANGED vars

(* commit_wait_ms have passed. *)
TimeOut(c) ==
  /\ write[c].state = "waiting"
  /\ write' = [write EXCEPT ![c] = Failed]
  /\ UNCHANGED vars

(* A crash takes the server's connection threads with it. *)
CrashServer(i) ==
  /\ Restart(i)
  /\ write' = [c \in Client |->
                 IF write[c].state = "waiting" /\ write[c].server = i
                 THEN Failed
                 ELSE write[c]]

KvNext ==
  \/ ServerStep /\ UNCHANGED write
  \/ \E i \in Server : CrashServer(i)
  \/ \E c \in Client, i \in Contact, v \in Value : StartWrite(c, i, v)
  \/ \E c \in Client : Poll(c)
  \/ \E c \in Client : TimeOut(c)

KvSpec == KvInit /\ [][KvNext]_kv_vars

-----------------------------------------------------------------------------
(* Safety *)

(* The entry a client's write became. *)
EntryOf(c) == [term |-> write[c].term, val |-> write[c].val]

(* A client is told ok only for an entry that was applied as its own: the   *)
(* index and the term remembered before the lock was released still name    *)
(* the same entry when it is found applied.                                 *)
AckedIsApplied ==
  \A c \in Client :
    write[c].state = "ok"
      => [index |-> write[c].index, entry |-> EntryOf(c)] \in applied_log

(* An acknowledged write is in the log of every leader of its term or a     *)
(* later one, whatever crashed in between.                                  *)
AckedSurvives ==
  \A c \in Client, i \in Server :
    (write[c].state = "ok" /\ node[i].role = "leader" /\ node[i].term >= write[c].term)
      => /\ write[c].index <= LastIndex(node[i].log)
         /\ node[i].log[write[c].index] = EntryOf(c)

(* An answer of ok is sound when it is given and remains so: the entry is   *)
(* the client's own and applied, and no later leader is without it.         *)
AckedSafe == AckedIsApplied /\ AckedSurvives

=============================================================================
