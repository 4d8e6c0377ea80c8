---------------------------- MODULE RaftCluster -----------------------------
(*****************************************************************************)
(* The state of a cluster of Raft servers - their nodes and disks, the      *)
(* messages in flight and the ledger of server.zig's SafetyChecker - and    *)
(* what is required of it.                                                  *)
(*****************************************************************************)
EXTENDS RaftServer

CONSTANTS
  MaxHeartbeats,    \* bound: heartbeats and duplicates up to the last heartbeat
  MaxRestarts,      \* bound: crashes in a behaviour
  MaxDuplicates     \* bound: the same, up to the last duplicate delivery

VARIABLES
  node,          \* Slot.node: each server's Node
  disk,          \* Slot.disk_hs and Slot.disk: what survives a crash
  net,           \* messages in flight; each arrives at any time, or never
  heartbeats,    \* heartbeat timeouts so far
  restarts,      \* crashes so far
  duplicates,    \* duplicated deliveries so far
  leaders,       \* SafetyChecker: every <<term, server>> that was leader
  applied_log,   \* SafetyChecker: every entry applied anywhere, with its index
  commit_terms   \* index -> the term of the first server that applied it

Init ==
  /\ disk = [i \in Server |-> EmptyDisk]
  /\ node = [i \in Server |-> InitNode(EmptyDisk, 0)]
  /\ net = {}
  /\ heartbeats = 0
  /\ restarts = 0
  /\ duplicates = 0
  /\ leaders = {}
  /\ applied_log = {}
  /\ commit_terms = <<>>

(* Server i's node becomes n; a leader is recorded as soon as there is one. *)
Update(i, n) ==
  /\ node' = [node EXCEPT ![i] = n]
  /\ leaders' = leaders \union (IF n.role = "leader" THEN {<<n.term, i>>} ELSE {})

(* Every variable holds a value of the type the code declares for it; in   *)
(* particular no term on a node, a disk or the wire passes types.max_term, *)
(* although terms are taken from messages without a check of their own.    *)
TypeOK ==
  /\ node \in [Server -> NodeType]
  /\ disk \in [Server -> DiskType]
  /\ net \in SUBSET Message
  /\ heartbeats \in 0 .. MaxHeartbeats
  /\ restarts \in 0 .. MaxRestarts
  /\ duplicates \in 0 .. MaxDuplicates
  /\ leaders \in SUBSET (Term \X Server)
  /\ applied_log \in SUBSET [index : Nat, entry : Entry]
  /\ commit_terms \in Seq(Term)

-----------------------------------------------------------------------------
(* Safety: the properties of checks.zig *)

(* At most one server is ever leader of a term, crashes and restarts        *)
(* between the votes included (SafetyChecker.recordLeader).                 *)
ElectionSafety ==
  \A a, b \in leaders : a[1] = b[1] => a[2] = b[2]

(* Two logs with the same term at an index are equal up to that index       *)
(* (checks.logMatchingViolation).                                           *)
LogMatching ==
  \A i, j \in Server :
    \A k \in 1 .. Min({LastIndex(node[i].log), LastIndex(node[j].log)}) :
      node[i].log[k].term = node[j].log[k].term
        => SubSeq(node[i].log, 1, k) = SubSeq(node[j].log, 1, k)

(* A leader holds every entry that was applied anywhere in a term up to its *)
(* own; a deposed leader that does not know it yet may miss later ones      *)
(* (the scope RaftServer.check gives checks.leaderCompletenessHolds).       *)
LeaderCompleteness ==
  \A i \in Server, r \in applied_log :
    (node[i].role = "leader" /\ commit_terms[r.index] <= node[i].term)
      => /\ r.index <= LastIndex(node[i].log)
         /\ node[i].log[r.index] = r.entry

(* No two servers, and no two lives of one server, ever apply different     *)
(* entries at the same index (SafetyChecker.recordApply, recordCommitted).  *)
StateMachineSafety ==
  \A a, b \in applied_log : a.index = b.index => a.entry = b.entry

-----------------------------------------------------------------------------
(* Safety: the contract between a node, its disk and its peers *)

(* ready relies on  commit <= lastIndex()  and on the persisted and applied *)
(* parts being parts of the log; its slice lengths underflow otherwise.     *)
IndicesOrdered ==
  \A i \in Server :
    /\ node[i].applied <= node[i].commit
    /\ node[i].commit <= LastIndex(node[i].log)
    /\ node[i].stable <= LastIndex(node[i].log)

(* sendAppend subtracts next - 1 and last - prev and unwraps termAt(prev):  *)
(* for a leader, every peer's next is past what the peer confirmed and at   *)
(* most one past the end of the log.                                        *)
NextInBounds ==
  \A i \in Server : node[i].role = "leader" =>
    \A p \in Peers(i) :
      /\ node[i].match[p] < node[i].next[p]
      /\ node[i].next[p] <= LastIndex(node[i].log) + 1

(* What a leader believes a server has is on that server's disk, as long as *)
(* that server has not moved on to a later term: commitment counts only     *)
(* durable copies.                                                          *)
MatchIsDurable ==
  \A i, j \in Server :
    (node[i].role = "leader" /\ node[j].term = node[i].term)
      => /\ node[i].match[j] <= Len(disk[j].log)
         /\ SubSeq(disk[j].log, 1, node[i].match[j]) = SubSeq(node[i].log, 1, node[i].match[j])

(* Every entry a server regards as committed is on a majority of disks. *)
CommittedIsDurable ==
  \A i \in Server : \A k \in 1 .. node[i].commit :
    HasMajority(Server, { j \in Server : k <= Len(disk[j].log)
                                         /\ disk[j].log[k] = node[i].log[k] })

(* What servers say of the commit is safe and stays so: two servers never   *)
(* apply different entries at one index, commit and applied never pass the  *)
(* log nor each other, and a committed entry is on the disks of a majority. *)
CommitSafety == StateMachineSafety /\ IndicesOrdered /\ CommittedIsDurable

(* In a cluster of honest encoders nothing is ever dropped as malformed: no *)
(* check of the decoder and no bound on an acknowledged index rejects what  *)
(* a correct peer sends (malformedDropped, required to be 0).               *)
NothingMalformed ==
  \A i \in Server : node[i].malformed_dropped = 0

(* An AppendEntries is only ever sent under a term its sender won, and a    *)
(* broadcast is only pending at a leader: a server that stepped down never  *)
(* sends its stale log as leader of the new term.                           *)
AppendsComeFromLeaders ==
  /\ \A m \in net : m.type = "append_req" => <<m.term, m.from>> \in leaders
  /\ \A i \in Server : node[i].bcast_pending => node[i].role = "leader"

(* The server a client is redirected to did win the term. *)
LeaderHintIsLeader ==
  \A i \in Server :
    node[i].leader # None => <<node[i].term, node[i].leader>> \in leaders

(* No server speaks for a leader there is not: what it sends as leader, what *)
(* it still has scheduled after stepping down and the hint it gives to       *)
(* clients name leaders that won their term, and every message it builds is  *)
(* accepted by the decoder of its receiver.                                  *)
NoFalseClaims == AppendsComeFromLeaders /\ LeaderHintIsLeader /\ NothingMalformed
=============================================================================
