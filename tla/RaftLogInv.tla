---------------------------- MODULE RaftLogInv ------------------------------
(***************************************************************************)
(* The invariant of the replicated log, and what a step of one server - an *)
(* input, a drained batch, a restart - does to the log, to the indices     *)
(* into it and to the messages.                                            *)
(*                                                                         *)
(* The invariant looks at slots: an entry together with its index and the  *)
(* term before it, wherever it is kept - in a log, on a disk, in a         *)
(* request.  A term's leader creates the slots of its term one after the   *)
(* other, and everything else only copies slots.                           *)
(***************************************************************************)
EXTENDS RaftElectionInv

(* m carries a slice of log: its entries are those that follow              *)
(* prev_log_index there, and prev_log_term is the term before them.         *)
SliceOf(m, log) ==
  /\ m.prev_log_index + Len(m.entries) <= Len(log)
  /\ m.prev_log_term = TermAt(log, m.prev_log_index)
  /\ \A k \in 1 .. Len(m.entries) : m.entries[k] = log[m.prev_log_index + k]

(* What is on disk, with the pending cut taken, is the part of the log that *)
(* stable says is persisted, entry by entry.                                *)
Mirrors(d, n) ==
  /\ n.stable = IF n.truncated = None \/ n.truncated >= Len(d.log)
                THEN Len(d.log) ELSE n.truncated
  /\ \A k \in 1 .. n.stable : d.log[k] = n.log[k]

(* m confirms entries to the leader it answers.                             *)
IsAck(m) == m.type = "append_resp" /\ m.success

(* What a message m of a node that became r says of it.                     *)
Says(i, r, m) ==
  /\ m.from = i /\ m.to # i /\ m.term = r.term
  /\ m.type = "append_req" =>
       /\ r.role = "leader" /\ SliceOf(m, r.log)
       /\ Len(m.entries) <= MaxAppend /\ m.leader_commit = r.commit
  /\ m.type = "vote_req" =>
       /\ r.role = "candidate" /\ r.term # 0
       /\ m.last_log_index = Len(r.log) /\ m.last_log_term = LastTerm(r.log)

(* m grants the vote of a node whose log is log to a candidate in flight    *)
(* whose log is at least as up to date.                                     *)
GrantsUpToDate(m, log) ==
  \E q \in net :
    /\ q.type = "vote_req" /\ q.from = m.to /\ q.term = m.term
    /\ LogIsAtLeastAsUpToDate([last_index |-> q.last_log_index,
                               last_term  |-> q.last_log_term], Info(log))

(* new is log with the entries of q merged in: all of log up to c, where    *)
(* the terms agree with those of q, then entries of q, and nothing of log   *)
(* is lost but from a conflict with q on.                                   *)
MergedAt(log, q, new, c) ==
  /\ c \in q.prev_log_index .. Len(log)
  /\ c <= Len(new) /\ q.prev_log_index + Len(q.entries) <= Len(new)
  /\ TermAt(log, q.prev_log_index) = q.prev_log_term
  /\ \A k \in 1 .. c : new[k] = log[k]
  /\ \A k \in c + 1 .. Len(new) :
       /\ k - q.prev_log_index \in 1 .. Len(q.entries)
       /\ new[k] = q.entries[k - q.prev_log_index]
  /\ \A k \in 1 .. Len(q.entries) :
       q.prev_log_index + k <= c => log[q.prev_log_index + k].term = q.entries[k].term
  /\ c < Len(log) =>
       /\ c + 1 - q.prev_log_index \in 1 .. Len(q.entries)
       /\ log[c + 1].term # q.entries[c + 1 - q.prev_log_index].term

(* The commit index moves to an entry of the leader's own term that a       *)
(* majority holds.                                                          *)
CommitsOwn(n, r) ==
  /\ r.commit > n.commit /\ r.commit \in 1 .. Len(r.log)
  /\ r.log[r.commit].term = r.term
  /\ HasMajority(Server, Replicas(r.match, r.commit))

(* The log and the indices stay; whoever leads went on leading.             *)
Rests(i, n, r) ==
  /\ r.log = n.log /\ r.stable = n.stable /\ r.truncated = n.truncated
  /\ r.applied = n.applied /\ r.commit = n.commit
  /\ r.role = "leader" => n.role = "leader" /\ r.term = n.term /\ r.match = n.match
  /\ r.role = "candidate" => \/ n.role = "candidate" /\ r.term = n.term
                             \/ n.term < r.term /\ Server # {i}

(* A leader, old or new, appends one entry of its term.                     *)
Grows(i, n, r) ==
  /\ r.role = "leader"
  /\ Len(r.log) = Len(n.log) + 1 /\ \A k \in 1 .. Len(n.log) : r.log[k] = n.log[k]
  /\ r.log[Len(n.log) + 1].term = r.term
  /\ r.stable = n.stable /\ r.truncated = n.truncated
  /\ r.applied = n.applied /\ r.commit = n.commit
  /\ \/ n.role = "leader" /\ r.term = n.term /\ r.match = n.match
     \/ /\ n.role # "leader"
        /\ (n.role = "candidate" /\ r.term = n.term) \/ n.term < r.term
        /\ r.match = [s \in Server |-> IF s = i THEN n.stable ELSE 0]

(* A leader counts acknowledgements in flight, and may commit.              *)
Learns(i, n, r) ==
  /\ n.role = "leader" /\ r.role = "leader" /\ r.term = n.term
  /\ r.log = n.log /\ r.stable = n.stable /\ r.truncated = n.truncated
  /\ r.applied = n.applied
  /\ \A w \in Server :
       \/ r.match[w] = n.match[w]
       \/ \E q \in net : /\ IsAck(q) /\ q.from = w /\ q.to = i /\ q.term = r.term
                         /\ r.match[w] = q.index
  /\ r.commit = n.commit \/ CommitsOwn(n, r)

(* A follower takes the entries of the request q.                           *)
Receives(i, n, r, q) ==
  /\ q.type = "append_req" /\ q.to = i /\ q.from # i
  /\ n.term <= q.term /\ r.term = q.term /\ r.role = "follower"
  /\ r.applied = n.applied
  /\ r.commit = n.commit \/ (n.commit < r.commit /\ r.commit <= q.leader_commit
                             /\ r.commit <= q.prev_log_index + Len(q.entries))
  /\ \E c \in Nat : /\ MergedAt(n.log, q, r.log, c)
                    /\ r.stable = IF c < n.stable THEN c ELSE n.stable
  /\ \A d \in DiskType : Mirrors(d, n) => Mirrors(d, r)

(* What an input does to node n of server i.                                *)
LogStep(i, n, r) ==
  /\ \A m \in r.msgs \ n.msgs :
       /\ Says(i, r, m)
       /\ (m.type = "vote_resp" /\ m.granted) => r.log = n.log /\ GrantsUpToDate(m, r.log)
       /\ IsAck(m) => \E q \in net : /\ Receives(i, n, r, q)
                                     /\ m.to = q.from
                                     /\ m.index = q.prev_log_index + Len(q.entries)
  /\ r.leader = None \/ (r.leader = n.leader /\ r.term = n.term)
     \/ (r.leader = i /\ r.role = "leader")
     \/ \E q \in net : q.type = "append_req" /\ q.from = r.leader /\ q.term = r.term
  /\ r.bcast_pending => r.role = "leader" \/ (n.bcast_pending /\ n.role # "leader")
  /\ r.malformed_dropped = n.malformed_dropped
  /\ Rests(i, n, r) \/ Grows(i, n, r) \/ Learns(i, n, r) \/ \E q \in net : Receives(i, n, r, q)

(* a is a prefix of the log b.                                              *)
Prefix(a, b) == Len(a) <= Len(b) /\ \A k \in 1 .. Len(a) : a[k] = b[k]

(* What a crash can leave of the log on disk.                               *)
Torn(d, n, e) ==
  /\ \/ e.log = d.log /\ e.term = d.term
     \/ /\ e.term = IF n.hs_dirty THEN n.term ELSE d.term
        /\ Prefix(e.log, d.log) \/ Prefix(e.log, n.log)
  /\ n.stable <= Len(e.log)
  /\ \A k \in 1 .. n.stable : e.log[k] = n.log[k]

-----------------------------------------------------------------------------
(* Slots *)

(* The entry of a log at k, with its index and the term before it.          *)
SlotOf(log, k) == [index |-> k, entry |-> log[k], prev |-> TermAt(log, k - 1)]

LogSlots(log) == { SlotOf(log, k) : k \in 1 .. Len(log) }

(* The entries of an AppendEntries, as slots of the log they come from.     *)
ReqSlot(m, k) ==
  [index |-> m.prev_log_index + k, entry |-> m.entries[k],
   prev  |-> IF k = 1 THEN m.prev_log_term ELSE m.entries[k - 1].term]

ReqSlots(m) == { ReqSlot(m, k) : k \in 1 .. Len(m.entries) }

(* Slots of one term: one per index, each but the first after another one   *)
(* of the term.                                                             *)
SlotsAgree(S) ==
  \A a, b \in S : a.entry.term = b.entry.term =>
    /\ a.index = b.index => a = b
    /\ a.index < b.index => b.prev = b.entry.term

(* The terms of a log start above 0 and never go down.                      *)
Ordered(log) ==
  \A k \in 1 .. Len(log) :
    log[k].term # 0 /\ \A j \in 1 .. k : log[j].term <= log[k].term

(* What slots that agree say of logs made of them: they are ordered; two    *)
(* with the same term at an index are equal up to it; and one with an entry *)
(* of the last term of p, at the end of p or after it, has all of p.        *)
Tidy(S) ==
  \A a, b \in Seq(Entry) : (LogSlots(a) \subseteq S /\ LogSlots(b) \subseteq S) =>
    /\ Ordered(a)
    /\ \A k \in Nat : (k <= Len(a) /\ k <= Len(b) /\ TermAt(a, k) = TermAt(b, k))
                        => \A j \in 1 .. k : a[j] = b[j]
    /\ \A k \in Nat : (Len(b) # 0 /\ Len(b) <= k /\ k <= Len(a) /\ a[k].term = b[Len(b)].term)
                        => Prefix(b, a)

-----------------------------------------------------------------------------
(* The invariant *)

(* Every message queued or in flight.                                       *)
Mail == net \union UNION { node[i].msgs : i \in Server }

Requests == { m \in Mail : m.type = "append_req" }

(* Every slot kept anywhere: in a log, on a disk, in a request.             *)
NodeSlots == UNION { LogSlots(node[i].log) : i \in Server }

DiskSlots == UNION { LogSlots(disk[i].log) : i \in Server }

WireSlots == UNION { ReqSlots(m) : m \in Requests }

Slots == NodeSlots \union DiskSlots \union WireSlots

(* No entry is newer than the term of the node or disk r that keeps it.     *)
Aged(r) == \A k \in 1 .. Len(r.log) : r.log[k].term <= r.term

(* Disk and node fit together, and neither keeps entries of later terms.    *)
DiskInv ==
  \A i \in Server : Mirrors(disk[i], node[i]) /\ Aged(node[i]) /\ Aged(disk[i])

(* A candidate has not led its term yet, and the term of a leader is on its *)
(* disk unless it is alone.                                                 *)
RoleInv ==
  /\ \A i \in Server : node[i].role = "candidate" =>
       /\ node[i].term # 0 /\ Server # {i}
       /\ <<node[i].term, i>> \notin leaders
  /\ \A i \in Server, t \in Term : <<t, i>> \in leaders =>
       /\ t # 0
       /\ Server = {i} \/ t <= disk[i].term

(* The slots of a term were made one after the other by a leader of it.     *)
SlotInv ==
  /\ SlotsAgree(Slots)
  /\ \A a \in Slots : /\ a.entry.term # 0 /\ a.prev <= a.entry.term
                      /\ \E x \in Server : <<a.entry.term, x>> \in leaders

(* A leader holds every slot of its term, the last one at the end.          *)
OwnInv ==
  \A i \in Server : node[i].role = "leader" =>
    /\ LastTerm(node[i].log) = node[i].term
    /\ \A a \in Slots : a.entry.term = node[i].term => a \in LogSlots(node[i].log)

(* Every message passes the decoder.  A request is of a leader, and a slice *)
(* of its log as long as it leads; an acknowledgement is for a leader.      *)
MailInv ==
  \A m \in Mail :
    /\ Decodes(m) /\ m.from # m.to
    /\ m.type = "append_req" =>
         /\ <<m.term, m.from>> \in leaders
         /\ (node[m.from].role = "leader" /\ node[m.from].term = m.term)
              => SliceOf(m, node[m.from].log)
    /\ IsAck(m) => <<m.term, m.to>> \in leaders

(* What a node says of itself.                                              *)
ClaimInv ==
  \A i \in Server :
    /\ node[i].leader # None => <<node[i].term, node[i].leader>> \in leaders
    /\ node[i].bcast_pending => node[i].role = "leader"
    /\ node[i].malformed_dropped = 0

(* The logs a and b are equal up to k, and reach that far.                  *)
Agrees(a, b, k) == k <= Len(a) /\ k <= Len(b) /\ \A j \in 1 .. k : a[j] = b[j]

(* An acknowledgement of v by w on its way to leader i or counted by it:    *)
(* the term is on w's disk, and as long as w has not left the term, its     *)
(* disk and the persisted part of its log hold the leader's first v         *)
(* entries.                                                                 *)
Confirmed(i, w, v) ==
  \/ v = 0
  \/ /\ v <= Len(node[i].log) /\ disk[w].term >= node[i].term
     /\ disk[w].term = node[i].term => Agrees(disk[w].log, node[i].log, v)
     /\ node[w].term = node[i].term =>
          v <= node[w].stable /\ Agrees(node[w].log, node[i].log, v)

(* An acknowledgement of v that w has queued for leader i.                  *)
Queued(i, w, v) ==
  /\ v <= Len(node[i].log) /\ node[w].term >= node[i].term
  /\ node[w].term = node[i].term => Agrees(node[w].log, node[i].log, v)

(* m acknowledges entries to i, leader of its term.                         *)
AckFor(m, i) == IsAck(m) /\ m.to = i /\ m.term = node[i].term

AckInv ==
  \A i \in Server : node[i].role = "leader" =>
    /\ node[i].match[i] <= node[i].stable
    /\ \A w \in Peers(i) : Confirmed(i, w, node[i].match[w])
    /\ \A m \in net : AckFor(m, i) => Confirmed(i, m.from, m.index)
    /\ \A w \in Server : \A m \in node[w].msgs : AckFor(m, i) => Queued(i, w, m.index)

(* The inductive invariant.                                                 *)
LogInv ==
  DiskInv /\ RoleInv /\ SlotInv /\ OwnInv /\ MailInv /\ ClaimInv /\ AckInv

(* The invariants so far, and what follows from them and from the size of   *)
(* majorities.                                                              *)
Safe == TypeInv /\ ElectionInv /\ LogInv /\ Tidy(Slots) /\ Majorities

-----------------------------------------------------------------------------
(* Steps *)

(* Server i takes an input that makes its node r.                           *)
Takes(i, r) ==
  /\ NodeOK(i, r) /\ VoteStep(i, node[i], r) /\ LogStep(i, node[i], r)
  /\ Update(i, r) /\ disk' = disk /\ net' \subseteq net

(* Server i has drained a batch.                                            *)
Drained(i, r) ==
  /\ node'[i] = r /\ Bounded(r) /\ leaders' = leaders
  /\ \A j \in Server : j # i => node'[j] = node[j] /\ disk'[j] = disk[j]
  /\ r.term = node[i].term /\ r.role = node[i].role /\ r.leader = node[i].leader
  /\ r.voted_for = node[i].voted_for /\ ~r.hs_dirty
  /\ r.log = node[i].log /\ r.stable = Len(node[i].log) /\ r.truncated = None /\ r.msgs = {}
  /\ r.malformed_dropped = node[i].malformed_dropped /\ r.votes = node[i].votes
  /\ r.bcast_pending => r.role = "leader"
  /\ r.role = "leader" => r.match = [node[i].match EXCEPT ![i] = Len(node[i].log)]
  /\ disk'[i].log = node[i].log /\ disk'[i].term = node[i].term
  /\ disk'[i].voted_for = node[i].voted_for
  /\ \A m \in net' : \/ m \in net \/ m \in node[i].msgs
                     \/ m \in Message /\ m.type = "append_req" /\ Says(i, node[i], m)

(* What it has committed and applied by that.                               *)
Applied(i, r) ==
  /\ r.commit = node[i].commit \/ (r.role = "leader" /\ CommitsOwn(node[i], r))
  /\ r.applied = ReadyCommit(node[i])
  /\ applied_log' = applied_log \union Committed(node[i])
  /\ commit_terms' = commit_terms \o
       [k \in 1 .. Max({0, ReadyCommit(node[i]) - Len(commit_terms)}) |-> node[i].term]

(* Server i has started again from the disk d.                              *)
Restarted(i, d, a) ==
  /\ d \in DiskType /\ Torn(disk[i], node[i], d) /\ ValidRestore(d, a)
  /\ \/ d.term = disk[i].term /\ d.voted_for = disk[i].voted_for
     \/ d.term = node[i].term /\ d.voted_for = node[i].voted_for
  /\ a \in {0, node[i].applied} /\ leaders' = leaders /\ net' = net
  /\ node'[i] = InitNode(d, a) /\ disk'[i] = d
  /\ applied_log' = applied_log /\ commit_terms' = commit_terms
  /\ \A j \in Server : j # i => node'[j] = node[j] /\ disk'[j] = disk[j]

(* Server i makes no slot and wins nothing: it only copies, or forgets.     *)
Copies(i) ==
  /\ leaders' = leaders /\ Slots' \subseteq Slots
  /\ \A j \in Server : j # i => node'[j] = node[j] /\ disk'[j] = disk[j]
  /\ node'[i].role # "follower" =>
       /\ node'[i].role = node[i].role /\ node'[i].term = node[i].term
       /\ node'[i].log = node[i].log
  /\ disk[i].term <= disk'[i].term

(* An input, and what it leaves alone.                                      *)
TakesInput(i, r) ==
  Takes(i, r) /\ applied_log' = applied_log /\ commit_terms' = commit_terms

(* A step of the cluster, as far as the invariants tell steps apart: one    *)
(* server drains a batch, starts again, or takes an input.                  *)
ClusterStep ==
  \E i \in Server : \/ \E r : Drained(i, r) /\ Applied(i, r)
                    \/ \E d, a : Restarted(i, d, a)
                    \/ \E r : TakesInput(i, r)

=============================================================================
