-------------------------- MODULE RaftElectionInv ---------------------------
(***************************************************************************)
(* The invariants of a cluster of nodes under which every field keeps its  *)
(* type and a term has one leader, and what a step of one node does to its *)
(* vote.                                                                   *)
(***************************************************************************)
EXTENDS RaftCluster

(* A node of the declared types whose persisted part is part of its log.    *)
Bounded(n) == n \in NodeType /\ n.stable <= LastIndex(n.log)

(* sendAppend can be called for every peer: next - 1 does not underflow and *)
(* is an index of the log or 0.                                             *)
Sendable(i, n) ==
  \A p \in Peers(i) : n.match[p] < n.next[p] /\ n.next[p] <= LastIndex(n.log) + 1

(* What every operation of node.zig preserves.                              *)
NodeOK(i, n) ==
  /\ Bounded(n)
  /\ n.role = "leader" => Sendable(i, n)

(* The inductive invariant of type correctness.                             *)
TypeInv == TypeOK /\ \A i \in Server : NodeOK(i, node[i])

-----------------------------------------------------------------------------
(* Votes *)

(* The term and vote of r, a node or a disk, are (t, j), or r's term is     *)
(* later: r will not vote for another candidate in t.                       *)
Reached(r, t, j) == r.term > t \/ (r.term = t /\ r.voted_for = j)

(* b is a or comes after it: the term never goes back and a vote in a term  *)
(* is final.                                                                *)
Follows(a, b) ==
  \/ a.term < b.term
  \/ a.term = b.term /\ a.voted_for \in {None, b.voted_for}

(* m is w's vote for j in term t.                                           *)
IsGrant(m, w, t, j) ==
  m.type = "vote_resp" /\ m.granted /\ m.from = w /\ m.term = t /\ m.to = j

(* j, candidate or leader of term t, has counted w's vote.                  *)
Counted(w, t, j) ==
  node[j].role # "follower" /\ node[j].term = t /\ w \in node[j].votes

(* There is a trace of w's vote for j in term t.                            *)
Voted(w, t, j) ==
  \/ \E m \in net \union node[w].msgs : IsGrant(m, w, t, j)
  \/ Counted(w, t, j)

(* There is a trace of that vote that outlives a crash of w.                *)
Cast(w, t, j) ==
  \/ \E m \in net : IsGrant(m, w, t, j)
  \/ w # j /\ Counted(w, t, j)

(* The disk holds the hard state of the node or an earlier one, and the     *)
(* same one unless the node has marked it dirty.                            *)
DiskBehind(i) ==
  /\ Follows(disk[i], node[i])
  /\ \/ node[i].hs_dirty
     \/ disk[i].term = node[i].term /\ disk[i].voted_for = node[i].voted_for

(* A server asks for votes only in terms in which it voted for itself, and  *)
(* by the time the request is in flight that vote is on its disk.           *)
VoteRequests(i) ==
  /\ \A m \in node[i].msgs : m.from = i /\ m.to # i
  /\ \A m \in node[i].msgs : m.type = "vote_req" => Reached(node[i], m.term, i)
  /\ \A m \in net : (m.type = "vote_req" /\ m.from = i) => Reached(disk[i], m.term, i)

(* Whoever left a trace of a vote for j in t has reached it, in memory, and *)
(* on disk if the trace outlives a crash; the candidate's own vote is on    *)
(* its disk before anyone else's trace exists; and the traces of one voter  *)
(* in one term name one candidate.                                          *)
VoteInv ==
  \A w, j \in Server : \A t \in Term :
    /\ Voted(w, t, j) => Reached(node[w], t, j)
    /\ Cast(w, t, j) => Reached(disk[w], t, j)
    /\ (Voted(w, t, j) /\ w # j) => Reached(disk[j], t, j)
    /\ \A k \in Server : Voted(w, t, j) /\ Voted(w, t, k) => j = k

(* Q elected i in term t: the disks of Q are past voting for anyone else in *)
(* t, and no trace says otherwise.                                          *)
Quorum(Q, t, i) ==
  /\ HasMajority(Server, Q)
  /\ \A w \in Q : /\ Reached(disk[w], t, i)
                  /\ \A j \in Server : Voted(w, t, j) => j = i

(* Every leader is recorded, and every recorded leader has its quorum.  A   *)
(* cluster of one is exempt: its leader votes for itself and wins before    *)
(* that vote is written.                                                    *)
LeaderInv ==
  /\ \A i \in Server : node[i].role = "leader" => <<node[i].term, i>> \in leaders
  /\ \A l \in leaders : Server = {l[2]} \/ \E Q \in SUBSET Server : Quorum(Q, l[1], l[2])

(* The inductive invariant.  Election safety alone is not inductive: it     *)
(* says nothing of the votes under way.                                     *)
ElectionInv ==
  /\ \A i \in Server : DiskBehind(i) /\ VoteRequests(i)
  /\ VoteInv
  /\ LeaderInv
  /\ ElectionSafety

-----------------------------------------------------------------------------
(* What the arguments use of numbers and of finite sets *)

(* Every nonempty set of naturals has a least element, and a set of one     *)
(* server counts as one.                                                    *)
Counting ==
  /\ \A S \in SUBSET Nat : S # {} => \E m \in S : \A k \in S : m <= k
  /\ \A i \in Server : Cardinality({i}) = 1

(* Majorities: two of them meet, one of more than one server is not made up *)
(* of one server alone, and a set with a majority inside is a majority.     *)
Majorities ==
  /\ \A P, Q \in SUBSET Server :
       (HasMajority(Server, P) /\ HasMajority(Server, Q)) => P \intersect Q # {}
  /\ \A i \in Server : \A Q \in SUBSET Server :
       (HasMajority(Server, Q) /\ Server # {i}) => \E w \in Q : w # i
  /\ \A P \in SUBSET Server : \A Q \in SUBSET P :
       HasMajority(Server, Q) => HasMajority(Server, P)

-----------------------------------------------------------------------------
(* What a step of one node does to its vote *)

(* From n to r server i neither votes nor asks for votes.                   *)
Quiet(i, n, r) ==
  /\ r.term = n.term /\ r.voted_for = n.voted_for /\ r.hs_dirty = n.hs_dirty
  /\ r.votes = n.votes
  /\ n.msgs \subseteq r.msgs
  /\ \A m \in r.msgs \ n.msgs :
       m.from = i /\ m.to # i /\ m.type \notin {"vote_req", "vote_resp"}

(* What an input may do to a vote: the term grows or the vote in it is      *)
(* kept, a change marks the hard state dirty, a grant answers a request in  *)
(* flight and names the vote just taken, a candidate counts only votes in   *)
(* flight, and only a majority of counted votes makes a leader.             *)
VoteStep(i, n, r) ==
  /\ r.term >= n.term
  /\ r.term = n.term => n.voted_for \in {None, r.voted_for}
  /\ \/ r.hs_dirty
     \/ r.term = n.term /\ r.voted_for = n.voted_for /\ r.hs_dirty = n.hs_dirty
  /\ \A m \in r.msgs \ n.msgs :
       /\ m.from = i /\ m.to # i
       /\ m.type = "vote_req" => m.term = r.term /\ r.voted_for = i
       /\ (m.type = "vote_resp" /\ m.granted) =>
            /\ m.term = r.term /\ r.voted_for = m.to
            /\ \E q \in net : q.type = "vote_req" /\ q.from = m.to /\ q.term = m.term
  /\ r.role # "follower" =>
       \/ /\ n.role # "follower" /\ r.term = n.term
          /\ \A w \in r.votes \ n.votes : \E q \in net : IsGrant(q, w, r.term, i)
       \/ r.term > n.term /\ r.voted_for = i /\ r.votes = {i}
  /\ r.role = "leader" =>
       \/ n.role = "leader" /\ r.term = n.term
       \/ Cardinality(r.votes) >= Needed(Server)

=============================================================================
