--------------------------- MODULE RaftCommitInv ----------------------------
(***************************************************************************)
(* Commitment in a cluster of any size, over any number of crashes, lost,  *)
(* duplicated and reordered messages: no two servers apply different       *)
(* entries at an index, every later leader has what was applied, a         *)
(* committed entry is on the disks of a majority, and the disk any crash   *)
(* leaves can be restored.                                                 *)
(*                                                                         *)
(* The proof follows a prefix p of a leader's log whose last entry is of   *)
(* the leader's own term.  As long as p can still be committed, the        *)
(* servers that confirmed it keep it, and so does every log that moves to  *)
(* a later term; once a majority has moved on without it, p is out of      *)
(* reach of its leader.  A commit finds a majority of the first kind, and  *)
(* from then on p is kept without the leader.                              *)
(***************************************************************************)
EXTENDS RaftLogInv

(* The term of the last entry of p.                                         *)
Top(p) == p[Len(p)].term

(* The request m, merged into a log it matches, takes nothing of p away.    *)
Fits(m, p) ==
  /\ m.prev_log_index <= Len(p) => m.prev_log_term = TermAt(p, m.prev_log_index)
  /\ m.prev_log_index > Len(p) => m.prev_log_term >= Top(p)
  /\ \A k \in 1 .. Len(m.entries) :
       m.prev_log_index + k <= Len(p) => m.entries[k] = p[m.prev_log_index + k]

(* The servers of W hold the prefix p of a log, those of D also on disk;    *)
(* every log that has moved past the term of p has p; no request of that    *)
(* term or a later one contradicts it; and no candidate of a later term     *)
(* that one of W voted for is without it.                                   *)
Keeps(W, D, p) ==
  /\ p \in Seq(Entry) /\ Len(p) # 0
  /\ \A w \in W : Prefix(p, node[w].log) /\ Top(p) <= node[w].term
  /\ \A w \in D : Len(p) <= node[w].stable /\ Top(p) <= disk[w].term
  /\ \A x \in Server :
       /\ LastTerm(node[x].log) > Top(p) => Prefix(p, node[x].log)
       /\ LastTerm(disk[x].log) > Top(p) => Prefix(p, disk[x].log)
  /\ \A m \in Requests : m.term >= Top(p) => Fits(m, p)
  /\ \A c \in Server : \A w \in W :
       (node[c].role = "candidate" /\ node[c].term > Top(p) /\ Voted(w, node[c].term, c))
         => Prefix(p, node[c].log)

(* The servers that confirmed entry k to leader i, as far as i knows or a   *)
(* message in flight says; and those with an answer still queued.           *)
Durable(i, k) ==
  { w \in Server : \/ k <= node[i].match[w]
                   \/ \E m \in net : AckFor(m, i) /\ m.from = w /\ k <= m.index }

Ackers(i, k) ==
  Durable(i, k) \union
  { w \in Server : \E m \in node[w].msgs : AckFor(m, i) /\ k <= m.index }

(* Leader i cannot commit entry k any more: a majority has moved on to      *)
(* later terms without confirming it.                                       *)
Excluded(i, k) ==
  \E Q \in SUBSET Server :
    HasMajority(Server, Q) /\ \A w \in Q : w \notin Ackers(i, k) /\ disk[w].term > node[i].term

(* An entry of its own term that a leader may yet commit is safe at those   *)
(* that confirmed it.                                                       *)
PreInv ==
  \A i \in Server : node[i].role = "leader" =>
    \A k \in 1 .. Len(node[i].log) : node[i].log[k].term = node[i].term =>
      \/ Excluded(i, k)
      \/ Keeps(Ackers(i, k), Durable(i, k), SubSeq(node[i].log, 1, k))

(* A request for votes shows the log of its candidate.                      *)
VoteReqInv ==
  \A m \in Mail :
    (m.type = "vote_req" /\ node[m.from].role = "candidate" /\ node[m.from].term = m.term)
      => /\ m.last_log_index = Len(node[m.from].log)
         /\ m.last_log_term = LastTerm(node[m.from].log)

(* The prefix p is committed: a majority Q keeps it.                        *)
Com(Q, p) == HasMajority(Server, Q) /\ Keeps(Q, Q, p)

(* The first c entries of log are committed, in term t or before.           *)
Fixed(log, c, t) ==
  c = 0 \/ \E Q \in SUBSET Server : \E p \in Seq(Entry) :
             Com(Q, p) /\ Top(p) <= t /\ Agrees(p, log, c)

(* What servers, requests and the record of applied entries say of the      *)
(* commit is so.                                                            *)
ServerInv ==
  \A x \in Server :
    /\ node[x].applied <= node[x].commit /\ node[x].applied <= node[x].stable
    /\ node[x].commit <= Len(node[x].log) /\ node[x].applied <= Len(commit_terms)
    /\ Fixed(node[x].log, node[x].commit, node[x].term)
    /\ Fixed(node[x].log, node[x].applied, disk[x].term)

ReqInv ==
  \A m \in Requests :
    m.leader_commit = 0 \/ \E Q \in SUBSET Server : \E p \in Seq(Entry) :
                             Com(Q, p) /\ Top(p) <= m.term /\ m.leader_commit <= Len(p)

AppliedInv ==
  /\ \A e \in applied_log :
       /\ e.index \in 1 .. Len(commit_terms)
       /\ \E Q \in SUBSET Server : \E p \in Seq(Entry) :
            /\ Com(Q, p) /\ Top(p) <= commit_terms[e.index]
            /\ e.index <= Len(p) /\ p[e.index] = e.entry
  /\ \A k \in 1 .. Len(commit_terms) : \E e \in applied_log : e.index = k

CommitInv == PreInv /\ VoteReqInv /\ ServerInv /\ ReqInv /\ AppliedInv
=============================================================================
