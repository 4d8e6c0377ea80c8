------------------------------ MODULE RaftLog -------------------------------
(*****************************************************************************)
(* Every step keeps the invariant of elections: a vote once counted or sent *)
(* is on disk, and two majorities meet.  Then the slots of the replicated   *)
(* log, what an input leaves of them, and that draining a batch and         *)
(* crashing keep the invariant of the log: the disk takes over what the     *)
(* node has, what a server has acknowledged it still has, and a restart     *)
(* forgets nothing that anyone relies on.                                   *)
(*****************************************************************************)
EXTENDS RaftLogInv, TLAPS

(* Zenon proves the steps, unless they name another prover; it gets the     *)
(* time a loaded machine may need.                                          *)
USE ZenonT(30)

-----------------------------------------------------------------------------
(* Types *)

(* The fields of a bounded node, for the proofs that only read some of      *)
(* them.                                                                    *)
LEMMA NodeTypes ==
  ASSUME NEW n, Bounded(n)
  PROVE  /\ n.term \in Term /\ n.voted_for \in Server \union {None}
         /\ n.log \in Seq(Entry) /\ LastIndex(n.log) \in Nat
         /\ n.commit \in Nat /\ n.applied \in Nat
         /\ n.stable \in Nat /\ n.stable <= LastIndex(n.log)
         /\ n.votes \in SUBSET Server
         /\ n.next \in [Server -> Nat] /\ n.match \in [Server -> Nat]
         /\ n.truncated \in Nat \union {None} /\ n.msgs \in SUBSET Message
BY SMTT(30) DEF Bounded, NodeType, LastIndex

(* The term of an entry of a log is a term.                                 *)
LEMMA EntryType ==
  ASSUME NEW log \in Seq(Entry), NEW k \in 1 .. Len(log)
  PROVE  log[k] \in Entry /\ log[k].term \in Term
<1>1. log[k] \in Entry
  BY SMTT(30)
<1> QED BY <1>1 DEF Entry

(* lastTerm of a log is a term, 0 for the empty log.                        *)
LEMMA LastTermTyped ==
  ASSUME NEW log \in Seq(Entry)
  PROVE  LastTerm(log) \in Term
<1>1. CASE log = <<>>
  BY SMTT(30), <1>1, MaxTermAssumption DEF LastTerm, Term
<1>2. CASE log # <<>>
  <2>1. Len(log) \in 1 .. Len(log)
    BY SMTT(30), <1>2
  <2> QED BY <2>1, <1>2, EntryType DEF LastTerm
<1> QED BY <1>1, <1>2

(* The types the arguments below use.                                       *)
LEMMA ClusterTypes ==
  ASSUME TypeInv
  PROVE  /\ \A i \in Server : /\ Bounded(node[i]) /\ node[i].term \in Nat
                              /\ disk[i].term \in Nat
         /\ node \in [Server -> NodeType] /\ disk \in [Server -> DiskType]
         /\ net \in SUBSET Message /\ leaders \in SUBSET (Term \X Server)
         /\ \A m \in Message : m.from \in Server /\ m.to \in Server /\ m.term \in Term
         /\ Term \subseteq Nat
<1>1. Term \subseteq Nat
  BY SMTT(30) DEF Term
<1>2. \A m \in Message : m.from \in Server /\ m.to \in Server /\ m.term \in Term
  BY DEF Message
<1>3. \A i \in Server : Bounded(node[i]) /\ node[i].term \in Term
  BY NodeTypes DEF TypeInv, NodeOK
<1>4. \A i \in Server : disk[i].term \in Term
  BY DEF TypeInv, TypeOK, DiskType
<1> QED BY <1>1, <1>2, <1>3, <1>4 DEF TypeInv, TypeOK

(* What a node starts from.                                                 *)
LEMMA StartsFrom ==
  ASSUME NEW d, NEW a, NEW r, r = InitNode(d, a)
  PROVE  /\ r.role = "follower" /\ r.msgs = {} /\ r.log = d.log /\ r.term = d.term
         /\ r.stable = Len(d.log) /\ r.truncated = None /\ r.leader = None
         /\ ~r.bcast_pending /\ r.malformed_dropped = 0
BY DEF InitNode

(* The types of a log.                                                      *)
LEMMA LogType ==
  ASSUME NEW log \in Seq(Entry)
  PROVE  /\ Len(log) \in Nat /\ LastTerm(log) \in Nat
         /\ \A k \in 1 .. Len(log) : log[k] \in Entry /\ log[k].term \in Nat
         /\ Len(log) # 0 => LastTerm(log) = log[Len(log)].term
         /\ Len(log) = 0 => LastTerm(log) = 0
<1>1. Len(log) \in Nat
  BY SMTT(30)
<1>2. LastTerm(log) \in Nat /\ \A k \in 1 .. Len(log) : log[k] \in Entry /\ log[k].term \in Nat
  BY SMTT(30), LastTermTyped, EntryType, MaxTermAssumption DEF Term
<1>3. log = <<>> <=> Len(log) = 0
  BY SMTT(30)
<1> QED BY <1>1, <1>2, <1>3 DEF LastTerm

-----------------------------------------------------------------------------
(* Elections *)

(* What was reached stays reached: voting for j in t excludes every other   *)
(* candidate of t for good.                                                 *)
LEMMA ReachedFollows ==
  ASSUME NEW a, NEW b, a.term \in Nat, b.term \in Nat, Follows(a, b),
         NEW t \in Nat, NEW j \in Server, Reached(a, t, j)
  PROVE  Reached(b, t, j)
BY SMTT(30), NoneAssumption DEF Follows, Reached

(* A fresh cluster satisfies the invariant.                                 *)
LEMMA ElectionInit == Init => ElectionInv
<1> SUFFICES ASSUME Init PROVE ElectionInv
  OBVIOUS
<1>1. /\ \A i \in Server : /\ node[i].msgs = {} /\ node[i].role = "follower"
                           /\ node[i].term = 0 /\ node[i].voted_for = None
                           /\ disk[i].term = 0 /\ disk[i].voted_for = None
      /\ net = {} /\ leaders = {}
  BY DEF Init, InitNode, EmptyDisk
<1>2. \A i \in Server : DiskBehind(i) /\ VoteRequests(i)
  BY <1>1 DEF DiskBehind, VoteRequests, Follows
<1>3. \A w, j \in Server, t \in Term : ~Voted(w, t, j) /\ ~Cast(w, t, j)
  BY <1>1 DEF Voted, Cast, Counted
<1> QED BY <1>1, <1>2, <1>3 DEF ElectionInv, VoteInv, LeaderInv, ElectionSafety

(* An input whose effect on the node is a vote step preserves the           *)
(* invariant.  The heart of it: a new leader's majority has a common server *)
(* with the quorum of any other leader of the term, and that server has     *)
(* voted for both.                                                          *)
LEMMA InputElection ==
  ASSUME Majorities, TypeInv, TypeInv', ElectionInv, NEW i \in Server, NEW n,
         Bounded(n), VoteStep(i, node[i], n), Update(i, n), disk' = disk, net' \subseteq net
  PROVE  ElectionInv'
<1> DEFINE New(t, j) == /\ n.term = t /\ n.voted_for = j
                        /\ j # i => Reached(disk[j], t, j)
<1>1. /\ node' = [node EXCEPT ![i] = n] /\ node'[i] = n
      /\ \A j \in Server \ {i} : node'[j] = node[j]
      /\ leaders' = leaders \union (IF n.role = "leader" THEN {<<n.term, i>>} ELSE {})
  BY ClusterTypes DEF Update
<1>2. /\ n.term \in Term /\ n.term \in Nat /\ n.votes \in SUBSET Server
      /\ n.msgs \in SUBSET Message /\ Term \subseteq Nat
  BY NodeTypes, ClusterTypes
<1>3. Follows(node[i], n)
  <2>1. node[i].term \in Nat
    BY ClusterTypes
  <2>2. n.term >= node[i].term /\ (n.term = node[i].term => node[i].voted_for \in {None, n.voted_for})
    BY DEF VoteStep
  <2> QED BY SMTT(30), <1>2, <2>1, <2>2 DEF Follows
<1>4. ASSUME NEW w \in Server, NEW j \in Server, NEW t \in Term, Voted(w, t, j)'
      PROVE  Voted(w, t, j) \/ (w = i /\ New(t, j))
  <2>1. CASE \E m \in net' : IsGrant(m, w, t, j)
    BY <2>1 DEF Voted
  <2>2. ASSUME NEW m \in node'[w].msgs, IsGrant(m, w, t, j)
        PROVE  Voted(w, t, j) \/ (w = i /\ New(t, j))
    <3>1. CASE w # i
      BY <1>1, <2>2, <3>1 DEF Voted
    <3>2. CASE w = i /\ m \in node[i].msgs
      BY <2>2, <3>2 DEF Voted
    <3>3. CASE w = i /\ m \notin node[i].msgs
      <4>1. /\ m.term = n.term /\ n.voted_for = m.to
            /\ \E q \in net : q.type = "vote_req" /\ q.from = m.to /\ q.term = m.term
        BY <1>1, <2>2, <3>3 DEF VoteStep, IsGrant
      <4>2. Reached(disk[j], t, j)
        BY <4>1, <2>2 DEF ElectionInv, VoteRequests, IsGrant
      <4> QED BY <2>2, <3>3, <4>1, <4>2 DEF IsGrant
    <3> QED BY <3>1, <3>2, <3>3
  <2>3. CASE Counted(w, t, j)'
    <3>1. CASE j # i
      BY <1>1, <2>3, <3>1 DEF Voted, Counted
    <3>2. CASE j = i
      <4>1. n.role # "follower" /\ n.term = t /\ w \in n.votes
        BY <1>1, <2>3, <3>2 DEF Counted
      <4>2. CASE /\ node[i].role # "follower" /\ n.term = node[i].term
                 /\ \A x \in n.votes \ node[i].votes : \E q \in net : IsGrant(q, x, n.term, i)
        BY <3>2, <4>1, <4>2 DEF Voted, Counted
      <4>3. CASE n.term > node[i].term /\ n.voted_for = i /\ n.votes = {i}
        BY <3>2, <4>1, <4>3
      <4> QED BY <4>1, <4>2, <4>3 DEF VoteStep
    <3> QED BY <3>1, <3>2
  <2> QED BY <1>4, <2>1, <2>2, <2>3 DEF Voted
<1>5. ASSUME NEW w \in Server, NEW j \in Server, NEW t \in Term, Cast(w, t, j)'
      PROVE  Cast(w, t, j)
  <2>1. CASE \E m \in net' : IsGrant(m, w, t, j)
    BY <2>1 DEF Cast
  <2>2. CASE w # j /\ Counted(w, t, j)'
    <3>1. CASE j # i
      BY <1>1, <2>2, <3>1 DEF Cast, Counted
    <3>2. CASE j = i
      <4>1. n.role # "follower" /\ n.term = t /\ w \in n.votes
        BY <1>1, <2>2, <3>2 DEF Counted
      <4>2. CASE /\ node[i].role # "follower" /\ n.term = node[i].term
                 /\ \A x \in n.votes \ node[i].votes : \E q \in net : IsGrant(q, x, n.term, i)
        BY <2>2, <3>2, <4>1, <4>2 DEF Cast, Counted
      <4>3. CASE n.term > node[i].term /\ n.voted_for = i /\ n.votes = {i}
        BY <2>2, <3>2, <4>1, <4>3
      <4> QED BY <4>1, <4>2, <4>3 DEF VoteStep
    <3> QED BY <3>1, <3>2
  <2> QED BY <1>5, <2>1, <2>2 DEF Cast
<1>6. \A w, j \in Server, t \in Term : Reached(node[w], t, j) => Reached(node'[w], t, j)
  BY <1>1, <1>2, <1>3, ClusterTypes, ReachedFollows
<1>7. ASSUME NEW w \in Server, NEW j \in Server, NEW t \in Term
      PROVE  /\ Voted(w, t, j)' => Reached(node'[w], t, j)
             /\ Cast(w, t, j)' => Reached(disk'[w], t, j)
             /\ (Voted(w, t, j)' /\ w # j) => Reached(disk'[j], t, j)
             /\ \A k \in Server : Voted(w, t, j)' /\ Voted(w, t, k)' => j = k
  <2> HIDE DEF New
  <2>1. Voted(w, t, j)' => Reached(node'[w], t, j)
    BY SMTT(30), <1>1, <1>4, <1>6 DEF ElectionInv, VoteInv, Reached, New
  <2>2. Cast(w, t, j)' => Reached(disk'[w], t, j)
    BY <1>5 DEF ElectionInv, VoteInv
  <2>3. (Voted(w, t, j)' /\ w # j) => Reached(disk'[j], t, j)
    BY SMTT(30), <1>4 DEF ElectionInv, VoteInv, New
  <2>4. ASSUME NEW k \in Server, Voted(w, t, j)', Voted(w, t, k)' PROVE j = k
    <3>1. CASE Voted(w, t, j) /\ Voted(w, t, k)
      BY <3>1 DEF ElectionInv, VoteInv
    <3>2. ASSUME NEW a \in Server, NEW b \in Server, Voted(w, t, a), w = i, New(t, b)
          PROVE  a = b
      <4>1. Reached(n, t, a)
        BY SMTT(30), <1>1, <1>6, <3>2 DEF ElectionInv, VoteInv
      <4> QED BY SMTT(30), <1>2, <3>2, <4>1 DEF New, Reached
    <3>3. CASE w = i /\ New(t, j) /\ New(t, k)
      BY <3>3 DEF New
    <3> QED BY <1>4, <2>4, <3>1, <3>2, <3>3
  <2> QED BY <2>1, <2>2, <2>3, <2>4
<1>8. \A j \in Server : DiskBehind(j)'
  <2> SUFFICES ASSUME NEW j \in Server PROVE DiskBehind(j)'
    OBVIOUS
  <2>1. CASE j # i
    BY <1>1, <2>1 DEF ElectionInv, DiskBehind, Follows
  <2>2. CASE j = i
    <3>1. Follows(disk[i], n)
      BY SMTT(30), <1>2, <1>3, ClusterTypes, NoneAssumption DEF ElectionInv, DiskBehind, Follows
    <3>2. n.hs_dirty \/ (disk[i].term = n.term /\ disk[i].voted_for = n.voted_for)
      BY DEF ElectionInv, DiskBehind, VoteStep
    <3> QED BY <1>1, <2>2, <3>1, <3>2 DEF DiskBehind, Follows
  <2> QED BY <2>1, <2>2
<1>9. \A j \in Server : VoteRequests(j)'
  <2> SUFFICES ASSUME NEW j \in Server PROVE VoteRequests(j)'
    OBVIOUS
  <2>1. \A m \in net' : (m.type = "vote_req" /\ m.from = j) => Reached(disk'[j], m.term, j)
    BY DEF ElectionInv, VoteRequests
  <2>2. CASE j # i
    BY <1>1, <2>1, <2>2 DEF ElectionInv, VoteRequests
  <2>3. CASE j = i
    <3>1. ASSUME NEW m \in n.msgs
          PROVE  m.from = i /\ m.to # i /\ (m.type = "vote_req" => Reached(n, m.term, i))
      <4>1. CASE m \in node[i].msgs
        BY <1>1, <1>2, <1>6, <4>1, ClusterTypes DEF ElectionInv, VoteRequests
      <4>2. CASE m \notin node[i].msgs
        BY <3>1, <4>2 DEF VoteStep, Reached
      <4> QED BY <4>1, <4>2
    <3> QED BY <1>1, <2>1, <2>3, <3>1 DEF VoteRequests
  <2> QED BY <2>2, <2>3
<1>10. ASSUME NEW Q \in SUBSET Server, NEW t \in Term, NEW l \in Server, Quorum(Q, t, l)
       PROVE  Quorum(Q, t, l)'
  <2>1. ASSUME NEW w \in Q, NEW j \in Server, Voted(w, t, j)' PROVE j = l
    <3>1. CASE Voted(w, t, j)
      BY <1>10, <3>1 DEF Quorum
    <3>2. CASE w = i /\ New(t, j)
      <4>1. Reached(disk[i], t, l)
        BY <1>10, <3>2 DEF Quorum
      <4>2. Reached(n, t, l)
        BY <1>1, <1>2, <1>6, <4>1, ClusterTypes, ReachedFollows DEF ElectionInv, DiskBehind
      <4> QED BY SMTT(30), <1>2, <3>2, <4>2 DEF Reached
    <3> QED BY <1>4, <2>1, <3>1, <3>2
  <2> QED BY <1>10, <2>1 DEF Quorum
<1> HIDE DEF New
<1>11. CASE n.role # "leader" \/ <<n.term, i>> \in leaders
  <2>1. leaders' = leaders
    BY <1>1, <1>11
  <2>2. \A l \in leaders : Server = {l[2]} \/ \E Q \in SUBSET Server : Quorum(Q, l[1], l[2])'
    BY <1>10, ClusterTypes DEF ElectionInv, LeaderInv
  <2>3. \A j \in Server : node'[j].role = "leader" => <<node'[j].term, j>> \in leaders'
    BY <1>1, <1>11, <2>1 DEF ElectionInv, LeaderInv
  <2> QED BY <1>7, <1>8, <1>9, <2>1, <2>2, <2>3
          DEF ElectionInv, VoteInv, LeaderInv, ElectionSafety
<1>12. CASE n.role = "leader" /\ <<n.term, i>> \notin leaders
  <2>1. Cardinality(n.votes) >= Needed(Server)
    BY <1>12 DEF VoteStep, ElectionInv, LeaderInv
  <2>2. HasMajority(Server, n.votes)
    <3>1. Server \cap n.votes = n.votes
      BY <1>2
    <3> QED BY <2>1, <3>1 DEF HasMajority
  <2>3. \A w \in n.votes : Counted(w, n.term, i)' /\ Voted(w, n.term, i)'
    BY <1>1, <1>12 DEF Counted, Voted
  <2>4. Server = {i} \/ Quorum(n.votes, n.term, i)'
    <3> SUFFICES ASSUME Server # {i}, NEW w \in n.votes
                 PROVE  /\ Reached(disk'[w], n.term, i)
                        /\ \A j \in Server : Voted(w, n.term, j)' => j = i
      BY <2>2 DEF Quorum
    <3>1. \A j \in Server : Voted(w, n.term, j)' => j = i
      BY <1>2, <1>7, <2>3
    <3>2. CASE w # i
      BY <1>2, <1>7, <2>3, <3>2 DEF Cast
    <3>3. CASE w = i
      <4>1. PICK x \in n.votes : x # i
        BY <1>2, <2>2 DEF Majorities
      <4> QED BY <1>2, <1>7, <2>3, <3>3, <4>1
    <3> QED BY <3>1, <3>2, <3>3
  <2>5. ASSUME NEW l \in leaders, l[1] = n.term PROVE l[2] = i
    <3>1. l[1] \in Term /\ l[2] \in Server
      BY ClusterTypes
    <3>2. CASE Server = {l[2]}
      BY <3>2
    <3>3. ASSUME NEW Q \in SUBSET Server, Quorum(Q, l[1], l[2]) PROVE l[2] = i
      <4>1. Quorum(Q, l[1], l[2])' /\ HasMajority(Server, Q)
        BY SMTT(30), <1>10, <3>1, <3>3 DEF Quorum
      <4>2. PICK w \in Server : w \in Q /\ w \in n.votes
        BY SMTT(30), <1>2, <2>2, <4>1 DEF Majorities
      <4> QED BY <2>3, <2>5, <4>1, <4>2 DEF Quorum
    <3> QED BY <3>2, <3>3 DEF ElectionInv, LeaderInv
  <2>6. leaders' = leaders \union {<<n.term, i>>}
    BY <1>1, <1>12
  <2>7. ElectionSafety'
    BY SMTT(30), <2>5, <2>6 DEF ElectionInv, ElectionSafety
  <2>8. LeaderInv'
    <3>1. \A l \in leaders : Server = {l[2]} \/ \E Q \in SUBSET Server : Quorum(Q, l[1], l[2])'
      BY <1>10, ClusterTypes DEF ElectionInv, LeaderInv
    <3>2. \A j \in Server : node'[j].role = "leader" => <<node'[j].term, j>> \in leaders'
      BY <1>1, <1>12, <2>6 DEF ElectionInv, LeaderInv
    <3> QED BY SMTT(30), <1>2, <2>4, <2>6, <3>1, <3>2 DEF LeaderInv
  <2> QED BY <1>7, <1>8, <1>9, <2>7, <2>8 DEF ElectionInv, VoteInv
<1> QED BY <1>11, <1>12

(* A step in which nobody votes, and in which what is known of the votes    *)
(* cast stays true, preserves the invariant.                                *)
LEMMA NoVoteElection ==
  ASSUME TypeInv, ElectionInv, leaders' = leaders,
         \A i \in Server : DiskBehind(i)' /\ VoteRequests(i)',
         \A i \in Server : node'[i].role = "leader" => <<node'[i].term, i>> \in leaders,
         \A w, j \in Server, t \in Term :
           /\ Voted(w, t, j)' => Voted(w, t, j) /\ Reached(node'[w], t, j)
           /\ Cast(w, t, j)' => Reached(disk'[w], t, j)
           /\ Reached(disk[w], t, j) => Reached(disk'[w], t, j)
  PROVE  ElectionInv'
<1>1. VoteInv'
  BY SMTT(30) DEF ElectionInv, VoteInv
<1>2. ASSUME NEW Q \in SUBSET Server, NEW t \in Term, NEW l \in Server, Quorum(Q, t, l)
      PROVE  Quorum(Q, t, l)'
  BY <1>2 DEF Quorum
<1>3. \A l \in leaders : Server = {l[2]} \/ \E Q \in SUBSET Server : Quorum(Q, l[1], l[2])'
  BY <1>2, ClusterTypes DEF ElectionInv, LeaderInv
<1>4. LeaderInv'
  BY <1>3 DEF LeaderInv
<1> QED BY <1>1, <1>4 DEF ElectionInv, ElectionSafety

(* Draining preserves the invariant: answers enter the network only with    *)
(* the votes they report on disk.                                           *)
LEMMA DrainElection ==
  ASSUME TypeInv, TypeInv', ElectionInv, NEW i \in Server, NEW r, Drained(i, r)
  PROVE  ElectionInv'
<1>1. /\ r.term = node[i].term /\ r.voted_for = node[i].voted_for /\ ~r.hs_dirty
      /\ r.role = node[i].role /\ r.votes = node[i].votes /\ r.msgs = {}
  BY DEF Drained
<1>2. /\ disk'[i].term = node[i].term /\ disk'[i].voted_for = node[i].voted_for
      /\ \A j \in Server \ {i} : disk'[j] = disk[j]
  BY DEF Drained
<1>3. /\ node'[i] = r /\ leaders' = leaders
      /\ \A j \in Server \ {i} : node'[j] = node[j]
  BY DEF Drained
<1>4. \A m \in net' \ net : m.type \in {"vote_req", "vote_resp"} => m \in node[i].msgs /\ m.from = i
  <2>1. \A m \in net' \ net : m \in node[i].msgs \/ m.type = "append_req"
    BY DEF Drained
  <2> QED BY <2>1 DEF ElectionInv, VoteRequests
<1>5. \A j \in Server : Follows(disk[j], disk'[j])
  BY <1>2 DEF ElectionInv, DiskBehind, Follows
<1>6. \A w, j \in Server, t \in Term : Reached(disk[w], t, j) => Reached(disk'[w], t, j)
  <2>1. \A w \in Server : disk[w].term \in Nat /\ disk'[w].term \in Nat
    BY <1>2, ClusterTypes
  <2> QED BY <1>5, <2>1, ClusterTypes, ReachedFollows
<1>7. \A t, j : Reached(node[i], t, j) => Reached(r, t, j) /\ Reached(disk'[i], t, j)
  BY <1>1, <1>2 DEF Reached
<1>8. ASSUME NEW w \in Server, NEW j \in Server, NEW t \in Term, Voted(w, t, j)'
       PROVE  Voted(w, t, j) /\ Reached(node'[w], t, j)
  <2>1. Voted(w, t, j)
    <3>1. Counted(w, t, j)' => Counted(w, t, j)
      BY <1>1, <1>3 DEF Counted
    <3>2. \A m \in net' : IsGrant(m, w, t, j) => m \in net \/ (w = i /\ m \in node[i].msgs)
      BY <1>4 DEF IsGrant
    <3>3. \A m \in node'[w].msgs : m \in node[w].msgs
      BY <1>1, <1>3
    <3> QED BY <1>8, <3>1, <3>2, <3>3 DEF Voted
  <2> QED BY <1>3, <1>7, <2>1 DEF ElectionInv, VoteInv
<1>9. ASSUME NEW w \in Server, NEW j \in Server, NEW t \in Term, Cast(w, t, j)'
       PROVE  Reached(disk'[w], t, j)
  <2>1. Cast(w, t, j)' => Cast(w, t, j) \/ (w = i /\ Voted(w, t, j))
    <3>1. Counted(w, t, j)' => Counted(w, t, j)
      BY <1>1, <1>3 DEF Counted
    <3>2. \A m \in net' : IsGrant(m, w, t, j) => m \in net \/ (w = i /\ m \in node[i].msgs)
      BY <1>4 DEF IsGrant
    <3> QED BY <3>1, <3>2 DEF Cast, Voted
  <2> QED BY <1>6, <1>7, <1>9, <2>1 DEF ElectionInv, VoteInv
<1>10. ASSUME NEW j \in Server PROVE DiskBehind(j)' /\ VoteRequests(j)'
  <2>1. DiskBehind(j)'
    BY <1>1, <1>2, <1>3 DEF DiskBehind, Follows, ElectionInv
  <2>2. \A m \in node'[j].msgs :
          m.from = j /\ m.to # j /\ (m.type = "vote_req" => Reached(node'[j], m.term, j))
    BY SMTT(30), <1>1, <1>3 DEF ElectionInv, VoteRequests
  <2>3. ASSUME NEW m \in net', m.type = "vote_req", m.from = j
        PROVE  Reached(disk'[j], m.term, j)
    <3>1. CASE m \in net
      <4>1. m.term \in Term
        BY <3>1, ClusterTypes
      <4> QED BY <1>6, <2>3, <3>1, <4>1 DEF ElectionInv, VoteRequests
    <3>2. CASE m \notin net
      BY <1>4, <1>7, <2>3, <3>2 DEF ElectionInv, VoteRequests
    <3> QED BY <3>1, <3>2
  <2> QED BY <2>1, <2>2, <2>3 DEF VoteRequests
<1>11. \A j \in Server : node'[j].role = "leader" => <<node'[j].term, j>> \in leaders
  BY <1>1, <1>3 DEF ElectionInv, LeaderInv
<1> QED BY <1>3, <1>6, <1>8, <1>9, <1>10, <1>11, NoVoteElection

(* A crash preserves the invariant: a voter forgets at most a vote whose    *)
(* answer was not sent, and a candidate that lost its own vote has lost its *)
(* queued requests too.                                                     *)
LEMMA RestartElection ==
  ASSUME TypeInv, TypeInv', ElectionInv, NEW i \in Server, NEW d, NEW a, Restarted(i, d, a)
  PROVE  ElectionInv'
<1> DEFINE r == InitNode(d, a)
<1>1. /\ r.term = d.term /\ r.voted_for = d.voted_for /\ r.role = "follower"
      /\ r.msgs = {} /\ ~r.hs_dirty
  BY DEF InitNode
<1>2. net' = net
  BY DEF Restarted
<1>3. /\ disk'[i] = d /\ \A j \in Server \ {i} : disk'[j] = disk[j]
      /\ node'[i] = r /\ \A j \in Server \ {i} : node'[j] = node[j]
      /\ leaders' = leaders
  BY DEF Restarted
<1> HIDE DEF r
<1>4. Follows(disk[i], d)
  <2>1. \/ d.term = disk[i].term /\ d.voted_for = disk[i].voted_for
        \/ d.term = node[i].term /\ d.voted_for = node[i].voted_for
    BY DEF Restarted
  <2> QED BY <2>1 DEF ElectionInv, DiskBehind, Follows
<1>5. \A w, j \in Server, t \in Term : Reached(disk[w], t, j) => Reached(disk'[w], t, j)
  <2>1. d.term \in Nat
    BY ClusterTypes DEF Restarted, DiskType
  <2> QED BY <1>3, <1>4, <2>1, ClusterTypes, ReachedFollows
<1>6. \A t, j : Reached(d, t, j) => Reached(r, t, j)
  BY <1>1 DEF Reached
<1>7. ASSUME NEW w \in Server, NEW j \in Server, NEW t \in Term, Voted(w, t, j)'
      PROVE  Voted(w, t, j) /\ (w = i => Cast(w, t, j))
  BY <1>1, <1>2, <1>3, <1>7 DEF Voted, Cast, Counted
<1>8. ASSUME NEW w \in Server, NEW j \in Server, NEW t \in Term, Voted(w, t, j)'
      PROVE  Reached(node'[w], t, j)
  <2>1. CASE w = i
    BY <1>3, <1>5, <1>6, <1>7, <1>8, <2>1 DEF ElectionInv, VoteInv
  <2>2. CASE w # i
    BY <1>3, <1>7, <1>8, <2>2 DEF ElectionInv, VoteInv
  <2> QED BY <2>1, <2>2
<1>9. ASSUME NEW w \in Server, NEW j \in Server, NEW t \in Term, Cast(w, t, j)'
       PROVE  Reached(disk'[w], t, j)
  <2>1. Cast(w, t, j)
    BY <1>1, <1>2, <1>3, <1>9 DEF Cast, Counted
  <2> QED BY <1>5, <2>1 DEF ElectionInv, VoteInv
<1>10. ASSUME NEW j \in Server PROVE DiskBehind(j)' /\ VoteRequests(j)'
  <2>1. DiskBehind(j)'
    BY <1>1, <1>3 DEF DiskBehind, Follows, ElectionInv
  <2>2. \A m \in node'[j].msgs :
          m.from = j /\ m.to # j /\ (m.type = "vote_req" => Reached(node'[j], m.term, j))
    BY SMTT(30), <1>1, <1>3 DEF ElectionInv, VoteRequests
  <2>3. ASSUME NEW m \in net', m.type = "vote_req", m.from = j
        PROVE  Reached(disk'[j], m.term, j)
    <3>1. m \in net /\ m.term \in Term
      BY <1>2, ClusterTypes
    <3> QED BY <1>5, <2>3, <3>1 DEF ElectionInv, VoteRequests
  <2> QED BY <2>1, <2>2, <2>3 DEF VoteRequests
<1>11. \A j \in Server : node'[j].role = "leader" => <<node'[j].term, j>> \in leaders
  BY <1>1, <1>3 DEF ElectionInv, LeaderInv
<1> QED BY <1>3, <1>5, <1>7, <1>8, <1>9, <1>10, <1>11, NoVoteElection

(* A step of the cluster preserves the invariant of elections.              *)
LEMMA ElectionStepKeeps ==
  ASSUME Safe, TypeInv', ClusterStep
  PROVE  ElectionInv'
<1>1. PICK i \in Server : \/ \E r : Drained(i, r) /\ Applied(i, r)
                         \/ \E d, a : Restarted(i, d, a)
                         \/ \E r : TakesInput(i, r)
  BY DEF ClusterStep
<1>2. CASE \E r : Drained(i, r) /\ Applied(i, r)
  BY <1>2, DrainElection DEF Safe
<1>3. CASE \E d, a : Restarted(i, d, a)
  BY <1>3, RestartElection DEF Safe
<1>4. CASE \E r : TakesInput(i, r)
  <2>1. PICK r : TakesInput(i, r)
    BY <1>4
  <2>2. /\ Bounded(r) /\ VoteStep(i, node[i], r) /\ Update(i, r)
        /\ disk' = disk /\ net' \subseteq net
    BY <2>1 DEF TakesInput, Takes, NodeOK
  <2> QED BY <2>2, InputElection DEF Safe
<1> QED BY <1>1, <1>2, <1>3, <1>4

(* In every step each disk keeps its hard state or replaces it by one that  *)
(* follows it.                                                              *)
LEMMA DiskFollows ==
  ASSUME ElectionInv, ClusterStep, NEW j \in Server
  PROVE  Follows(disk[j], disk'[j])
<1>1. PICK i \in Server : \/ \E r : Drained(i, r) /\ Applied(i, r)
                         \/ \E d, a : Restarted(i, d, a)
                         \/ \E r : TakesInput(i, r)
  BY DEF ClusterStep
<1>2. CASE disk'[j] = disk[j]
  BY <1>2 DEF Follows
<1>3. CASE j = i /\ disk'[i].term = node[i].term /\ disk'[i].voted_for = node[i].voted_for
  BY <1>3 DEF ElectionInv, DiskBehind, Follows
<1>4. CASE j = i /\ disk'[i].term = disk[i].term /\ disk'[i].voted_for = disk[i].voted_for
  BY <1>4 DEF Follows
<1>5. ASSUME NEW r, Drained(i, r)
      PROVE  /\ disk'[i].term = node[i].term /\ disk'[i].voted_for = node[i].voted_for
             /\ j # i => disk'[j] = disk[j]
  BY <1>5 DEF Drained
<1>6. ASSUME NEW d, NEW a, Restarted(i, d, a)
      PROVE  /\ \/ disk'[i].term = node[i].term /\ disk'[i].voted_for = node[i].voted_for
                \/ disk'[i].term = disk[i].term /\ disk'[i].voted_for = disk[i].voted_for
             /\ j # i => disk'[j] = disk[j]
  BY <1>6 DEF Restarted
<1>7. ASSUME NEW r, TakesInput(i, r) PROVE disk'[j] = disk[j]
  BY <1>7 DEF TakesInput, Takes
<1> QED BY <1>1, <1>2, <1>3, <1>4, <1>5, <1>6, <1>7

-----------------------------------------------------------------------------
(* Slots *)

(* A slot of a log, field by field.                                         *)
LEMMA SlotFields ==
  ASSUME NEW log, NEW k
  PROVE  /\ SlotOf(log, k).index = k /\ SlotOf(log, k).entry = log[k]
         /\ SlotOf(log, k).prev = TermAt(log, k - 1)
BY DEF SlotOf

(* Tidy logs with the same term at k are equal up to k.                     *)
LEMMA PrefixAgree ==
  ASSUME NEW a \in Seq(Entry), NEW b \in Seq(Entry), NEW S, Tidy(S),
         LogSlots(a) \subseteq S, LogSlots(b) \subseteq S,
         NEW k \in Nat, k <= Len(a), k <= Len(b), TermAt(a, k) = TermAt(b, k)
  PROVE  \A j \in 1 .. k : a[j] = b[j]
BY DEF Tidy

(* The slots of a slice of a log are slots of the log.                      *)
LEMMA SliceSlots ==
  ASSUME NEW m \in Message, m.type = "append_req", NEW log \in Seq(Entry), SliceOf(m, log)
  PROVE  ReqSlots(m) \subseteq LogSlots(log)
<1>1. m.entries \in Seq(Entry) /\ m.prev_log_index \in Nat /\ Len(m.entries) \in Nat /\ Len(log) \in Nat
  BY SMTT(30) DEF Message
<1> SUFFICES ASSUME NEW k \in 1 .. Len(m.entries) PROVE ReqSlot(m, k) \in LogSlots(log)
  BY DEF ReqSlots
<1> DEFINE j == m.prev_log_index + k
<1>2. j \in 1 .. Len(log) /\ m.entries[k] = log[j]
  BY SMTT(30), <1>1 DEF SliceOf
<1>3. (IF k = 1 THEN m.prev_log_term ELSE m.entries[k - 1].term) = TermAt(log, j - 1)
  <2>1. CASE k = 1
    <3>1. j - 1 = m.prev_log_index
      BY SMTT(30), <1>1, <2>1
    <3> QED BY <2>1, <3>1 DEF SliceOf
  <2>2. CASE k # 1
    <3>1. k - 1 \in 1 .. Len(m.entries) /\ m.prev_log_index + (k - 1) = j - 1 /\ j - 1 # 0
      BY SMTT(30), <1>1, <2>2
    <3>2. m.entries[k - 1] = log[j - 1]
      BY <3>1 DEF SliceOf
    <3> QED BY <2>2, <3>1, <3>2 DEF TermAt
  <2> QED BY <2>1, <2>2
<1>4. ReqSlot(m, k) = SlotOf(log, j)
  BY <1>2, <1>3 DEF ReqSlot, SlotOf
<1> QED BY <1>2, <1>4 DEF LogSlots

(* The slots of a prefix of a log are slots of the log.                     *)
LEMMA PrefixSlots ==
  ASSUME NEW a \in Seq(Entry), NEW b \in Seq(Entry), Prefix(a, b)
  PROVE  LogSlots(a) \subseteq LogSlots(b)
<1>1. Len(a) \in Nat /\ Len(b) \in Nat
  BY SMTT(30)
<1> SUFFICES ASSUME NEW k \in 1 .. Len(a) PROVE SlotOf(a, k) \in LogSlots(b)
  BY DEF LogSlots
<1>2. k \in 1 .. Len(b) /\ a[k] = b[k]
  BY SMTT(30), <1>1 DEF Prefix
<1>3. TermAt(a, k - 1) = TermAt(b, k - 1)
  <2>1. k - 1 = 0 \/ k - 1 \in 1 .. Len(a)
    BY SMTT(30), <1>1
  <2> QED BY <2>1 DEF TermAt, Prefix
<1> QED BY <1>2, <1>3 DEF SlotOf, LogSlots

-----------------------------------------------------------------------------
(* The invariant *)

(* What the arguments below use of the types.                               *)
LogTypes(x, d, ms) ==
  /\ \A i \in Server :
       /\ Bounded(x[i]) /\ x[i].log \in Seq(Entry) /\ Len(x[i].log) \in Nat
       /\ x[i].term \in Term /\ x[i].term \in Nat
       /\ x[i].stable \in Nat /\ x[i].stable <= Len(x[i].log)
       /\ x[i].match \in [Server -> Nat] /\ x[i].msgs \in SUBSET Message
       /\ d[i] \in DiskType /\ d[i].log \in Seq(Entry) /\ Len(d[i].log) \in Nat
       /\ d[i].term \in Term /\ d[i].term \in Nat
  /\ ms \in SUBSET Message

(* The type invariant gives these types.                                    *)
LEMMA LogTyped == TypeInv => LogTypes(node, disk, net) /\ Mail \in SUBSET Message
<1> SUFFICES ASSUME TypeInv PROVE LogTypes(node, disk, net) /\ Mail \in SUBSET Message
  OBVIOUS
<1>1. ASSUME NEW i \in Server
      PROVE /\ Bounded(node[i]) /\ node[i].log \in Seq(Entry) /\ Len(node[i].log) \in Nat
            /\ node[i].term \in Term /\ node[i].term \in Nat
            /\ node[i].stable \in Nat /\ node[i].stable <= Len(node[i].log)
            /\ node[i].match \in [Server -> Nat] /\ node[i].msgs \in SUBSET Message
            /\ disk[i] \in DiskType
  BY ClusterTypes, NodeTypes DEF LastIndex
<1>2. ASSUME NEW i \in Server
      PROVE /\ disk[i].log \in Seq(Entry) /\ Len(disk[i].log) \in Nat
            /\ disk[i].term \in Term /\ disk[i].term \in Nat
  <2>1. disk[i] \in DiskType
    BY <1>1
  <2>2. disk[i].log \in Seq(Entry) /\ disk[i].term \in Term
    BY <2>1 DEF DiskType
  <2> QED BY SMTT(30), <2>2, ClusterTypes
<1>3. net \in SUBSET Message
  BY ClusterTypes
<1>4. Mail \in SUBSET Message
  BY <1>1, <1>3 DEF Mail
<1> QED BY <1>1, <1>2, <1>3, <1>4 DEF LogTypes

(* It gives them after a step, too.                                         *)
LEMMA LogTypedNext == TypeInv' => LogTypes(node', disk', net') /\ Mail' \in SUBSET Message
<1>1. TypeInv' => (LogTypes(node, disk, net) /\ Mail \in SUBSET Message)'
  BY LogTyped, PTL
<1> QED BY <1>1

(* The mail, the logs and the disks are where slots are.                    *)
LEMMA SlotsOf ==
  /\ \A i \in Server : LogSlots(node[i].log) \subseteq Slots /\ LogSlots(disk[i].log) \subseteq Slots
  /\ \A m \in Mail : m.type = "append_req" => ReqSlots(m) \subseteq Slots
  /\ \A i \in Server : node[i].msgs \subseteq Mail
  /\ net \subseteq Mail
<1>1. \A i \in Server : LogSlots(node[i].log) \subseteq NodeSlots
  BY DEF NodeSlots
<1>2. \A i \in Server : LogSlots(disk[i].log) \subseteq DiskSlots
  BY DEF DiskSlots
<1>3. \A m \in Requests : ReqSlots(m) \subseteq WireSlots
  BY DEF WireSlots
<1>4. \A i \in Server : node[i].msgs \subseteq Mail
  BY DEF Mail
<1>5. net \subseteq Mail
  BY DEF Mail
<1>6. \A m \in Mail : m.type = "append_req" => m \in Requests
  BY DEF Requests
<1> QED BY <1>1, <1>2, <1>3, <1>4, <1>5, <1>6 DEF Slots

(* The same of the slots after a step.                                      *)
LEMMA SlotsOfNext ==
  \A i \in Server : LogSlots(node'[i].log) \subseteq Slots' /\ LogSlots(disk'[i].log) \subseteq Slots'
<1>1. \A i \in Server : LogSlots(node[i].log) \subseteq Slots /\ LogSlots(disk[i].log) \subseteq Slots
  BY SlotsOf
<1>2. (\A i \in Server : LogSlots(node[i].log) \subseteq Slots /\ LogSlots(disk[i].log) \subseteq Slots)'
  BY <1>1, PTL
<1> QED BY <1>2

(* There are no others.                                                     *)
LEMMA SlotsFrom ==
  ASSUME NEW S,
         \A i \in Server : LogSlots(node[i].log) \subseteq S /\ LogSlots(disk[i].log) \subseteq S,
         \A m \in Mail : m.type = "append_req" => ReqSlots(m) \subseteq S
  PROVE  Slots \subseteq S
<1>1. NodeSlots \subseteq S
  BY DEF NodeSlots
<1>2. DiskSlots \subseteq S
  BY DEF DiskSlots
<1>3. \A m \in Requests : ReqSlots(m) \subseteq S
  BY DEF Requests
<1>4. WireSlots \subseteq S
  BY <1>3 DEF WireSlots
<1> QED BY <1>1, <1>2, <1>4 DEF Slots

(* The slots after a step come from the logs, disks and requests after it.  *)
LEMMA SlotsFromNext ==
  ASSUME NEW S,
         \A i \in Server : LogSlots(node'[i].log) \subseteq S /\ LogSlots(disk'[i].log) \subseteq S,
         \A m \in Mail' : m.type = "append_req" => ReqSlots(m) \subseteq S
  PROVE  Slots' \subseteq S
<1>1. NodeSlots' \subseteq S
  BY DEF NodeSlots
<1>2. DiskSlots' \subseteq S
  BY DEF DiskSlots
<1>3. \A m \in Requests' : ReqSlots(m) \subseteq S
  BY DEF Requests
<1>4. WireSlots' \subseteq S
  BY <1>3 DEF WireSlots
<1> QED BY <1>1, <1>2, <1>4 DEF Slots

-----------------------------------------------------------------------------
(* Inputs *)

(* A slice of a log in which terms are started, grow and do not pass that   *)
(* of the leader is a request the decoder accepts.                          *)
LEMMA SliceDecodes ==
  ASSUME NEW m \in Message, m.type = "append_req", NEW log \in Seq(Entry), SliceOf(m, log),
         Len(m.entries) <= MaxAppend, m.term # 0,
         \A k \in 1 .. Len(log) : /\ log[k].term # 0 /\ log[k].term <= m.term
                                  /\ TermAt(log, k - 1) <= log[k].term
  PROVE  Decodes(m)
<1> DEFINE p == m.prev_log_index
<1>1. m.entries \in Seq(Entry) /\ p \in Nat /\ Len(m.entries) \in Nat /\ Len(log) \in Nat
      /\ m.term \in Term /\ m.prev_log_term \in Term
  BY SMTT(30) DEF Message
<1>2. m.term <= MaxTerm /\ m.term \in Nat
  BY SMTT(30), <1>1, MaxTermAssumption DEF Term
<1>3. /\ p + Len(m.entries) <= Len(log) /\ m.prev_log_term = TermAt(log, p)
      /\ \A k \in 1 .. Len(m.entries) : m.entries[k] = log[p + k]
  BY DEF SliceOf
<1> HIDE DEF p
<1>4. m.prev_log_term <= m.term /\ (p = 0 <=> m.prev_log_term = 0)
  <2>1. CASE p = 0
    BY SMTT(30), <1>2, <1>3, <2>1 DEF TermAt
  <2>2. CASE p # 0
    <3>1. p \in 1 .. Len(log)
      BY SMTT(30), <1>1, <1>3, <2>2
    <3> QED BY <1>3, <2>2, <3>1 DEF TermAt
  <2> QED BY <2>1, <2>2
<1>5. ASSUME NEW k \in 1 .. Len(m.entries)
      PROVE  /\ m.entries[k].term # 0 /\ m.entries[k].term <= m.term
             /\ m.entries[k].term >= IF k = 1 THEN m.prev_log_term ELSE m.entries[k - 1].term
  <2>1. p + k \in 1 .. Len(log) /\ m.entries[k] = log[p + k]
    BY SMTT(30), <1>1, <1>3
  <2>2. /\ m.entries[k].term # 0 /\ m.entries[k].term <= m.term
        /\ TermAt(log, (p + k) - 1) <= m.entries[k].term
    BY <2>1
  <2>3. (IF k = 1 THEN m.prev_log_term ELSE m.entries[k - 1].term) = TermAt(log, (p + k) - 1)
    <3>1. CASE k = 1
      <4>1. (p + k) - 1 = p
        BY SMTT(30), <1>1, <3>1
      <4> QED BY <1>3, <3>1, <4>1
    <3>2. CASE k # 1
      <4>1. k - 1 \in 1 .. Len(m.entries) /\ p + (k - 1) = (p + k) - 1 /\ (p + k) - 1 # 0
        BY SMTT(30), <1>1, <3>2
      <4>2. m.entries[k - 1] = log[(p + k) - 1]
        BY <1>3, <4>1
      <4> QED BY <3>2, <4>1, <4>2 DEF TermAt
    <3> QED BY <3>1, <3>2
  <2>4. m.entries[k].term \in Nat /\ TermAt(log, (p + k) - 1) \in Nat
    <3>1. m.entries[k].term \in Nat
      BY SMTT(30), <1>1, EntryType DEF Term
    <3>2. (p + k) - 1 = 0 \/ (p + k) - 1 \in 1 .. Len(log)
      BY SMTT(30), <1>1, <2>1
    <3>3. (p + k) - 1 \in 1 .. Len(log) => log[(p + k) - 1].term \in Nat
      BY SMTT(30), EntryType DEF Term
    <3> QED BY <3>1, <3>2, <3>3 DEF TermAt
  <2>5. m.entries[k].term >= TermAt(log, (p + k) - 1)
    BY <2>2, <2>4
  <2> QED BY <2>2, <2>3, <2>5
<1> QED BY <1>2, <1>4, <1>5 DEF Decodes, p

(* What a node says of itself passes the decoder.                           *)
LEMMA SaysDecodes ==
  (TypeInv /\ ElectionInv /\ DiskInv /\ RoleInv /\ SlotInv) =>
     \A i \in Server : \A m \in Message : Says(i, node[i], m) => Decodes(m)
<1> SUFFICES ASSUME TypeInv, ElectionInv, DiskInv, RoleInv, SlotInv,
                    NEW i \in Server, NEW m \in Message, Says(i, node[i], m)
             PROVE  Decodes(m)
  OBVIOUS
<1> DEFINE n == node[i]
<1>1. n.log \in Seq(Entry) /\ Len(n.log) \in Nat /\ n.term \in Term
  BY LogTyped DEF LogTypes
<1>2. m.term = n.term /\ m.term <= MaxTerm
  BY SMTT(30), <1>1, MaxTermAssumption DEF Says, Term
<1>3. CASE m.type = "vote_req"
  <2>1. m.last_log_term \in Term
    BY <1>3 DEF Message
  <2> QED BY SMTT(30), <1>2, <1>3, <2>1, MaxTermAssumption DEF Says, Decodes, Term
<1>4. CASE m.type = "append_req"
  <2>1. n.role = "leader" /\ SliceOf(m, n.log) /\ Len(m.entries) <= MaxAppend
    BY <1>4 DEF Says
  <2>2. m.term # 0
    BY <1>1, <1>2, <2>1 DEF ElectionInv, LeaderInv, RoleInv
  <2>3. ASSUME NEW k \in 1 .. Len(n.log)
        PROVE  n.log[k].term # 0 /\ n.log[k].term <= m.term /\ TermAt(n.log, k - 1) <= n.log[k].term
    <3>1. SlotOf(n.log, k) \in Slots
      BY SlotsOf DEF LogSlots
    <3>2. /\ SlotOf(n.log, k).entry.term # 0
          /\ SlotOf(n.log, k).prev <= SlotOf(n.log, k).entry.term
      BY <3>1 DEF SlotInv
    <3>3. n.log[k].term <= m.term
      BY <1>2 DEF DiskInv, Aged
    <3> QED BY SMTT(30), <3>2, <3>3, SlotFields
  <2> QED BY <1>1, <1>4, <2>1, <2>2, <2>3, SliceDecodes
<1>5. CASE m.type \notin {"vote_req", "append_req"}
  BY <1>2, <1>5 DEF Decodes
<1> QED BY <1>3, <1>4, <1>5

(* What the log step of an input is about.                                  *)
LEMMA TakesNodes ==
  ASSUME Safe, NEW i \in Server, NEW r, Takes(i, r)
  PROVE  /\ node'[i] = r /\ \A j \in Server : j # i => node'[j] = node[j]
         /\ \A j \in Server, t \in Term :
              <<t, j>> \in leaders' <=>
                (<<t, j>> \in leaders \/ (j = i /\ t = r.term /\ r.role = "leader"))
         /\ leaders \subseteq leaders'
         /\ r.term \in Term /\ r.term \in Nat /\ r.log \in Seq(Entry) /\ Len(r.log) \in Nat
         /\ r.stable \in Nat /\ r.stable <= Len(r.log) /\ r.msgs \in SUBSET Message
         /\ r.match \in [Server -> Nat] /\ Bounded(r)
         /\ node[i].term <= r.term
<1>1. Bounded(r) /\ Update(i, r) /\ VoteStep(i, node[i], r)
  BY DEF Takes, NodeOK
<1>2. node \in [Server -> NodeType] /\ Term \subseteq Nat /\ node[i].term \in Nat
  BY ClusterTypes DEF Safe
<1>3. /\ r.term \in Term /\ r.log \in Seq(Entry) /\ Len(r.log) \in Nat
      /\ r.stable \in Nat /\ r.stable <= Len(r.log) /\ r.msgs \in SUBSET Message
      /\ r.match \in [Server -> Nat]
  BY <1>1, NodeTypes DEF LastIndex
<1>4. node' = [node EXCEPT ![i] = r]
  BY <1>1 DEF Update
<1>5. leaders' = leaders \union (IF r.role = "leader" THEN {<<r.term, i>>} ELSE {})
  BY <1>1 DEF Update
<1>6. node'[i] = r /\ \A j \in Server : j # i => node'[j] = node[j]
  BY <1>2, <1>4
<1>7. \A j \in Server, t \in Term :
         <<t, j>> \in leaders' <=>
            (<<t, j>> \in leaders \/ (j = i /\ t = r.term /\ r.role = "leader"))
  BY <1>5
<1>8. node[i].term <= r.term
  BY <1>1, <1>2, <1>3 DEF VoteStep
<1> QED BY <1>1, <1>2, <1>3, <1>5, <1>6, <1>7, <1>8

(* What an input queues: everything else in the mail was there before.      *)
LEMMA TakesMail ==
  ASSUME Safe, NEW i \in Server, NEW r, Takes(i, r)
  PROVE  /\ \A m \in Mail' : m \in Mail \/ m \in r.msgs \ node[i].msgs
         /\ \A w \in Server : \A m \in node'[w].msgs :
              m \in node[w].msgs \/ (w = i /\ m \in r.msgs \ node[i].msgs)
<1>1. node'[i] = r /\ \A j \in Server : j # i => node'[j] = node[j]
  BY TakesNodes
<1>2. net' \subseteq net
  BY DEF Takes
<1>3. \A w \in Server : \A m \in node'[w].msgs :
         m \in node[w].msgs \/ (w = i /\ m \in r.msgs \ node[i].msgs)
  BY <1>1
<1>4. ASSUME NEW m \in Mail' PROVE m \in Mail \/ m \in r.msgs \ node[i].msgs
  <2>1. m \in net' \/ \E w \in Server : m \in node'[w].msgs
    BY <1>4 DEF Mail
  <2> QED BY <1>2, <1>3, <2>1 DEF Mail
<1> QED BY <1>3, <1>4

(* A new leader's term is new: no slot is of it, and no message is to or    *)
(* from a leader of it.                                                     *)
Fresh(i, t) ==
  /\ t # 0
  /\ \A a \in Slots : a.entry.term # t
  /\ \A m \in Mail : /\ (m.type = "append_req" /\ m.from = i) => m.term # t
                     /\ (IsAck(m) /\ m.to = i) => m.term # t
  /\ Server = {i} \/ t <= disk[i].term

(* Who becomes leader does so in a new term.                                *)
LEMMA NewLeaderIsFresh ==
  ASSUME Safe, ElectionInv', NEW i \in Server, NEW r, Takes(i, r),
         r.role = "leader", ~(node[i].role = "leader" /\ node[i].term = r.term)
  PROVE  Fresh(i, r.term)
<1> DEFINE n == node[i]
<1>1. /\ r.term \in Term /\ r.term \in Nat /\ n.term <= r.term /\ <<r.term, i>> \in leaders'
      /\ leaders \subseteq leaders'
  BY TakesNodes
<1>2. n.term \in Nat /\ disk[i].term \in Nat /\ disk[i].term <= n.term /\ Mail \in SUBSET Message
  <2>1. n.term \in Nat /\ disk[i].term \in Nat /\ Mail \in SUBSET Message
    BY LogTyped DEF Safe, LogTypes
  <2>2. Follows(disk[i], n)
    BY DEF Safe, ElectionInv, DiskBehind
  <2> QED BY SMTT(30), <2>1, <2>2 DEF Follows
<1>3. (n.role = "candidate" /\ r.term = n.term) \/ n.term < r.term
  <2>1. Rests(i, n, r) \/ Grows(i, n, r) \/ Learns(i, n, r) \/ \E q \in net : Receives(i, n, r, q)
    BY DEF Takes, LogStep
  <2> QED BY <2>1 DEF Rests, Grows, Learns, Receives
<1>4. r.term # 0
  BY SMTT(30), <1>1, <1>2, <1>3 DEF Safe, LogInv, RoleInv
<1>5. \A m \in Mail : m.from \in Server /\ m.to \in Server /\ m.term \in Term /\ m.from # m.to
  <2>1. \A m \in Message : m.from \in Server /\ m.to \in Server /\ m.term \in Term
    BY ClusterTypes DEF Safe
  <2> QED BY <1>2, <2>1 DEF Safe, LogInv, MailInv
<1>6. CASE Server = {i}
  <2>1. n.term < r.term
    BY <1>3, <1>6 DEF Safe, LogInv, RoleInv
  <2>2. Mail = {}
    BY <1>5, <1>6
  <2>3. ASSUME NEW j \in Server, NEW log \in {node[j].log, disk[j].log}, NEW a \in LogSlots(log)
        PROVE  a.entry.term # r.term
    <3>1. j = i
      BY <1>6
    <3>2. PICK k \in 1 .. Len(log) : a.entry = log[k]
      BY SMTT(30), <2>3 DEF LogSlots, SlotOf
    <3>3. Aged(n) /\ Aged(disk[i])
      BY DEF Safe, LogInv, DiskInv
    <3>4. log[k].term <= n.term \/ log[k].term <= disk[i].term
      BY <3>1, <3>3 DEF Aged
    <3>5. log \in Seq(Entry)
      BY LogTyped DEF Safe, LogTypes
    <3>6. log[k].term \in Nat
      BY <3>5, EntryType, ClusterTypes DEF Safe
    <3>7. log[k].term # r.term
      BY SMTT(30), <1>1, <1>2, <2>1, <3>4, <3>6
    <3> QED BY <3>2, <3>7
  <2> DEFINE S == { a \in Slots : a.entry.term # r.term }
  <2>4. Slots \subseteq S
    <3>1. \A j \in Server : LogSlots(node[j].log) \subseteq S /\ LogSlots(disk[j].log) \subseteq S
      BY <2>3, SlotsOf
    <3>2. \A m \in Mail : m.type = "append_req" => ReqSlots(m) \subseteq S
      BY <2>2
    <3> HIDE DEF S
    <3> QED BY <3>1, <3>2, SlotsFrom
  <2> QED BY <1>4, <1>6, <2>2, <2>4 DEF Fresh
<1>7. CASE Server # {i}
  <2>1. <<r.term, i>> \notin leaders
    <3>1. CASE n.role = "candidate" /\ r.term = n.term
      BY <3>1 DEF Safe, LogInv, RoleInv
    <3>2. CASE n.term < r.term
      <4>1. ~(r.term <= disk[i].term)
        BY SMTT(30), <1>1, <1>2, <3>2
      <4> QED BY <1>1, <1>7, <4>1 DEF Safe, LogInv, RoleInv
    <3> QED BY <1>3, <3>1, <3>2
  <2>2. \A x \in Server : <<r.term, x>> \notin leaders
    <3>1. \A a, b \in leaders' : a[1] = b[1] => a[2] = b[2]
      BY DEF ElectionInv, ElectionSafety
    <3> SUFFICES ASSUME NEW x \in Server, <<r.term, x>> \in leaders PROVE FALSE
      OBVIOUS
    <3>2. <<r.term, x>>[1] = <<r.term, i>>[1] /\ <<r.term, x>>[2] = x /\ <<r.term, i>>[2] = i
      OBVIOUS
    <3>3. x = i
      BY <1>1, <3>1, <3>2
    <3> QED BY <2>1, <3>3
  <2>3. \A a \in Slots : a.entry.term # r.term
    BY <2>2 DEF Safe, LogInv, SlotInv
  <2>4. \A m \in Mail : /\ (m.type = "append_req" /\ m.from = i) => m.term # r.term
                        /\ (IsAck(m) /\ m.to = i) => m.term # r.term
    BY <2>1 DEF Safe, LogInv, MailInv
  <2>5. r.term <= disk[i].term
    <3>1. VoteStep(i, n, r)
      BY DEF Takes
    <3>2. r.votes \in SUBSET Server
      BY TakesNodes, NodeTypes
    <3>3. HasMajority(Server, r.votes)
      <4>1. Cardinality(r.votes) >= Needed(Server)
        BY <3>1 DEF VoteStep
      <4>2. Server \cap r.votes = r.votes
        BY <3>2
      <4> QED BY <4>1, <4>2 DEF HasMajority
    <3>4. PICK w \in r.votes : w # i
      BY <1>7, <3>2, <3>3 DEF Safe, Majorities
    <3>5. Voted(w, r.term, i)
      <4>1. /\ n.role # "follower" /\ r.term = n.term
            /\ \A x \in r.votes \ n.votes : \E q \in net : IsGrant(q, x, r.term, i)
        BY <3>1, <3>4 DEF VoteStep
      <4> QED BY <3>4, <4>1 DEF Voted, Counted
    <3>6. Reached(disk[i], r.term, i)
      BY <1>1, <3>2, <3>4, <3>5 DEF Safe, ElectionInv, VoteInv
    <3> QED BY SMTT(30), <1>1, <1>2, <3>6 DEF Reached
  <2> QED BY <1>4, <2>3, <2>4, <2>5 DEF Fresh
<1> QED BY <1>6, <1>7

(* One leader to a term.                                                    *)
LEMMA OneLeader ==
  ElectionInv => \A t, i, j : (<<t, i>> \in leaders /\ <<t, j>> \in leaders) => i = j
<1> SUFFICES ASSUME ElectionInv, NEW t, NEW i, NEW j, <<t, i>> \in leaders, <<t, j>> \in leaders
             PROVE  i = j
  OBVIOUS
<1>1. \A a, b \in leaders : a[1] = b[1] => a[2] = b[2]
  BY DEF ElectionInv, ElectionSafety
<1>2. <<t, i>>[1] = <<t, j>>[1] /\ <<t, i>>[2] = i /\ <<t, j>>[2] = j
  OBVIOUS
<1> QED BY <1>1, <1>2

(* One leader to a term after a step.                                       *)
LEMMA OneLeaderNext ==
  ElectionInv' => \A t, i, j : (<<t, i>> \in leaders' /\ <<t, j>> \in leaders') => i = j
<1>1. ElectionInv' => (\A t, i, j : (<<t, i>> \in leaders /\ <<t, j>> \in leaders) => i = j)'
  BY OneLeader, PTL
<1> QED BY <1>1

(* A leader that goes on leading keeps its term and what it has.            *)
LEMMA LeaderKeeps ==
  ASSUME Safe, NEW i \in Server, NEW r, Takes(i, r), node[i].role = "leader", r.role = "leader"
  PROVE  r.term = node[i].term /\ Prefix(node[i].log, r.log)
<1> DEFINE n == node[i]
<1>1. Rests(i, n, r) \/ Grows(i, n, r) \/ Learns(i, n, r) \/ \E q \in net : Receives(i, n, r, q)
  BY DEF Takes, LogStep
<1>2. Len(n.log) \in Nat
  BY LogTyped DEF Safe, LogTypes
<1>3. CASE Rests(i, n, r) \/ Learns(i, n, r)
  BY SMTT(30), <1>2, <1>3 DEF Rests, Learns, Prefix
<1>4. CASE Grows(i, n, r)
  BY SMTT(30), <1>2, <1>4 DEF Grows, Prefix
<1> QED BY <1>1, <1>3, <1>4 DEF Receives

(* A request of the term of a leader is a slice of its log.                 *)
LEMMA RequestOfLeader ==
  ASSUME Safe, NEW l \in Server, node[l].role = "leader",
         NEW q \in Mail, q.type = "append_req", q.term = node[l].term
  PROVE  q.from = l /\ SliceOf(q, node[l].log)
<1>1. /\ <<q.term, q.from>> \in leaders
      /\ (node[q.from].role = "leader" /\ node[q.from].term = q.term) => SliceOf(q, node[q.from].log)
  BY DEF Safe, LogInv, MailInv
<1>2. <<node[l].term, l>> \in leaders
  BY DEF Safe, ElectionInv, LeaderInv
<1>3. q.from = l
  BY <1>1, <1>2, OneLeader DEF Safe
<1> QED BY <1>1, <1>3

(* Who leads after an input led before, or is fresh.                        *)
LEMMA TakesLeaders ==
  ASSUME Safe, ElectionInv', NEW i \in Server, NEW r, Takes(i, r),
         NEW l \in Server, node'[l].role = "leader"
  PROVE  \/ /\ node[l].role = "leader" /\ node'[l].term = node[l].term
            /\ Prefix(node[l].log, node'[l].log)
         \/ /\ l = i /\ Fresh(i, r.term)
            /\ r.match = [s \in Server |-> IF s = i THEN r.stable ELSE 0]
<1> DEFINE n == node[i]
<1>1. node'[i] = r /\ \A j \in Server : j # i => node'[j] = node[j]
  BY TakesNodes
<1>2. CASE l # i
  <2>1. Prefix(node[l].log, node[l].log)
    <3>1. Len(node[l].log) \in Nat
      BY LogTyped DEF Safe, LogTypes
    <3> QED BY SMTT(30), <3>1 DEF Prefix
  <2> QED BY <1>1, <1>2, <2>1
<1>3. CASE l = i /\ n.role = "leader"
  BY <1>1, <1>3, LeaderKeeps
<1>4. CASE l = i /\ n.role # "leader"
  <2>1. Fresh(i, r.term)
    BY <1>1, <1>4, NewLeaderIsFresh
  <2>2. Rests(i, n, r) \/ Grows(i, n, r) \/ Learns(i, n, r) \/ \E q \in net : Receives(i, n, r, q)
    BY DEF Takes, LogStep
  <2>3. Grows(i, n, r)
    BY <1>1, <1>4, <2>2 DEF Rests, Learns, Receives
  <2>4. r.match = [s \in Server |-> IF s = i THEN r.stable ELSE 0]
    BY <1>4, <2>3 DEF Grows
  <2> QED BY <1>4, <2>1, <2>4
<1> QED BY <1>2, <1>3, <1>4

-----------------------------------------------------------------------------
(* Draining and crashing *)

(* Copying keeps what the invariant says of roles and slots.                *)
LEMMA CopiesInv ==
  ASSUME Safe, TypeInv', NEW i \in Server, Copies(i)
  PROVE  RoleInv' /\ SlotInv' /\ OwnInv'
<1>1. \A j \in Server : disk[j].term \in Nat /\ disk'[j].term \in Nat
  BY LogTyped, LogTypedNext DEF Safe, LogTypes
<1>2. /\ leaders' = leaders /\ Slots' \subseteq Slots
      /\ \A j \in Server : disk[j].term <= disk'[j].term
      /\ \A j \in Server : node'[j].role # "follower" =>
            /\ node'[j].role = node[j].role /\ node'[j].term = node[j].term
            /\ node'[j].log = node[j].log
  <2>1. \A j \in Server : disk[j].term <= disk[j].term
    BY SMTT(30), <1>1
  <2> QED BY <2>1 DEF Copies
<1>3. RoleInv'
  <2>1. ASSUME NEW j \in Server, node'[j].role = "candidate"
        PROVE  node'[j].term # 0 /\ Server # {j} /\ <<node'[j].term, j>> \notin leaders'
    BY <1>2, <2>1 DEF Safe, LogInv, RoleInv
  <2>2. ASSUME NEW j \in Server, NEW t \in Term, <<t, j>> \in leaders'
        PROVE  t # 0 /\ (Server = {j} \/ t <= disk'[j].term)
    <3>1. t # 0 /\ (Server = {j} \/ t <= disk[j].term)
      BY <1>2, <2>2 DEF Safe, LogInv, RoleInv
    <3>2. t \in Nat /\ disk[j].term <= disk'[j].term
      BY <1>2, ClusterTypes DEF Safe
    <3> QED BY SMTT(30), <1>1, <3>1, <3>2
  <2> QED BY <2>1, <2>2 DEF RoleInv
<1>4. SlotInv'
  <2>1. SlotsAgree(Slots')
    BY <1>2 DEF Safe, LogInv, SlotInv, SlotsAgree
  <2> QED BY <1>2, <2>1 DEF Safe, LogInv, SlotInv
<1>5. OwnInv'
  BY <1>2 DEF Safe, LogInv, OwnInv
<1> QED BY <1>3, <1>4, <1>5

(* Draining only copies.                                                    *)
LEMMA DrainCopies ==
  ASSUME Safe, TypeInv', NEW i \in Server, NEW r, Drained(i, r)
  PROVE  Copies(i) /\ Mail' \subseteq Mail \union { m \in Message : m.type = "append_req" /\ Says(i, node[i], m) }
<1> DEFINE new == { m \in Message : m.type = "append_req" /\ Says(i, node[i], m) }
<1>1. \A j \in Server : j # i => node'[j] = node[j] /\ disk'[j] = disk[j]
  BY DEF Drained
<1>2. /\ node'[i] = r /\ leaders' = leaders /\ r.msgs = {}
      /\ r.term = node[i].term /\ r.role = node[i].role /\ r.log = node[i].log
      /\ disk'[i].log = node[i].log /\ disk'[i].term = node[i].term
  BY DEF Drained
<1>3. Mail' \subseteq Mail \union new
  <2>1. ASSUME NEW m \in net' PROVE m \in Mail \union new
    <3>1. m \in net \/ m \in node[i].msgs \/ m \in new
      BY <2>1 DEF Drained
    <3> QED BY <3>1, SlotsOf
  <2>2. ASSUME NEW w \in Server, NEW m \in node'[w].msgs PROVE m \in Mail
    <3>1. m \in node[w].msgs
      BY <1>1, <1>2, <2>2
    <3> QED BY <3>1, SlotsOf
  <2> HIDE DEF new
  <2> QED BY <2>1, <2>2 DEF Mail
<1>4. node[i].log \in Seq(Entry)
  BY LogTyped DEF Safe, LogTypes
<1>5. Slots' \subseteq Slots
  <2>1. \A j \in Server : LogSlots(node'[j].log) \subseteq Slots /\ LogSlots(disk'[j].log) \subseteq Slots
    BY <1>1, <1>2, SlotsOf
  <2>2. ASSUME NEW m \in Mail', m.type = "append_req" PROVE ReqSlots(m) \subseteq Slots
    <3>1. CASE m \in Mail
      BY <2>2, <3>1, SlotsOf
    <3>2. CASE m \in new
      <4>1. m \in Message /\ SliceOf(m, node[i].log)
        BY <3>2 DEF Says
      <4>2. ReqSlots(m) \subseteq LogSlots(node[i].log)
        BY <1>4, <2>2, <4>1, SliceSlots
      <4> QED BY <4>2, SlotsOf
    <3> QED BY <1>3, <3>1, <3>2
  <2> DEFINE S == Slots
  <2>3. /\ \A j \in Server : LogSlots(node'[j].log) \subseteq S /\ LogSlots(disk'[j].log) \subseteq S
        /\ \A m \in Mail' : m.type = "append_req" => ReqSlots(m) \subseteq S
    BY <2>1, <2>2
  <2> HIDE DEF S
  <2>4. Slots' \subseteq S
    BY <2>3, SlotsFromNext
  <2> QED BY <2>4 DEF S
<1>6. disk[i].term <= disk'[i].term
  <2>1. disk[i].term \in Nat /\ node[i].term \in Nat
    BY LogTyped DEF Safe, LogTypes
  <2>2. Follows(disk[i], node[i])
    BY DEF Safe, ElectionInv, DiskBehind
  <2> QED BY SMTT(30), <1>2, <2>1, <2>2 DEF Follows
<1> HIDE DEF new
<1>7. Copies(i)
  BY <1>1, <1>2, <1>5, <1>6 DEF Copies
<1> QED BY <1>3, <1>7 DEF new

(* Draining keeps the other parts of the invariant as well: an answer gets  *)
(* into the network only with the entries it confirms on disk.              *)
LEMMA DrainLogInv ==
  ASSUME Safe, TypeInv', ElectionInv', NEW i \in Server, NEW r, Drained(i, r)
  PROVE  LogInv'
<1> DEFINE n == node[i]
<1>1. /\ \A j \in Server : j # i => node'[j] = node[j] /\ disk'[j] = disk[j]
      /\ node'[i] = r /\ leaders' = leaders /\ r.msgs = {}
      /\ r.term = n.term /\ r.role = n.role /\ r.log = n.log
      /\ r.stable = Len(n.log) /\ r.truncated = None /\ r.leader = n.leader
      /\ disk'[i].log = n.log /\ disk'[i].term = n.term
  BY DEF Drained
<1>2. \A j \in Server :
        /\ node[j].log \in Seq(Entry) /\ Len(node[j].log) \in Nat
        /\ node[j].term \in Nat /\ disk[j].term \in Nat
        /\ node[j].stable \in Nat /\ node[j].match \in [Server -> Nat]
        /\ node[j].msgs \in SUBSET Message
  BY LogTyped DEF Safe, LogTypes
<1>3. RoleInv' /\ SlotInv' /\ OwnInv'
  BY DrainCopies, CopiesInv
<1>4. DiskInv'
  <2>1. Aged(r) /\ Aged(disk'[i])
    <3>1. Aged(n)
      BY DEF Safe, LogInv, DiskInv
    <3> QED BY <1>1, <3>1 DEF Aged
  <2>2. Mirrors(disk'[i], r)
    BY <1>1 DEF Mirrors
  <2> HIDE DEF n
  <2>3. \A j \in Server : j # i => Mirrors(disk'[j], node'[j]) /\ Aged(node'[j]) /\ Aged(disk'[j])
    BY <1>1 DEF Safe, LogInv, DiskInv
  <2> QED BY <1>1, <2>1, <2>2, <2>3 DEF DiskInv
<1>5. ClaimInv'
  <2>1. /\ r.bcast_pending => r.role = "leader"
        /\ r.malformed_dropped = n.malformed_dropped
    BY DEF Drained
  <2> QED BY SMTT(30), <1>1, <2>1 DEF Safe, LogInv, ClaimInv
<1>6. MailInv'
  <2> SUFFICES ASSUME NEW m \in Mail'
               PROVE  /\ Decodes(m) /\ m.from # m.to
                      /\ m.type = "append_req" =>
                           /\ <<m.term, m.from>> \in leaders
                           /\ (node'[m.from].role = "leader" /\ node'[m.from].term = m.term)
                                => SliceOf(m, node'[m.from].log)
                      /\ IsAck(m) => <<m.term, m.to>> \in leaders
    BY <1>1 DEF MailInv
  <2>1. /\ m.from \in Server
        /\ m \in Mail \/ (m \in Message /\ m.type = "append_req" /\ Says(i, n, m))
    <3>1. m \in Mail \/ (m \in Message /\ m.type = "append_req" /\ Says(i, n, m))
      BY DrainCopies
    <3>2. Mail \in SUBSET Message
      BY LogTyped DEF Safe
    <3> QED BY <3>1, <3>2, ClusterTypes DEF Safe
  <2>2. /\ node'[m.from].role = node[m.from].role /\ node'[m.from].term = node[m.from].term
        /\ node'[m.from].log = node[m.from].log
    BY <1>1, <2>1
  <2>3. CASE m \in Mail
    BY <2>2, <2>3 DEF Safe, LogInv, MailInv
  <2>4. CASE m \in Message /\ m.type = "append_req" /\ Says(i, n, m)
    <3>1. m.from = i /\ m.to # i /\ m.term = n.term /\ n.role = "leader" /\ SliceOf(m, n.log)
      BY <2>4 DEF Says
    <3>2. Decodes(m)
      BY <2>4, SaysDecodes DEF Safe, LogInv
    <3>3. <<n.term, i>> \in leaders
      BY <3>1 DEF Safe, ElectionInv, LeaderInv
    <3>4. ~IsAck(m)
      BY <2>4 DEF IsAck
    <3> QED BY <2>2, <3>1, <3>2, <3>3, <3>4
  <2> QED BY <2>1, <2>3, <2>4
<1>7. AckInv'
  <2>1. \A j \in Server : node'[j].role = node[j].role /\ node'[j].term = node[j].term
                          /\ node'[j].log = node[j].log
    BY <1>1
  <2>2. \A m, l : l \in Server => (AckFor(m, l)' <=> AckFor(m, l))
    BY <2>1 DEF AckFor
  <2>3. \A w \in Server : disk[w].term <= node[w].term
    <3>1. \A w \in Server : Follows(disk[w], node[w])
      BY DEF Safe, ElectionInv, DiskBehind
    <3> QED BY SMTT(30), <1>2, <3>1 DEF Follows
  <2>4. ASSUME NEW l \in Server, NEW w \in Server, NEW v \in Nat, Confirmed(l, w, v)
        PROVE  Confirmed(l, w, v)'
    <3>1. CASE w # i
      BY <1>1, <2>1, <2>4, <3>1 DEF Confirmed
    <3>2. CASE w = i /\ v # 0
      <4>1. /\ v <= Len(node[l].log) /\ disk[w].term >= node[l].term
            /\ n.term = node[l].term => Agrees(n.log, node[l].log, v)
        BY <2>4, <3>2 DEF Confirmed
      <4>2. n.term >= node[l].term
        BY SMTT(30), <1>2, <2>3, <3>2, <4>1
      <4>3. n.term = node[l].term => v <= Len(n.log)
        BY <4>1 DEF Agrees
      <4> HIDE DEF n
      <4> QED BY <1>1, <2>1, <3>2, <4>1, <4>2, <4>3 DEF Confirmed
    <3>3. CASE v = 0
      BY <3>3 DEF Confirmed
    <3> QED BY <3>1, <3>2, <3>3
  <2>5. ASSUME NEW l \in Server, NEW v \in Nat, Queued(l, i, v) PROVE Confirmed(l, i, v)'
    <3>1. /\ v <= Len(node[l].log) /\ n.term >= node[l].term
          /\ n.term = node[l].term => Agrees(n.log, node[l].log, v)
      BY <2>5 DEF Queued
    <3>2. n.term = node[l].term => v <= Len(n.log)
      BY <3>1 DEF Agrees
    <3> HIDE DEF n
    <3> QED BY <1>1, <2>1, <3>1, <3>2 DEF Confirmed
  <2> SUFFICES ASSUME NEW l \in Server, node[l].role = "leader"
               PROVE  /\ node'[l].match[l] <= node'[l].stable
                      /\ \A w \in Peers(l) : Confirmed(l, w, node[l].match[w])'
                      /\ \A m \in net' : AckFor(m, l)' => Confirmed(l, m.from, m.index)'
                      /\ \A w \in Server : \A m \in node'[w].msgs :
                            AckFor(m, l)' => Queued(l, w, m.index)'
    BY <2>1 DEF AckInv
  <2>6. /\ node[l].match[l] <= node[l].stable
        /\ \A w \in Peers(l) : Confirmed(l, w, node[l].match[w])
        /\ \A m \in net : AckFor(m, l) => Confirmed(l, m.from, m.index)
        /\ \A w \in Server : \A m \in node[w].msgs : AckFor(m, l) => Queued(l, w, m.index)
    BY DEF Safe, LogInv, AckInv
  <2>7. /\ node'[l].match[l] <= node'[l].stable
        /\ \A w \in Peers(l) : node'[l].match[w] = node[l].match[w]
    <3>1. CASE l # i
      BY <1>1, <2>6, <3>1
    <3>2. CASE l = i
      <4>1. r.match = [n.match EXCEPT ![i] = Len(n.log)]
        BY <1>1, <3>2 DEF Drained
      <4>2. r.match[i] = Len(n.log) /\ \A w \in Peers(i) : r.match[w] = n.match[w]
        BY <1>2, <4>1 DEF Peers
      <4> QED BY SMTT(30), <1>1, <1>2, <3>2, <4>2
    <3> QED BY <3>1, <3>2
  <2>8. ASSUME NEW w \in Peers(l) PROVE Confirmed(l, w, node[l].match[w])'
    <3>1. w \in Server
      BY DEF Peers
    <3> DEFINE v == node[l].match[w]
    <3>2. v \in Nat /\ Confirmed(l, w, v) /\ node'[l].match[w] = v
      BY <1>2, <2>6, <2>7, <3>1
    <3> HIDE DEF v
    <3> QED BY <2>4, <3>1, <3>2
  <2>9. ASSUME NEW m \in net', AckFor(m, l) PROVE Confirmed(l, m.from, m.index)'
    <3>1. m \in net \/ m \in n.msgs
      BY <2>9 DEF Drained, AckFor, IsAck
    <3>2. m \in Message
      BY <3>1, LogTyped DEF Safe, LogTypes
    <3>3. m.index \in Nat /\ m.from \in Server
      <4>1. m.type = "append_resp"
        BY <2>9 DEF AckFor, IsAck
      <4> QED BY <3>2, <4>1 DEF Message
    <3>4. CASE m \in net
      BY <2>4, <2>6, <2>9, <3>3, <3>4
    <3>5. CASE m \in n.msgs
      <4>1. m.from = i
        BY <3>5 DEF Safe, ElectionInv, VoteRequests
      <4>2. Queued(l, i, m.index)
        BY <2>6, <2>9, <3>5
      <4> QED BY <2>5, <3>3, <4>1, <4>2
    <3> QED BY <3>1, <3>4, <3>5
  <2>10. ASSUME NEW w \in Server, NEW m \in node'[w].msgs, AckFor(m, l) PROVE Queued(l, w, m.index)'
    <3>1. w # i
      BY <1>1, <2>10
    <3>2. Queued(l, w, m.index) /\ node'[w] = node[w]
      BY <1>1, <2>6, <2>10, <3>1
    <3> QED BY <2>1, <3>2 DEF Queued
  <2> QED BY <2>2, <2>7, <2>8, <2>9, <2>10
<1> QED BY <1>3, <1>4, <1>5, <1>6, <1>7 DEF LogInv

(* A crash only copies, too.                                                *)
LEMMA RestartCopies ==
  ASSUME Safe, TypeInv', NEW i \in Server, NEW d, NEW a, Restarted(i, d, a)
  PROVE  Copies(i) /\ Mail' \subseteq Mail
<1>1. /\ \A j \in Server : j # i => node'[j] = node[j] /\ disk'[j] = disk[j]
      /\ d \in DiskType /\ leaders' = leaders /\ net' = net
      /\ node'[i] = InitNode(d, a) /\ disk'[i] = d
      /\ Torn(disk[i], node[i], d)
  BY DEF Restarted
<1>2. node'[i].role = "follower" /\ node'[i].msgs = {} /\ node'[i].log = d.log
  BY SMTT(30), <1>1, StartsFrom
<1>3. Mail' \subseteq Mail
  <2>1. ASSUME NEW w \in Server, NEW m \in node'[w].msgs PROVE m \in Mail
    <3>1. m \in node[w].msgs
      BY <1>1, <1>2, <2>1
    <3> QED BY <3>1, SlotsOf
  <2> QED BY SMTT(30), <1>1, <2>1, SlotsOf DEF Mail
<1>4. /\ node[i].log \in Seq(Entry) /\ disk[i].log \in Seq(Entry) /\ d.log \in Seq(Entry)
      /\ node[i].term \in Nat /\ disk[i].term \in Nat /\ d.term \in Nat
  BY <1>1, LogTyped, ClusterTypes DEF Safe, LogTypes, DiskType
<1>5. LogSlots(d.log) \subseteq Slots
  <2>1. d.log = disk[i].log \/ Prefix(d.log, disk[i].log) \/ Prefix(d.log, node[i].log)
    BY <1>1 DEF Torn
  <2>2. LogSlots(d.log) \subseteq LogSlots(disk[i].log) \/ LogSlots(d.log) \subseteq LogSlots(node[i].log)
    BY <1>4, <2>1, PrefixSlots
  <2> QED BY <2>2, SlotsOf
<1>6. Slots' \subseteq Slots
  <2> DEFINE S == Slots
  <2>1. /\ \A j \in Server : LogSlots(node'[j].log) \subseteq S /\ LogSlots(disk'[j].log) \subseteq S
        /\ \A m \in Mail' : m.type = "append_req" => ReqSlots(m) \subseteq S
    BY <1>1, <1>2, <1>3, <1>5, SlotsOf
  <2> HIDE DEF S
  <2>2. Slots' \subseteq S
    BY <2>1, SlotsFromNext
  <2> QED BY <2>2 DEF S
<1>7. disk[i].term <= disk'[i].term
  <2>1. Follows(disk[i], node[i])
    BY DEF Safe, ElectionInv, DiskBehind
  <2>2. d.term = disk[i].term \/ d.term = node[i].term
    BY <1>1 DEF Torn
  <2> QED BY SMTT(30), <1>1, <1>4, <2>1, <2>2 DEF Follows
<1> QED BY <1>1, <1>2, <1>3, <1>6, <1>7 DEF Copies

(* A crash preserves the invariant: what the server acknowledged was on its *)
(* disk, below everything the interrupted batch was writing.                *)
LEMMA RestartLogInv ==
  ASSUME Safe, TypeInv', ElectionInv', NEW i \in Server, NEW d, NEW a, Restarted(i, d, a)
  PROVE  LogInv'
<1>1. /\ \A j \in Server : j # i => node'[j] = node[j] /\ disk'[j] = disk[j]
      /\ d \in DiskType /\ leaders' = leaders /\ net' = net
      /\ node'[i] = InitNode(d, a) /\ disk'[i] = d
      /\ Torn(disk[i], node[i], d) /\ ValidRestore(d, a)
  BY DEF Restarted
<1>2. /\ node'[i].role = "follower" /\ node'[i].msgs = {} /\ node'[i].log = d.log
      /\ node'[i].term = d.term /\ node'[i].stable = Len(d.log) /\ node'[i].truncated = None
      /\ node'[i].leader = None /\ ~node'[i].bcast_pending /\ node'[i].malformed_dropped = 0
  BY SMTT(30), <1>1, StartsFrom
<1>3. /\ d.log \in Seq(Entry) /\ Len(d.log) \in Nat /\ d.term \in Nat
      /\ \A j \in Server : /\ node[j].term \in Nat /\ disk[j].term \in Nat
                           /\ node[j].stable \in Nat /\ node[j].match \in [Server -> Nat]
                           /\ Len(node[j].log) \in Nat
  BY <1>1, LogTyped, LogTypedNext DEF Safe, LogTypes
<1>4. RoleInv' /\ SlotInv' /\ OwnInv'
  BY RestartCopies, CopiesInv
<1>5. DiskInv'
  <2>1. Aged(d)
    BY <1>1 DEF ValidRestore, Aged
  <2>2. Aged(node'[i])
    BY <1>2, <2>1 DEF Aged
  <2>3. Mirrors(d, node'[i])
    BY <1>2 DEF Mirrors
  <2>4. \A j \in Server : j # i => Mirrors(disk'[j], node'[j]) /\ Aged(node'[j]) /\ Aged(disk'[j])
    BY <1>1 DEF Safe, LogInv, DiskInv
  <2> QED BY <1>1, <2>1, <2>2, <2>3, <2>4 DEF DiskInv
<1>6. ClaimInv'
  BY SMTT(30), <1>1, <1>2 DEF Safe, LogInv, ClaimInv
<1>7. MailInv'
  <2> SUFFICES ASSUME NEW m \in Mail'
               PROVE  /\ Decodes(m) /\ m.from # m.to
                      /\ m.type = "append_req" =>
                           /\ <<m.term, m.from>> \in leaders
                           /\ (node'[m.from].role = "leader" /\ node'[m.from].term = m.term)
                                => SliceOf(m, node'[m.from].log)
                      /\ IsAck(m) => <<m.term, m.to>> \in leaders
    BY <1>1 DEF MailInv
  <2>1. m \in Mail /\ m.from \in Server
    <3>1. m \in Mail
      BY RestartCopies
    <3>2. Mail \in SUBSET Message
      BY LogTyped DEF Safe
    <3> QED BY <3>1, <3>2, ClusterTypes DEF Safe
  <2>2. node'[m.from].role = "leader" => node'[m.from] = node[m.from]
    BY <1>1, <1>2, <2>1
  <2> QED BY <2>1, <2>2 DEF Safe, LogInv, MailInv
<1>8. AckInv'
  <2>1. ASSUME NEW l \in Server, l # i, NEW w \in Server, NEW v \in Nat, Confirmed(l, w, v)
        PROVE  Confirmed(l, w, v)'
    <3>1. CASE w # i
      BY <1>1, <2>1, <3>1 DEF Confirmed
    <3>2. CASE w = i /\ v # 0
      <4> DEFINE T == node[l].term
                 L == node[l].log
      <4>1. /\ v <= Len(L) /\ disk[i].term >= T
            /\ disk[i].term = T => Agrees(disk[i].log, L, v)
            /\ node[i].term = T => v <= node[i].stable /\ Agrees(node[i].log, L, v)
        BY <2>1, <3>2 DEF Confirmed
      <4>2. node'[l] = node[l] /\ T \in Nat
        BY <1>1, <1>3, <2>1
      <4> HIDE DEF T, L
      <4>3. Follows(disk[i], node[i]) /\ (node[i].hs_dirty \/ disk[i].term = node[i].term)
        BY DEF Safe, ElectionInv, DiskBehind
      <4>4. d.term = disk[i].term \/ d.term = node[i].term
        BY <1>1 DEF Torn
      <4>5. d.term >= T
        BY SMTT(30), <1>3, <4>1, <4>2, <4>3, <4>4 DEF Follows
      <4>6. ASSUME d.term = T PROVE Agrees(d.log, L, v)
        <5>1. disk[i].term = T
          BY SMTT(30), <1>3, <4>1, <4>2, <4>3, <4>4, <4>6 DEF Follows
        <5>2. CASE d.log = disk[i].log
          BY <4>1, <5>1, <5>2
        <5>3. CASE node[i].term = T
          <6>1. /\ v <= node[i].stable /\ Agrees(node[i].log, L, v)
                /\ node[i].stable <= Len(d.log)
                /\ \A k \in 1 .. node[i].stable : d.log[k] = node[i].log[k]
            BY <1>1, <4>1, <5>3 DEF Torn
          <6>2. v <= Len(d.log) /\ \A k \in 1 .. v : k \in 1 .. node[i].stable
            BY SMTT(30), <1>3, <6>1
          <6> QED BY <6>1, <6>2 DEF Agrees
        <5>4. CASE node[i].term # T /\ d.log # disk[i].log
          <6>1. d.term = IF node[i].hs_dirty THEN node[i].term ELSE disk[i].term
            BY <1>1, <5>4 DEF Torn
          <6>2. node[i].hs_dirty
            BY <4>3, <5>1, <5>4
          <6> QED BY <4>6, <5>4, <6>1, <6>2
        <5> QED BY <5>2, <5>3, <5>4
      <4>7. d.term = T => v <= Len(d.log)
        BY <4>6 DEF Agrees
      <4> QED BY <1>1, <1>2, <3>2, <4>1, <4>2, <4>5, <4>6, <4>7 DEF Confirmed, T, L
    <3>3. CASE v = 0
      BY <3>3 DEF Confirmed
    <3> QED BY <3>1, <3>2, <3>3
  <2> SUFFICES ASSUME NEW l \in Server, node'[l].role = "leader"
               PROVE  /\ node'[l].match[l] <= node'[l].stable
                      /\ \A w \in Peers(l) : Confirmed(l, w, node[l].match[w])'
                      /\ \A m \in net' : AckFor(m, l)' => Confirmed(l, m.from, m.index)'
                      /\ \A w \in Server : \A m \in node'[w].msgs :
                            AckFor(m, l)' => Queued(l, w, m.index)'
    BY DEF AckInv
  <2>2. l # i /\ node'[l] = node[l] /\ node[l].role = "leader"
    BY <1>1, <1>2
  <2>3. /\ node[l].match[l] <= node[l].stable
        /\ \A w \in Peers(l) : Confirmed(l, w, node[l].match[w])
        /\ \A m \in net : AckFor(m, l) => Confirmed(l, m.from, m.index)
        /\ \A w \in Server : \A m \in node[w].msgs : AckFor(m, l) => Queued(l, w, m.index)
    BY <2>2 DEF Safe, LogInv, AckInv
  <2>4. \A m : AckFor(m, l)' <=> AckFor(m, l)
    BY <2>2 DEF AckFor
  <2>5. ASSUME NEW w \in Peers(l) PROVE Confirmed(l, w, node[l].match[w])'
    <3>1. w \in Server
      BY DEF Peers
    <3> DEFINE v == node[l].match[w]
    <3>2. v \in Nat /\ Confirmed(l, w, v) /\ node'[l].match[w] = v
      BY <1>3, <2>2, <2>3, <3>1
    <3> HIDE DEF v
    <3> QED BY <2>1, <2>2, <3>1, <3>2
  <2>6. ASSUME NEW m \in net', AckFor(m, l) PROVE Confirmed(l, m.from, m.index)'
    <3>1. m \in net /\ m \in Message /\ m.type = "append_resp"
      BY <1>1, <2>6, ClusterTypes DEF Safe, AckFor, IsAck
    <3>2. m.index \in Nat /\ m.from \in Server
      BY <3>1 DEF Message
    <3> QED BY <2>1, <2>2, <2>3, <2>6, <3>1, <3>2
  <2>7. ASSUME NEW w \in Server, NEW m \in node'[w].msgs, AckFor(m, l) PROVE Queued(l, w, m.index)'
    <3>1. w # i
      BY <1>2, <2>7
    <3>2. Queued(l, w, m.index) /\ node'[w] = node[w]
      BY <1>1, <2>3, <2>7, <3>1
    <3> QED BY <2>2, <3>2 DEF Queued
  <2> QED BY <2>2, <2>3, <2>4, <2>5, <2>6, <2>7
<1> QED BY <1>4, <1>5, <1>6, <1>7, <1>8 DEF LogInv

=============================================================================
