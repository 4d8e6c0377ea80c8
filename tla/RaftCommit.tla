----------------------------- MODULE RaftCommit -----------------------------
(*****************************************************************************)
(* Every step keeps the invariant of commitment: a committed prefix stays   *)
(* with its majority whoever leads and whoever crashes, and what servers    *)
(* commit, apply and promise in requests is committed.  The invariant then  *)
(* implies that later leaders have what was applied, that no two servers    *)
(* apply different entries, and that a committed entry is on the disks of   *)
(* a majority.                                                              *)
(*****************************************************************************)
EXTENDS RaftPrefix

(* Zenon proves the steps, unless they name another prover; it gets the     *)
(* time a loaded machine may need.                                          *)
USE ZenonT(30)

-----------------------------------------------------------------------------
(* Draining *)

(* Draining leaves no new trace of a vote.                                  *)
LEMMA DrainVoted ==
  ASSUME Safe, NEW i \in Server, NEW r, Drained(i, r), NEW w \in Server, NEW t, NEW c \in Server,
         Voted(w, t, c)'
  PROVE  Voted(w, t, c)
<1>1. /\ node'[i] = r /\ \A j \in Server : j # i => node'[j] = node[j]
      /\ r.role = node[i].role /\ r.term = node[i].term /\ r.votes = node[i].votes /\ r.msgs = {}
      /\ \A m \in net' : m \in net \/ m \in node[i].msgs \/ m.type = "append_req"
  BY DEF Drained
<1>2. \A m \in node[i].msgs : m.from = i
  BY DEF Safe, ElectionInv, VoteRequests
<1>3. (\E m \in net' \union node'[w].msgs : IsGrant(m, w, t, c)) \/ Counted(w, t, c)'
  BY DEF Voted
<1>4. CASE \E m \in net' \union node'[w].msgs : IsGrant(m, w, t, c)
  <2>1. PICK m \in net' \union node'[w].msgs : IsGrant(m, w, t, c)
    BY <1>4
  <2>2. m \in net \union node[w].msgs
    BY <1>1, <1>2, <2>1 DEF IsGrant
  <2> QED BY <2>1, <2>2 DEF Voted
<1>5. CASE Counted(w, t, c)'
  BY <1>1, <1>5 DEF Counted, Voted
<1> QED BY <1>3, <1>4, <1>5

(* A leader of the term of p or a later one has p.                          *)
LEMMA LeaderHolds ==
  ASSUME Safe, NEW l \in Server, node[l].role = "leader", NEW W, NEW D, NEW p, Keeps(W, D, p),
         LogSlots(p) \subseteq Slots, Top(p) <= node[l].term
  PROVE  Prefix(p, node[l].log)
<1>1. p \in Seq(Entry) /\ Len(p) # 0 /\ node[l].log \in Seq(Entry) /\ Tidy(Slots)
  BY LogTyped DEF Keeps, Safe, LogTypes
<1>2. LastTerm(node[l].log) = node[l].term
      /\ \A a \in Slots : a.entry.term = node[l].term => a \in LogSlots(node[l].log)
  BY DEF Safe, LogInv, OwnInv
<1>3. LastTerm(node[l].log) > Top(p) => Prefix(p, node[l].log)
  BY DEF Keeps
<1> QED BY <1>1, <1>2, <1>3, SlotsOf, OwnerHolds

(* Draining leaves p where it was kept, and puts it on the disk of the      *)
(* server that drains.                                                      *)
LEMMA KeepsDrain ==
  ASSUME Safe, TypeInv', NEW i \in Server, NEW r, Drained(i, r),
         NEW W \in SUBSET Server, NEW D \in SUBSET W, NEW p, Keeps(W, D, p),
         LogSlots(p) \subseteq Slots, NEW E \in SUBSET W, \A w \in E : w \in D \/ w = i
  PROVE  Keeps(W, E, p)'
<1>1. /\ p \in Seq(Entry) /\ Len(p) # 0 /\ Len(p) \in Nat /\ Top(p) \in Nat
      /\ \A w \in W : Prefix(p, node[w].log) /\ Top(p) <= node[w].term
      /\ \A w \in D : Len(p) <= node[w].stable /\ Top(p) <= disk[w].term
      /\ \A x \in Server :
           /\ LastTerm(node[x].log) > Top(p) => Prefix(p, node[x].log)
           /\ LastTerm(disk[x].log) > Top(p) => Prefix(p, disk[x].log)
      /\ \A m \in Requests : m.term >= Top(p) => Fits(m, p)
  BY TopType DEF Keeps
<1>2. /\ node'[i] = r /\ \A j \in Server : j # i => node'[j] = node[j] /\ disk'[j] = disk[j]
      /\ r.role = node[i].role /\ r.term = node[i].term /\ r.log = node[i].log
      /\ r.stable = Len(node[i].log)
      /\ disk'[i].log = node[i].log /\ disk'[i].term = node[i].term
  BY DEF Drained
<1>3. \A x \in Server : /\ node'[x].log = node[x].log /\ node'[x].term = node[x].term
                        /\ node'[x].role = node[x].role
  BY <1>2
<1>4. ASSUME NEW w \in E PROVE Len(p) <= node'[w].stable /\ Top(p) <= disk'[w].term
  <2>1. CASE w = i
    <3>1. Prefix(p, node[i].log) /\ Top(p) <= node[i].term
      BY <1>1, <2>1
    <3> QED BY <1>2, <2>1, <3>1 DEF Prefix
  <2>2. CASE w # i
    BY <1>1, <1>2, <2>2
  <2> QED BY <2>1, <2>2
<1>5. \A x \in Server : LastTerm(disk'[x].log) > Top(p) => Prefix(p, disk'[x].log)
  BY <1>1, <1>2
<1>6. ASSUME NEW m \in Requests', m.term >= Top(p) PROVE Fits(m, p)
  <2>1. m \in Mail' /\ m.type = "append_req"
    BY DEF Requests
  <2>2. m \in Mail \/ (m \in Message /\ Says(i, node[i], m))
    BY <2>1, DrainCopies
  <2>3. CASE m \in Mail
    BY <1>1, <1>6, <2>1, <2>3 DEF Requests
  <2>4. CASE m \in Message /\ Says(i, node[i], m)
    <3>1. node[i].role = "leader" /\ SliceOf(m, node[i].log) /\ m.term = node[i].term
      BY <2>1, <2>4 DEF Says
    <3>2. Top(p) <= node[i].term /\ node[i].log \in Seq(Entry)
      <4>1. node[i].term \in Nat /\ node[i].log \in Seq(Entry)
        BY LogTyped DEF Safe, LogTypes
      <4> QED BY <1>1, <1>6, <3>1, <4>1
    <3>3. Prefix(p, node[i].log)
      BY <3>1, <3>2, LeaderHolds
    <3> QED BY SMTT(30), <1>1, <2>1, <2>4, <3>1, <3>2, <3>3, LogsOrdered, SliceFits
  <2> QED BY <2>2, <2>3, <2>4
<1>7. ASSUME NEW c \in Server, NEW w \in W, node'[c].role = "candidate", node'[c].term > Top(p),
             Voted(w, node[c].term, c)'
      PROVE  Prefix(p, node'[c].log)
  <2>1. PICK t : t = node'[c].term
    OBVIOUS
  <2>2. Voted(w, t, c)'
    BY <1>7, <2>1 DEF Voted, Counted
  <2>3. Voted(w, t, c) /\ node[c].term = t /\ node[c].role = "candidate"
    BY <1>3, <1>7, <2>1, <2>2, DrainVoted
  <2>4. Prefix(p, node[c].log)
    BY <1>7, <2>1, <2>3 DEF Keeps
  <2> QED BY <1>3, <2>4
<1> QED BY SMTT(30), <1>1, <1>3, <1>4, <1>5, <1>6, <1>7 DEF Keeps

(* What is committed stays committed when a server drains.                  *)
LEMMA ComDrain ==
  ASSUME Safe, TypeInv', NEW i \in Server, NEW r, Drained(i, r),
         NEW Q \in SUBSET Server, NEW p, Com(Q, p)
  PROVE  Com(Q, p)'
<1>1. HasMajority(Server, Q) /\ Keeps(Q, Q, p)
  BY DEF Com
<1>2. PICK w \in Q : TRUE
  BY SMTT(30), <1>1 DEF Safe, Majorities
<1>3. LogSlots(p) \subseteq Slots
  BY <1>1, <1>2, HolderSlots
<1>4. Q \in SUBSET Q
  OBVIOUS
<1>5. Keeps(Q, Q, p)'
  BY <1>1, <1>3, <1>4, KeepsDrain
<1> QED BY <1>1, <1>5 DEF Com

(* A leader is one more server that keeps the prefix of its log that ends   *)
(* in its term.                                                             *)
LEMMA KeepsLeader ==
  ASSUME Safe, NEW l \in Server, NEW W, NEW D, NEW p, Keeps(W, D, p),
         Prefix(p, node[l].log), Top(p) = node[l].term
  PROVE  Keeps(W \union {l}, D, p)
<1>1. ASSUME NEW c \in Server, node[c].term > Top(p), Voted(l, node[c].term, c) PROVE FALSE
  <2>1. node[c].term \in Term /\ node[c].term \in Nat /\ node[l].term \in Nat
    BY LogTyped DEF Safe, LogTypes
  <2>2. Reached(node[l], node[c].term, c)
    BY <1>1, <2>1 DEF Safe, ElectionInv, VoteInv
  <2> QED BY SMTT(30), <1>1, <2>1, <2>2 DEF Reached
<1>2. node[l].term \in Nat
  BY LogTyped DEF Safe, LogTypes
<1> QED BY SMTT(30), <1>1, <1>2 DEF Keeps

(* Draining keeps the entries safe that a leader may yet commit: a server   *)
(* whose answer gets into the network has the entries on disk by then.      *)
LEMMA DrainPreInv ==
  ASSUME Safe, TypeInv', PreInv, NEW i \in Server, NEW r, Drained(i, r)
  PROVE  PreInv'
<1>1. /\ node'[i] = r /\ \A j \in Server : j # i => node'[j] = node[j] /\ disk'[j] = disk[j]
      /\ r.role = node[i].role /\ r.term = node[i].term /\ r.log = node[i].log /\ r.msgs = {}
      /\ disk'[i].term = node[i].term
      /\ r.role = "leader" => r.match = [node[i].match EXCEPT ![i] = Len(node[i].log)]
      /\ \A m \in net' : m \in net \/ m \in node[i].msgs \/ m.type = "append_req"
  BY DEF Drained
<1> SUFFICES ASSUME NEW l \in Server, node'[l].role = "leader", NEW k \in 1 .. Len(node'[l].log),
                    node'[l].log[k].term = node'[l].term
             PROVE  \/ Excluded(l, k)'
                    \/ Keeps(Ackers(l, k), Durable(l, k), SubSeq(node[l].log, 1, k))'
  BY DEF PreInv
<1>2. /\ node[l].role = "leader" /\ node'[l].term = node[l].term /\ node'[l].log = node[l].log
      /\ k \in 1 .. Len(node[l].log) /\ node[l].log[k].term = node[l].term
  BY <1>1
<1>3. /\ node[l].log \in Seq(Entry) /\ node[l].match \in [Server -> Nat]
      /\ \A w \in Server : node[w].term \in Nat /\ disk[w].term \in Nat
  BY LogTyped DEF Safe, LogTypes
<1>4. \A m \in node[i].msgs : m.from = i
  BY DEF Safe, ElectionInv, VoteRequests
<1>5. ASSUME NEW w \in Durable(l, k)' PROVE w \in Durable(l, k) \/ (w = i /\ (l = i \/ i \in Ackers(l, k)))
  <2>1. w \in Server /\ (k <= node'[l].match[w] \/ \E m \in net' : AckFor(m, l)' /\ m.from = w /\ k <= m.index)
    BY DEF Durable
  <2>2. CASE k <= node'[l].match[w]
    <3>1. CASE l = i /\ w # i
      <4>1. r.match[w] = node[i].match[w]
        BY <1>1, <1>2, <1>3, <2>1, <3>1
      <4> QED BY SMTT(30), <1>1, <2>1, <2>2, <3>1, <4>1 DEF Durable
    <3>2. CASE l # i
      BY <1>1, <2>1, <2>2, <3>2 DEF Durable
    <3> QED BY <3>1, <3>2
  <2>3. CASE \E m \in net' : AckFor(m, l)' /\ m.from = w /\ k <= m.index
    <3>1. PICK m \in net' : AckFor(m, l)' /\ m.from = w /\ k <= m.index
      BY <2>3
    <3>2. AckFor(m, l) /\ m.type = "append_resp"
      BY <1>2, <3>1 DEF AckFor, IsAck
    <3>3. m \in net \/ m \in node[i].msgs
      BY <1>1, <3>2
    <3> QED BY <1>4, <2>1, <3>1, <3>2, <3>3 DEF Durable, Ackers
  <2> QED BY <2>1, <2>2, <2>3
<1>6. ASSUME NEW w \in Ackers(l, k)' PROVE w \in Ackers(l, k) \/ (w = i /\ l = i)
  <2>1. CASE w \in Durable(l, k)'
    BY <1>5, <2>1 DEF Ackers
  <2>2. CASE w \notin Durable(l, k)'
    <3>1. w \in Server /\ \E m \in node'[w].msgs : AckFor(m, l)' /\ k <= m.index
      BY <2>2 DEF Ackers
    <3>2. \E m \in node[w].msgs : AckFor(m, l) /\ k <= m.index
      BY <1>1, <1>2, <3>1 DEF AckFor
    <3> QED BY <3>1, <3>2 DEF Ackers
  <2> QED BY <2>1, <2>2
<1>7. \A w \in Server : disk[w].term <= node[w].term
  BY SMTT(30), <1>3 DEF Safe, ElectionInv, DiskBehind, Follows
<1>8. CASE Excluded(l, k)
  <2>1. PICK Q \in SUBSET Server :
          HasMajority(Server, Q) /\ \A w \in Q : w \notin Ackers(l, k) /\ disk[w].term > node[l].term
    BY <1>8 DEF Excluded
  <2>2. ASSUME NEW w \in Q PROVE w \notin Ackers(l, k)' /\ disk'[w].term > node'[l].term
    <3>1. ~(w = i /\ l = i)
      <4>1. disk[w].term > node[l].term /\ disk[w].term <= node[w].term
        BY <1>7, <2>1
      <4>2. disk[w].term \in Nat /\ node[l].term \in Nat
        BY <1>3
      <4> QED BY SMTT(30), <4>1, <4>2
    <3>2. disk'[w].term >= disk[w].term /\ disk'[w].term \in Nat
      BY SMTT(30), <1>1, <1>3, <1>7
    <3> QED BY SMTT(30), <1>2, <1>3, <1>6, <2>1, <3>1, <3>2
  <2> QED BY <2>1, <2>2 DEF Excluded
<1>9. CASE Keeps(Ackers(l, k), Durable(l, k), SubSeq(node[l].log, 1, k))
  <2>1. PICK p : p = SubSeq(node[l].log, 1, k)
    OBVIOUS
  <2>2. p \in Seq(Entry) /\ Prefix(p, node[l].log) /\ Top(p) = node[l].term
    BY <1>2, <1>3, <2>1, OwnPrefix
  <2>3. LogSlots(p) \subseteq Slots
    BY <1>3, <2>2, PrefixSlots, SlotsOf
  <2>4. PICK W, D, E : /\ W = Ackers(l, k) \union {l} /\ D = Durable(l, k)
                       /\ E = Durable(l, k)'
    OBVIOUS
  <2>5. Keeps(W, D, p) /\ W \in SUBSET Server /\ D \in SUBSET W
    <3>1. Keeps(Ackers(l, k) \union {l}, Durable(l, k), p)
      BY <1>9, <2>1, <2>2, KeepsLeader
    <3> QED BY <2>4, <3>1 DEF Ackers, Durable
  <2>6. E \in SUBSET W /\ \A w \in E : w \in D \/ w = i
    BY <1>5, <2>4 DEF Ackers
  <2>7. Keeps(W, E, p)'
    BY <2>3, <2>5, <2>6, KeepsDrain
  <2>8. Ackers(l, k)' \subseteq W
    BY <1>6, <2>4
  <2>9. Keeps(Ackers(l, k), Durable(l, k), p)'
    BY <2>4, <2>7, <2>8 DEF Keeps
  <2> QED BY <1>2, <2>1, <2>9
<1> QED BY <1>2, <1>8, <1>9 DEF PreInv

-----------------------------------------------------------------------------
(* Crashes *)

(* A crash leaves p where it was kept on disk.                              *)
LEMMA KeepsRestart ==
  ASSUME Safe, TypeInv', NEW i \in Server, NEW d, NEW a, Restarted(i, d, a),
         NEW W \in SUBSET Server, NEW D \in SUBSET W, NEW p, Keeps(W, D, p),
         LogSlots(p) \subseteq Slots, i \in W => i \in D
  PROVE  Keeps(W, D, p)'
<1>1. /\ p \in Seq(Entry) /\ Len(p) # 0 /\ Len(p) \in Nat /\ Top(p) \in Nat
      /\ \A w \in W : Prefix(p, node[w].log) /\ Top(p) <= node[w].term
      /\ \A w \in D : Len(p) <= node[w].stable /\ Top(p) <= disk[w].term
      /\ \A x \in Server :
           /\ LastTerm(node[x].log) > Top(p) => Prefix(p, node[x].log)
           /\ LastTerm(disk[x].log) > Top(p) => Prefix(p, disk[x].log)
      /\ \A m \in Requests : m.term >= Top(p) => Fits(m, p)
  BY TopType DEF Keeps
<1>2. /\ \A j \in Server : j # i => node'[j] = node[j] /\ disk'[j] = disk[j]
      /\ d \in DiskType /\ net' = net /\ node'[i] = InitNode(d, a) /\ disk'[i] = d
      /\ Torn(disk[i], node[i], d)
  BY DEF Restarted
<1>3. /\ node'[i].role = "follower" /\ node'[i].log = d.log /\ node'[i].term = d.term
      /\ node'[i].stable = Len(d.log) /\ node'[i].msgs = {}
  BY SMTT(30), <1>2 DEF InitNode
<1>4. /\ disk[i].term <= d.term /\ Mail' \subseteq Mail
  BY <1>2, RestartCopies DEF Copies
<1>5. /\ d.log \in Seq(Entry) /\ disk[i].log \in Seq(Entry) /\ node[i].log \in Seq(Entry)
      /\ d.term \in Nat /\ disk[i].term \in Nat /\ Len(d.log) \in Nat /\ node[i].stable \in Nat
  BY <1>2, LogTyped, LogTypedNext DEF Safe, LogTypes
<1>6. ASSUME i \in W PROVE Prefix(p, d.log) /\ Top(p) <= d.term /\ Len(p) <= Len(d.log)
  <2>1. Len(p) <= node[i].stable /\ Top(p) <= disk[i].term /\ Prefix(p, node[i].log)
    BY <1>1, <1>6
  <2>2. node[i].stable <= Len(d.log) /\ \A j \in 1 .. node[i].stable : d.log[j] = node[i].log[j]
    BY <1>2 DEF Torn
  <2>3. Len(p) <= Len(d.log) /\ \A j \in 1 .. Len(p) : p[j] = d.log[j]
    BY SMTT(30), <1>1, <1>5, <2>1, <2>2 DEF Prefix
  <2>4. Top(p) <= d.term
    BY SMTT(30), <1>1, <1>4, <1>5, <2>1
  <2> QED BY <2>3, <2>4 DEF Prefix
<1>7. LastTerm(d.log) > Top(p) => Prefix(p, d.log)
  <2>1. d.log = disk[i].log \/ Prefix(d.log, disk[i].log) \/ Prefix(d.log, node[i].log)
    BY <1>2 DEF Torn
  <2>2. CASE d.log = disk[i].log
    BY <1>1, <2>2
  <2>3. CASE Prefix(d.log, disk[i].log)
    BY <1>1, <1>5, <2>3, LogsOrdered, CutTop
  <2>4. CASE Prefix(d.log, node[i].log)
    BY SMTT(30), <1>1, <1>5, <2>4, LogsOrdered, CutTop
  <2> QED BY <2>1, <2>2, <2>3, <2>4
<1>8. \A m \in Requests' : m.term >= Top(p) => Fits(m, p)
  BY <1>1, <1>4 DEF Requests
<1>9. ASSUME NEW c \in Server, NEW w \in W, node'[c].role = "candidate", node'[c].term > Top(p),
             Voted(w, node[c].term, c)'
      PROVE  Prefix(p, node'[c].log)
  <2>1. c # i /\ node'[c] = node[c]
    BY <1>2, <1>3, <1>9
  <2>2. Voted(w, node[c].term, c)
    BY SMTT(30), <1>2, <1>3, <1>9, <2>1 DEF Voted, Counted
  <2> QED BY <1>9, <2>1, <2>2 DEF Keeps
<1>10. \A w \in W : Prefix(p, node'[w].log) /\ Top(p) <= node'[w].term
  BY <1>1, <1>2, <1>3, <1>6
<1>11. \A w \in D : Len(p) <= node'[w].stable /\ Top(p) <= disk'[w].term
  BY <1>1, <1>2, <1>3, <1>6
<1>12. \A x \in Server :
         /\ LastTerm(node'[x].log) > Top(p) => Prefix(p, node'[x].log)
         /\ LastTerm(disk'[x].log) > Top(p) => Prefix(p, disk'[x].log)
  BY <1>1, <1>2, <1>3, <1>7
<1> QED BY <1>1, <1>8, <1>9, <1>10, <1>11, <1>12 DEF Keeps

(* What is committed stays committed over a crash.                          *)
LEMMA ComRestart ==
  ASSUME Safe, TypeInv', NEW i \in Server, NEW d, NEW a, Restarted(i, d, a),
         NEW Q \in SUBSET Server, NEW p, Com(Q, p)
  PROVE  Com(Q, p)'
<1>1. HasMajority(Server, Q) /\ Keeps(Q, Q, p)
  BY DEF Com
<1>2. PICK w \in Q : TRUE
  BY SMTT(30), <1>1 DEF Safe, Majorities
<1>3. LogSlots(p) \subseteq Slots
  BY <1>1, <1>2, HolderSlots
<1>4. Q \in SUBSET Q
  OBVIOUS
<1>5. Keeps(Q, Q, p)'
  BY <1>1, <1>3, <1>4, KeepsRestart
<1> QED BY <1>1, <1>5 DEF Com

(* A crash keeps the entries safe that a leader may yet commit: the answers *)
(* it forgets are those not yet in the network.                             *)
LEMMA RestartPreInv ==
  ASSUME Safe, TypeInv', PreInv, NEW i \in Server, NEW d, NEW a, Restarted(i, d, a)
  PROVE  PreInv'
<1>1. /\ \A j \in Server : j # i => node'[j] = node[j] /\ disk'[j] = disk[j]
      /\ net' = net /\ node'[i] = InitNode(d, a)
  BY DEF Restarted
<1>2. node'[i].role = "follower" /\ node'[i].msgs = {}
  BY SMTT(30), <1>1 DEF InitNode
<1> SUFFICES ASSUME NEW l \in Server, node'[l].role = "leader", NEW k \in 1 .. Len(node'[l].log),
                    node'[l].log[k].term = node'[l].term
             PROVE  \/ Excluded(l, k)'
                    \/ Keeps(Ackers(l, k), Durable(l, k), SubSeq(node[l].log, 1, k))'
  BY DEF PreInv
<1>3. l # i /\ node'[l] = node[l]
  BY <1>1, <1>2
<1>4. Durable(l, k)' = Durable(l, k)
  BY <1>1, <1>3 DEF Durable, AckFor
<1>5. Ackers(l, k)' \subseteq Ackers(l, k) /\ (i \in Ackers(l, k)' => i \in Durable(l, k))
  <2>1. ASSUME NEW w \in Server, NEW m \in node'[w].msgs, AckFor(m, l)', k <= m.index
        PROVE  w # i /\ w \in Ackers(l, k)
    <3>1. w # i /\ m \in node[w].msgs /\ AckFor(m, l)
      BY <1>1, <1>2, <1>3, <2>1 DEF AckFor
    <3> QED BY <2>1, <3>1 DEF Ackers
  <2> QED BY <1>4, <2>1 DEF Ackers
<1>6. /\ node[l].log \in Seq(Entry)
      /\ \A w \in Server : node[w].term \in Nat /\ disk[w].term \in Nat /\ disk'[w].term \in Nat
  BY LogTyped, LogTypedNext DEF Safe, LogTypes
<1>7. \A w \in Server : disk[w].term <= disk'[w].term
  BY SMTT(30), <1>1, <1>6, RestartCopies DEF Copies
<1>8. CASE Excluded(l, k)
  <2>1. PICK Q \in SUBSET Server :
          HasMajority(Server, Q) /\ \A w \in Q : w \notin Ackers(l, k) /\ disk[w].term > node[l].term
    BY <1>8 DEF Excluded
  <2>2. \A w \in Q : w \notin Ackers(l, k)' /\ disk'[w].term > node'[l].term
    BY SMTT(30), <1>3, <1>5, <1>6, <1>7, <2>1
  <2> QED BY <2>1, <2>2 DEF Excluded
<1>9. CASE Keeps(Ackers(l, k), Durable(l, k), SubSeq(node[l].log, 1, k))
  <2>1. PICK p : p = SubSeq(node[l].log, 1, k)
    OBVIOUS
  <2>2. LogSlots(p) \subseteq Slots
    BY <1>3, <1>6, <2>1, OwnPrefix, PrefixSlots, SlotsOf
  <2>3. PICK W, D : W = Ackers(l, k)' /\ D = Durable(l, k)'
    OBVIOUS
  <2>4. W \in SUBSET Server /\ D \in SUBSET W
    BY <2>3 DEF Ackers, Durable
  <2>5. Keeps(W, D, p)
    BY <1>4, <1>5, <1>9, <2>1, <2>3, KeepsLess
  <2>6. i \in W => i \in D
    BY <1>4, <1>5, <2>3
  <2>7. Keeps(W, D, p)'
    BY <2>2, <2>4, <2>5, <2>6, KeepsRestart
  <2>8. Keeps(Ackers(l, k), Durable(l, k), p)'
    BY <2>3, <2>7 DEF Keeps
  <2> QED BY <1>3, <2>1, <2>8
<1> QED BY <1>3, <1>8, <1>9 DEF PreInv

-----------------------------------------------------------------------------
(* Requests for votes *)

(* An input leaves requests for votes true: a new candidacy is in a term in *)
(* which the server has not asked for votes before.                         *)
LEMMA TakesVoteReqInv ==
  ASSUME Safe, VoteReqInv, NEW i \in Server, NEW r, Takes(i, r)
  PROVE  VoteReqInv'
<1> DEFINE n == node[i]
<1>1. /\ node'[i] = r /\ \A j \in Server : j # i => node'[j] = node[j]
      /\ n.term \in Nat /\ r.term \in Nat /\ disk[i].term \in Nat
  BY TakesNodes, ClusterTypes DEF Safe
<1> SUFFICES ASSUME NEW m \in Mail', m.type = "vote_req", node'[m.from].role = "candidate",
                    node'[m.from].term = m.term
             PROVE  /\ m.last_log_index = Len(node'[m.from].log)
                    /\ m.last_log_term = LastTerm(node'[m.from].log)
  BY DEF VoteReqInv
<1>2. m \in Mail \/ m \in r.msgs \ n.msgs
  BY TakesMail
<1>3. CASE m \in r.msgs \ n.msgs
  <2>1. Says(i, r, m)
    BY <1>3 DEF Takes, LogStep
  <2> QED BY <1>1, <2>1 DEF Says
<1>4. CASE m \in Mail
  <2>1. CASE m.from # i
    <3>1. m.from \in Server
      BY <1>4, LogTyped, ClusterTypes DEF Safe
    <3> QED BY SMTT(30), <1>1, <1>4, <2>1, <3>1 DEF VoteReqInv
  <2>2. CASE m.from = i
    <3>1. r.role = "candidate" /\ r.term = m.term
      BY <1>1, <2>2
    <3>2. Rests(i, n, r) \/ Grows(i, n, r) \/ Learns(i, n, r) \/ \E q \in net : Receives(i, n, r, q)
      BY DEF Takes, LogStep
    <3>3. r.log = n.log /\ ((n.role = "candidate" /\ r.term = n.term) \/ n.term < r.term)
      BY <3>1, <3>2 DEF Rests, Grows, Learns, Receives
    <3>4. ~(n.term < r.term)
      <4>1. disk[i].term <= n.term
        BY SMTT(30), <1>1 DEF Safe, ElectionInv, DiskBehind, Follows
      <4>2. ASSUME m \in net PROVE m.term <= n.term
        <5>1. Reached(disk[i], m.term, i)
          BY <2>2, <4>2 DEF Safe, ElectionInv, VoteRequests
        <5> QED BY SMTT(30), <1>1, <3>1, <4>1, <5>1 DEF Reached
      <4>3. ASSUME NEW w \in Server, m \in node[w].msgs PROVE m.term <= n.term
        <5>1. m.from = w
          BY <4>3 DEF Safe, ElectionInv, VoteRequests
        <5>2. Reached(node[i], m.term, i)
          BY <2>2, <4>3, <5>1 DEF Safe, ElectionInv, VoteRequests
        <5> QED BY SMTT(30), <1>1, <3>1, <5>2 DEF Reached
      <4>4. m.term <= n.term
        BY <1>4, <4>2, <4>3 DEF Mail
      <4> QED BY SMTT(30), <1>1, <3>1, <4>4
    <3>5. m.last_log_index = Len(n.log) /\ m.last_log_term = LastTerm(n.log)
      BY <1>4, <2>2, <3>1, <3>3, <3>4 DEF VoteReqInv
    <3> QED BY <1>1, <2>2, <3>3, <3>5
  <2> QED BY <2>1, <2>2
<1> QED BY <1>2, <1>3, <1>4

(* So do a drain and a crash.                                               *)
LEMMA DrainVoteReqInv ==
  ASSUME Safe, TypeInv', VoteReqInv, NEW i \in Server, NEW r, Drained(i, r)
  PROVE  VoteReqInv'
<1>1. \A x \in Server : /\ node'[x].log = node[x].log /\ node'[x].term = node[x].term
                        /\ node'[x].role = node[x].role
  BY DEF Drained
<1>2. ASSUME NEW m \in Mail', m.type = "vote_req" PROVE m \in Mail
  BY <1>2, DrainCopies
<1>3. \A m \in Mail' : m.from \in Server
  BY LogTypedNext, ClusterTypes DEF Safe
<1> QED BY SMTT(30), <1>1, <1>2, <1>3 DEF VoteReqInv

(* A crash forgets the candidacy.                                           *)
LEMMA RestartVoteReqInv ==
  ASSUME Safe, TypeInv', VoteReqInv, NEW i \in Server, NEW d, NEW a, Restarted(i, d, a)
  PROVE  VoteReqInv'
<1>1. \A j \in Server : j # i => node'[j] = node[j]
  BY DEF Restarted
<1>2. node'[i].role = "follower"
  BY SMTT(30) DEF Restarted, InitNode
<1>3. Mail' \subseteq Mail
  BY RestartCopies
<1>4. \A m \in Mail' : m.from \in Server
  BY LogTypedNext, ClusterTypes DEF Safe
<1> QED BY SMTT(30), <1>1, <1>2, <1>3, <1>4 DEF VoteReqInv

-----------------------------------------------------------------------------
(* Commitment *)

(* What maybeCommit commits is committed.                                   *)
CommitReady ==
  \A i \in Server : node[i].role = "leader" =>
    \A k \in 1 .. Len(node[i].log) :
      (node[i].log[k].term = node[i].term /\ HasMajority(Server, Replicas(node[i].match, k)))
        => Fixed(node[i].log, k, node[i].term)

(* A majority that has confirmed an entry of the leader's term keeps it: no *)
(* other majority has passed it by, for the two meet.                       *)
LEMMA MajorityCommits == Safe /\ PreInv => CommitReady
<1> SUFFICES ASSUME Safe, PreInv, NEW i \in Server, node[i].role = "leader",
                    NEW k \in 1 .. Len(node[i].log), node[i].log[k].term = node[i].term,
                    HasMajority(Server, Replicas(node[i].match, k))
             PROVE  Fixed(node[i].log, k, node[i].term)
  BY DEF CommitReady
<1> DEFINE Q == Replicas(node[i].match, k)
           p == SubSeq(node[i].log, 1, k)
<1>1. /\ node[i].log \in Seq(Entry) /\ node[i].term \in Nat /\ k \in Nat
      /\ node[i].match \in [Server -> Nat]
  BY SMTT(30), LogTyped DEF Safe, LogTypes
<1>2. /\ p \in Seq(Entry) /\ Len(p) = k /\ Prefix(p, node[i].log) /\ Top(p) = node[i].term
  BY <1>1, OwnPrefix
<1>3. Q \in SUBSET Server /\ Q \subseteq Durable(i, k) /\ Durable(i, k) \subseteq Ackers(i, k)
  <2>1. \A w \in Q : w \in Server /\ k <= node[i].match[w]
    BY <1>1 DEF Replicas
  <2> QED BY <2>1 DEF Durable, Ackers
<1>4. Excluded(i, k) \/ Keeps(Ackers(i, k), Durable(i, k), p)
  BY DEF PreInv
<1>5. HasMajority(Server, Q)
  OBVIOUS
<1> HIDE DEF Q, p
<1>6. ~Excluded(i, k)
  <2> SUFFICES ASSUME NEW P \in SUBSET Server, HasMajority(Server, P), \A w \in P : w \notin Ackers(i, k)
               PROVE  FALSE
    BY DEF Excluded
  <2>1. P \intersect Q # {}
    BY <1>3, <1>5 DEF Safe, Majorities
  <2> QED BY <1>3, <2>1
<1>7. Keeps(Q, Q, p)
  BY <1>3, <1>4, <1>6, KeepsLess
<1>8. Com(Q, p) /\ Top(p) <= node[i].term /\ Agrees(p, node[i].log, k)
  BY SMTT(30), <1>1, <1>2, <1>5, <1>7 DEF Com, Prefix, Agrees
<1> QED BY <1>2, <1>3, <1>8 DEF Fixed

(* It is so after a step.                                                   *)
LEMMA MajorityCommitsNext == Safe' /\ PreInv' => CommitReady'
BY MajorityCommits, PTL

(* What is committed stays committed in this step.                          *)
ComStays ==
  \A Q \in SUBSET Server : \A p \in Seq(Entry) : Com(Q, p) => Com(Q, p)'

(* Then the beginning of a log stays committed, too.                        *)
LEMMA FixedStays ==
  ASSUME ComStays, NEW log \in Seq(Entry), NEW new \in Seq(Entry), NEW c \in Nat,
         NEW t \in Nat, NEW u \in Nat, t <= u, Fixed(log, c, t), c # 0 => Agrees(log, new, c)
  PROVE  Fixed(new, c, u)'
<1>1. CASE c = 0
  BY <1>1 DEF Fixed
<1>2. CASE c # 0
  <2>1. PICK Q \in SUBSET Server, p \in Seq(Entry) :
          Com(Q, p) /\ Top(p) <= t /\ Agrees(p, log, c)
    BY <1>2 DEF Fixed
  <2>2. Com(Q, p)'
    BY <2>1 DEF ComStays
  <2>3. Top(p) \in Nat
    BY <2>1, TopType DEF Com, Keeps
  <2>4. Top(p) <= u
    BY SMTT(30), <2>1, <2>3
  <2>5. Agrees(p, new, c)
    BY <1>2, <2>1 DEF Agrees
  <2> QED BY <2>2, <2>4, <2>5 DEF Fixed
<1> QED BY <1>1, <1>2

(* What of a log is committed it keeps under an input, also the persisted   *)
(* part of it.                                                              *)
LEMMA TakesFixed ==
  ASSUME Safe, ComStays, NEW i \in Server, NEW r, Takes(i, r), NEW c \in Nat, NEW t \in Nat,
         t <= node[i].term, Fixed(node[i].log, c, t), NEW u \in Nat, t <= u
  PROVE  /\ Fixed(r.log, c, u)' /\ c <= Len(r.log)
         /\ c <= node[i].stable => c <= r.stable
<1>1. /\ node[i].log \in Seq(Entry) /\ node[i].term \in Nat /\ Len(r.log) \in Nat
      /\ r.log \in Seq(Entry) /\ r.stable \in Nat
  BY TakesNodes, LogTyped DEF Safe, LogTypes
<1>2. CASE c = 0
  BY SMTT(30), <1>1, <1>2 DEF Fixed
<1>3. CASE c # 0
  <2>1. PICK Q \in SUBSET Server, p \in Seq(Entry) :
          Com(Q, p) /\ Top(p) <= t /\ Agrees(p, node[i].log, c)
    BY <1>3 DEF Fixed
  <2>2. /\ Len(p) # 0 /\ Top(p) \in Nat
        /\ \A m \in Requests : m.term >= Top(p) => Fits(m, p)
    BY <2>1, TopType DEF Com, Keeps
  <2>3. Top(p) <= node[i].term
    BY SMTT(30), <1>1, <2>1, <2>2
  <2>4. Agrees(p, r.log, c) /\ (c <= node[i].stable => c <= r.stable)
    BY <2>1, <2>2, <2>3, TakesAgrees
  <2>5. Com(Q, p)' /\ Top(p) <= u
    BY SMTT(30), <2>1, <2>2 DEF ComStays
  <2>6. c <= Len(r.log)
    BY <2>4 DEF Agrees
  <2> QED BY <2>4, <2>5, <2>6 DEF Fixed
<1> QED BY <1>2, <1>3

(* What a follower commits on a leader's word is committed: it has the      *)
(* leader's entries up to there.                                            *)
LEMMA ReceivesFixed ==
  ASSUME Safe, ReqInv, ComStays, NEW i \in Server, NEW r, Takes(i, r), NEW q \in net,
         Receives(i, node[i], r, q), NEW c \in Nat, c # 0, c <= q.leader_commit,
         c <= q.prev_log_index + Len(q.entries)
  PROVE  Fixed(r.log, c, r.term)' /\ c <= Len(r.log)
<1> DEFINE n == node[i]
<1>1. /\ n.log \in Seq(Entry) /\ r.log \in Seq(Entry) /\ r.term \in Nat /\ Len(r.log) \in Nat
      /\ q \in Message /\ q.type = "append_req" /\ r.term = q.term
  BY TakesNodes, LogTyped DEF Safe, LogTypes, Receives
<1>2. q.leader_commit \in Nat /\ q.prev_log_index \in Nat /\ Len(q.entries) \in Nat
  BY SMTT(30), <1>1 DEF Message
<1>3. q \in Requests
  BY <1>1, SlotsOf DEF Requests
<1>4. PICK Q \in SUBSET Server, p \in Seq(Entry) :
        Com(Q, p) /\ Top(p) <= q.term /\ q.leader_commit <= Len(p)
  <2>1. q.leader_commit # 0
    BY SMTT(30), <1>2
  <2> QED BY <1>3, <2>1 DEF ReqInv
<1>5. /\ Len(p) # 0 /\ Top(p) \in Nat /\ Len(p) \in Nat /\ Fits(q, p)
      /\ LastTerm(n.log) > Top(p) => Prefix(p, n.log)
  <2>1. Keeps(Q, Q, p)
    BY <1>4 DEF Com
  <2>2. Len(p) # 0 /\ Top(p) \in Nat /\ Len(p) \in Nat
    BY <2>1, TopType DEF Keeps
  <2>3. q.term >= Top(p)
    BY <1>1, <1>4, <2>2
  <2> QED BY <1>3, <2>1, <2>2, <2>3 DEF Keeps
<1>6. PICK w \in Q : TRUE
  BY SMTT(30), <1>4 DEF Com, Safe, Majorities
<1>7. LogSlots(p) \subseteq Slots
  BY <1>4, <1>6, HolderSlots DEF Com
<1>8. PICK g \in Nat : MergedAt(n.log, q, r.log, g)
  BY DEF Receives
<1>9. Takeable(n.log, q, r.log, g, p, Slots)
  BY <1>5, <1>7, <1>8, SlotsOf, LogsOrdered DEF Takeable, Safe
<1> HIDE DEF n
<1>10. q.prev_log_index + Len(q.entries) <= Len(r.log)
  BY <1>8 DEF MergedAt
<1>11. c <= Len(r.log) /\ c <= Len(p)
  BY SMTT(30), <1>1, <1>2, <1>4, <1>5, <1>10
<1>12. ASSUME NEW j \in 1 .. c PROVE p[j] = r.log[j]
  <2>1. j \in 1 .. Len(p) /\ j <= q.prev_log_index + Len(q.entries)
    BY SMTT(30), <1>2, <1>5, <1>11
  <2> QED BY SMTT(30), <1>1, <1>8, <1>9, <2>1, MergeMatches
<1>13. Agrees(p, r.log, c)
  BY <1>11, <1>12 DEF Agrees
<1>14. Com(Q, p)' /\ Top(p) <= r.term
  BY <1>1, <1>4 DEF ComStays
<1> QED BY <1>11, <1>13, <1>14 DEF Fixed

(* The commit indices of the servers a step leaves alone stay true.         *)
LEMMA OthersFixed ==
  ASSUME Safe, ServerInv, ComStays, NEW x \in Server, node'[x] = node[x], disk'[x].term = disk[x].term
  PROVE  /\ Fixed(node[x].log, node[x].commit, node[x].term)'
         /\ Fixed(node[x].log, node[x].applied, disk[x].term)'
<1>1. PICK n, t : n = node[x] /\ t = disk[x].term
  OBVIOUS
<1>2. /\ n.log \in Seq(Entry) /\ n.commit \in Nat /\ n.applied \in Nat /\ n.term \in Nat /\ t \in Nat
  BY <1>1, LogTyped, NodeTypes DEF Safe, LogTypes
<1>3. /\ Fixed(n.log, n.commit, n.term) /\ Fixed(n.log, n.applied, t)
  BY <1>1 DEF ServerInv
<1>4. \A c \in Nat : c <= Len(n.log) => Agrees(n.log, n.log, c)
  BY DEF Agrees
<1>5. n.applied <= Len(n.log) /\ n.commit <= Len(n.log) /\ n.term <= n.term /\ t <= t
  BY SMTT(30), <1>1, <1>2 DEF ServerInv
<1>6. Fixed(n.log, n.commit, n.term)' /\ Fixed(n.log, n.applied, t)'
  BY <1>2, <1>3, <1>4, <1>5, FixedStays
<1> QED BY <1>1, <1>6 DEF Fixed

(* An input leaves the commit indices true.                                 *)
LEMMA TakesServerInv ==
  ASSUME Safe, Safe', PreInv', ServerInv, ReqInv, ComStays, NEW i \in Server, NEW r, TakesInput(i, r)
  PROVE  ServerInv'
<1>1. Takes(i, r) /\ commit_terms' = commit_terms
  BY DEF TakesInput
<1>2. PICK n, d : n = node[i] /\ d = disk[i].term
  OBVIOUS
<1>3. /\ node'[i] = r /\ \A j \in Server : j # i => node'[j] = node[j]
      /\ disk' = disk /\ n.term \in Nat /\ r.term \in Nat /\ n.term <= r.term
      /\ d \in Nat /\ r.log \in Seq(Entry) /\ n.log \in Seq(Entry)
      /\ n.stable \in Nat /\ r.stable \in Nat
  BY <1>1, <1>2, TakesNodes, LogTyped DEF Takes, Safe, LogTypes
<1>4. n.commit \in Nat /\ n.applied \in Nat /\ r.commit \in Nat
  BY <1>1, <1>2, LogTyped, TakesNodes, NodeTypes DEF Safe, LogTypes
<1>5. d <= n.term
  BY SMTT(30), <1>2, <1>3 DEF Safe, ElectionInv, DiskBehind, Follows
<1>6. /\ n.applied <= n.commit /\ n.applied <= n.stable /\ n.applied <= Len(commit_terms)
      /\ Fixed(n.log, n.commit, n.term) /\ Fixed(n.log, n.applied, d)
  BY <1>2 DEF ServerInv
<1>7. Rests(i, n, r) \/ Grows(i, n, r) \/ Learns(i, n, r) \/ \E q \in net : Receives(i, n, r, q)
  BY <1>1, <1>2 DEF Takes, LogStep
<1>8. r.applied = n.applied
  BY <1>7 DEF Rests, Grows, Learns, Receives
<1>9. n.applied <= r.stable /\ Fixed(r.log, n.applied, d)'
  <2>1. d <= d
    BY SMTT(30), <1>3
  <2> QED BY <1>1, <1>2, <1>3, <1>4, <1>5, <1>6, <2>1, TakesFixed
<1>10. r.applied <= r.commit /\ r.commit <= Len(r.log) /\ Fixed(r.log, r.commit, r.term)'
  <2>1. CASE r.commit = n.commit
    <3>1. n.term <= n.term
      BY SMTT(30), <1>3
    <3>2. Fixed(r.log, n.commit, r.term)' /\ n.commit <= Len(r.log)
      BY <1>1, <1>2, <1>3, <1>4, <1>6, <3>1, TakesFixed
    <3> QED BY <1>6, <1>8, <2>1, <3>2
  <2>2. CASE Learns(i, n, r) /\ CommitsOwn(n, r)
    <3>1. r.role = "leader"
      BY <2>2 DEF Learns
    <3>2. /\ r.commit > n.commit /\ r.commit \in 1 .. Len(r.log)
          /\ r.log[r.commit].term = r.term /\ HasMajority(Server, Replicas(r.match, r.commit))
      BY <2>2 DEF CommitsOwn
    <3>3. CommitReady'
      BY MajorityCommitsNext
    <3>4. Fixed(node[i].log, r.commit, node[i].term)'
      BY <1>3, <3>1, <3>2, <3>3 DEF CommitReady
    <3>5. Fixed(r.log, r.commit, r.term)'
      BY <1>3, <3>4 DEF Fixed
    <3>6. r.applied <= r.commit /\ r.commit <= Len(r.log)
      BY SMTT(30), <1>4, <1>6, <1>8, <3>2
    <3> QED BY <3>5, <3>6
  <2>3. CASE \E q \in net : Receives(i, n, r, q) /\ r.commit # n.commit
    <3>1. PICK q \in net : Receives(i, n, r, q) /\ r.commit # n.commit
      BY <2>3
    <3>2. /\ n.commit < r.commit /\ r.commit <= q.leader_commit
          /\ r.commit <= q.prev_log_index + Len(q.entries)
      BY <3>1 DEF Receives
    <3>3. r.commit # 0 /\ r.applied <= r.commit
      BY SMTT(30), <1>4, <1>6, <1>8, <3>2
    <3>4. Fixed(r.log, r.commit, r.term)' /\ r.commit <= Len(r.log)
      BY <1>1, <1>2, <1>4, <3>1, <3>2, <3>3, ReceivesFixed
    <3> QED BY <3>3, <3>4
  <2> QED BY <1>7, <2>1, <2>2, <2>3 DEF Rests, Grows, Learns
<1>11. /\ Fixed(node[i].log, node[i].commit, node[i].term)'
       /\ Fixed(node[i].log, node[i].applied, disk[i].term)'
  BY <1>2, <1>3, <1>8, <1>9, <1>10 DEF Fixed
<1>12. ASSUME NEW x \in Server, x # i
       PROVE  /\ node'[x] = node[x]
              /\ Fixed(node[x].log, node[x].commit, node[x].term)'
              /\ Fixed(node[x].log, node[x].applied, disk[x].term)'
  <2>1. node'[x] = node[x] /\ disk'[x].term = disk[x].term
    BY <1>3, <1>12
  <2> QED BY <2>1, OthersFixed
<1> QED BY <1>1, <1>3, <1>6, <1>8, <1>9, <1>10, <1>11, <1>12 DEF ServerInv

(* What draining hands to the state machine, once the indices are in order. *)
Applies(i, r) ==
  /\ r.commit = node[i].commit \/ (r.role = "leader" /\ CommitsOwn(node[i], r))
  /\ r.applied = node[i].commit
  /\ applied_log' = applied_log \union
       { [index |-> k, entry |-> node[i].log[k]] : k \in node[i].applied + 1 .. node[i].commit }
  /\ Len(commit_terms') \in Nat /\ Len(commit_terms) \in Nat
  /\ Len(commit_terms) <= Len(commit_terms') /\ node[i].commit <= Len(commit_terms')
  /\ Len(commit_terms') \in {Len(commit_terms), node[i].commit}
  /\ \A k \in 1 .. Len(commit_terms') :
       commit_terms'[k] = IF k <= Len(commit_terms) THEN commit_terms[k] ELSE node[i].term

(* Draining leaves the commit indices true: what is applied was committed   *)
(* before, and is on disk with its term.                                    *)
LEMMA DrainServerInv ==
  ASSUME Safe, Safe', PreInv', ServerInv, ComStays, NEW i \in Server, NEW r,
         Drained(i, r), Applies(i, r)
  PROVE  ServerInv'
<1>1. PICK n : n = node[i]
  OBVIOUS
<1>2. /\ node'[i] = r /\ \A j \in Server : j # i => node'[j] = node[j] /\ disk'[j] = disk[j]
      /\ r.role = n.role /\ r.term = n.term /\ r.log = n.log /\ r.stable = Len(n.log)
      /\ disk'[i].term = n.term
  BY <1>1 DEF Drained
<1>3. /\ n.term \in Nat /\ n.log \in Seq(Entry) /\ n.commit \in Nat /\ n.applied \in Nat
      /\ r.commit \in Nat /\ Len(n.log) \in Nat
  BY <1>1, <1>2, LogTyped, LogTypedNext, NodeTypes DEF Safe, LogTypes
<1>4. /\ n.applied <= n.commit /\ n.commit <= Len(n.log) /\ Fixed(n.log, n.commit, n.term)
      /\ \A x \in Server : node[x].applied <= Len(commit_terms) /\ node[x].applied \in Nat
  BY <1>1, LogTyped, NodeTypes DEF ServerInv, Safe, LogTypes
<1>5. /\ r.commit = n.commit \/ (r.role = "leader" /\ CommitsOwn(n, r))
      /\ r.applied = n.commit
      /\ Len(commit_terms') \in Nat /\ Len(commit_terms) \in Nat
      /\ Len(commit_terms) <= Len(commit_terms') /\ n.commit <= Len(commit_terms')
  BY <1>1 DEF Applies
<1>6. Fixed(n.log, n.commit, n.term)'
  <2>1. Agrees(n.log, n.log, n.commit) /\ n.term <= n.term
    BY SMTT(30), <1>3, <1>4 DEF Agrees
  <2> QED BY <1>3, <1>4, <2>1, FixedStays
<1>7. r.applied <= r.commit /\ r.commit <= Len(n.log) /\ Fixed(n.log, r.commit, n.term)'
  <2>1. CASE r.commit = n.commit
    BY SMTT(30), <1>3, <1>4, <1>5, <1>6, <2>1
  <2>2. CASE r.role = "leader" /\ CommitsOwn(n, r)
    <3>1. /\ r.commit > n.commit /\ r.commit \in 1 .. Len(r.log)
          /\ r.log[r.commit].term = r.term /\ HasMajority(Server, Replicas(r.match, r.commit))
      BY <2>2 DEF CommitsOwn
    <3>2. CommitReady'
      BY MajorityCommitsNext
    <3>3. Fixed(node[i].log, r.commit, node[i].term)'
      BY <1>2, <2>2, <3>1, <3>2 DEF CommitReady
    <3>4. Fixed(n.log, r.commit, n.term)'
      BY <1>2, <3>3 DEF Fixed
    <3>5. r.applied <= r.commit /\ r.commit <= Len(n.log)
      BY SMTT(30), <1>2, <1>3, <1>5, <3>1
    <3> QED BY <3>4, <3>5
  <2> QED BY <1>5, <2>1, <2>2
<1>8. /\ Fixed(node[i].log, node[i].commit, node[i].term)'
      /\ Fixed(node[i].log, node[i].applied, disk[i].term)'
  BY <1>2, <1>5, <1>6, <1>7 DEF Fixed
<1>9. ASSUME NEW x \in Server, x # i
      PROVE  /\ node'[x] = node[x]
             /\ Fixed(node[x].log, node[x].commit, node[x].term)'
             /\ Fixed(node[x].log, node[x].applied, disk[x].term)'
  <2>1. node'[x] = node[x] /\ disk'[x].term = disk[x].term
    BY <1>2, <1>9
  <2> QED BY <2>1, OthersFixed
<1>10. \A x \in Server : node'[x].applied <= Len(commit_terms')
  BY SMTT(30), <1>2, <1>4, <1>5
<1>11. node'[i].applied <= node'[i].stable /\ node'[i].applied <= node'[i].commit
       /\ node'[i].commit <= Len(node'[i].log)
  BY <1>2, <1>4, <1>5, <1>7
<1> QED BY <1>8, <1>9, <1>10, <1>11 DEF ServerInv

(* A crash leaves them true: what was applied is in the part of the log     *)
(* that no crash takes back.                                                *)
LEMMA RestartServerInv ==
  ASSUME Safe, TypeInv', ServerInv, ComStays, NEW i \in Server, NEW d, NEW a, Restarted(i, d, a)
  PROVE  ServerInv'
<1>1. PICK n, t : n = node[i] /\ t = disk[i].term
  OBVIOUS
<1>2. /\ \A j \in Server : j # i => node'[j] = node[j] /\ disk'[j] = disk[j]
      /\ node'[i] = InitNode(d, a) /\ disk'[i] = d /\ commit_terms' = commit_terms
      /\ a \in {0, n.applied} /\ Torn(disk[i], n, d) /\ ValidRestore(d, a)
  BY <1>1 DEF Restarted
<1>3. /\ node'[i].log = d.log /\ node'[i].term = d.term /\ node'[i].commit = a
      /\ node'[i].applied = a /\ node'[i].stable = Len(d.log)
  BY SMTT(30), <1>2 DEF InitNode
<1>4. /\ n.log \in Seq(Entry) /\ n.applied \in Nat /\ t \in Nat /\ n.stable \in Nat
      /\ d.log \in Seq(Entry) /\ d.term \in Nat /\ Len(d.log) \in Nat
  BY <1>1, <1>2, LogTyped, LogTypedNext, NodeTypes DEF Safe, LogTypes
<1>5. /\ n.applied <= n.stable /\ n.applied <= Len(commit_terms) /\ Fixed(n.log, n.applied, t)
      /\ n.applied <= Len(n.log)
  BY SMTT(30), <1>1, LogTyped, NodeTypes DEF ServerInv, Safe, LogTypes
<1>6. t <= d.term
  BY <1>1, <1>2, RestartCopies DEF Copies
<1>7. Agrees(n.log, d.log, n.applied)
  <2>1. n.stable <= Len(d.log) /\ \A k \in 1 .. n.stable : d.log[k] = n.log[k]
    BY <1>2 DEF Torn
  <2> QED BY SMTT(30), <1>4, <1>5, <2>1 DEF Agrees
<1>8. Fixed(d.log, n.applied, d.term)'
  BY <1>4, <1>5, <1>6, <1>7, FixedStays
<1>9. Fixed(d.log, a, d.term)'
  <2>1. CASE a = 0
    BY <2>1 DEF Fixed
  <2> QED BY <1>2, <1>8, <2>1
<1>10. /\ Fixed(node[i].log, node[i].commit, node[i].term)'
       /\ Fixed(node[i].log, node[i].applied, disk[i].term)'
  BY <1>2, <1>3, <1>9 DEF Fixed
<1>11. /\ a <= a /\ a <= Len(d.log) /\ a <= Len(commit_terms)
  <2>1. commit_terms \in Seq(Term)
    BY DEF Safe, TypeInv, TypeOK
  <2>2. Len(commit_terms) \in Nat
    BY SMTT(30), <2>1
  <2> QED BY SMTT(30), <1>2, <1>4, <1>5, <2>2 DEF ValidRestore
<1>12. ASSUME NEW x \in Server, x # i
       PROVE  /\ node'[x] = node[x]
              /\ Fixed(node[x].log, node[x].commit, node[x].term)'
              /\ Fixed(node[x].log, node[x].applied, disk[x].term)'
  <2>1. node'[x] = node[x] /\ disk'[x].term = disk[x].term
    BY <1>2, <1>12
  <2> QED BY <2>1, OthersFixed
<1> QED BY <1>2, <1>3, <1>10, <1>11, <1>12 DEF ServerInv

-----------------------------------------------------------------------------
(* The commit index of requests *)

(* What a request in flight says is committed stays committed.              *)
LEMMA RequestStays ==
  ASSUME ReqInv, ComStays, NEW m \in Requests
  PROVE  (m.leader_commit = 0 \/ \E Q \in SUBSET Server : \E p \in Seq(Entry) :
            Com(Q, p) /\ Top(p) <= m.term /\ m.leader_commit <= Len(p))'
<1>1. CASE m.leader_commit = 0
  BY <1>1
<1>2. CASE m.leader_commit # 0
  <2>1. PICK Q \in SUBSET Server, p \in Seq(Entry) :
          Com(Q, p) /\ Top(p) <= m.term /\ m.leader_commit <= Len(p)
    BY <1>2 DEF ReqInv
  <2>2. Com(Q, p)'
    BY <2>1 DEF ComStays
  <2> QED BY <2>1, <2>2
<1> QED BY <1>1, <1>2

(* An input leaves it true: a new request carries the sender's index.       *)
LEMMA TakesReqInv ==
  ASSUME Safe, ReqInv, ServerInv', ComStays, NEW i \in Server, NEW r, Takes(i, r)
  PROVE  ReqInv'
<1>1. node'[i] = r
  BY TakesNodes
<1> SUFFICES ASSUME NEW m \in Requests'
             PROVE  (m.leader_commit = 0 \/ \E Q \in SUBSET Server : \E p \in Seq(Entry) :
                       Com(Q, p) /\ Top(p) <= m.term /\ m.leader_commit <= Len(p))'
  BY DEF ReqInv
<1>2. m \in Requests \/ (m.type = "append_req" /\ m \in r.msgs \ node[i].msgs)
  BY TakesMail DEF Requests
<1>3. CASE m \in r.msgs \ node[i].msgs /\ m.type = "append_req"
  <2>1. Says(i, r, m)
    BY <1>3 DEF Takes, LogStep
  <2>2. m.leader_commit = r.commit /\ m.term = r.term
    BY <1>3, <2>1 DEF Says
  <2>3. Fixed(node[i].log, node[i].commit, node[i].term)'
    BY DEF ServerInv
  <2> QED BY <1>1, <2>2, <2>3 DEF Fixed, Agrees
<1> QED BY <1>2, <1>3, RequestStays

(* So does a drain, which sends the heartbeats that were scheduled.         *)
LEMMA DrainReqInv ==
  ASSUME Safe, TypeInv', ReqInv, ServerInv, ComStays, NEW i \in Server, NEW r, Drained(i, r)
  PROVE  ReqInv'
<1> SUFFICES ASSUME NEW m \in Requests'
             PROVE  (m.leader_commit = 0 \/ \E Q \in SUBSET Server : \E p \in Seq(Entry) :
                       Com(Q, p) /\ Top(p) <= m.term /\ m.leader_commit <= Len(p))'
  BY DEF ReqInv
<1>1. m \in Requests \/ (m.type = "append_req" /\ Says(i, node[i], m))
  BY DrainCopies DEF Requests
<1>2. CASE m.type = "append_req" /\ Says(i, node[i], m) /\ m.leader_commit # 0
  <2>1. m.leader_commit = node[i].commit /\ m.term = node[i].term
    BY <1>2 DEF Says
  <2>2. Fixed(node[i].log, node[i].commit, node[i].term)
    BY DEF ServerInv
  <2>3. PICK Q \in SUBSET Server, p \in Seq(Entry) :
          Com(Q, p) /\ Top(p) <= m.term /\ m.leader_commit <= Len(p)
    BY <1>2, <2>1, <2>2 DEF Fixed, Agrees
  <2>4. Com(Q, p)'
    BY <2>3 DEF ComStays
  <2> QED BY <2>3, <2>4
<1>3. CASE m.leader_commit = 0
  BY <1>3
<1> QED BY <1>1, <1>2, <1>3, RequestStays

(* A crash adds no request.                                                 *)
LEMMA RestartReqInv ==
  ASSUME Safe, TypeInv', ReqInv, ComStays, NEW i \in Server, NEW d, NEW a, Restarted(i, d, a)
  PROVE  ReqInv'
<1>1. Requests' \subseteq Requests
  BY RestartCopies DEF Requests
<1> QED BY <1>1, RequestStays DEF ReqInv

-----------------------------------------------------------------------------
(* The record of applied entries *)

(* Entry e was applied as part of a committed prefix.                       *)
Justified(e, t) ==
  \E Q \in SUBSET Server : \E p \in Seq(Entry) :
    Com(Q, p) /\ Top(p) <= t /\ e.index <= Len(p) /\ p[e.index] = e.entry

(* It stays so.                                                             *)
LEMMA JustifiedStays ==
  ASSUME ComStays, NEW e, NEW t, Justified(e, t)
  PROVE  Justified(e, t)'
<1>1. PICK Q \in SUBSET Server, p \in Seq(Entry) :
        Com(Q, p) /\ Top(p) <= t /\ e.index <= Len(p) /\ p[e.index] = e.entry
  BY DEF Justified
<1>2. Com(Q, p)'
  BY <1>1 DEF ComStays
<1> QED BY <1>1, <1>2 DEF Justified

(* A step that applies nothing leaves the record true.                      *)
LEMMA RecordStays ==
  ASSUME AppliedInv, ComStays, applied_log' = applied_log, commit_terms' = commit_terms
  PROVE  AppliedInv'
<1>1. ASSUME NEW e \in applied_log
      PROVE  e.index \in 1 .. Len(commit_terms) /\ Justified(e, commit_terms[e.index])'
  <2>1. PICK t : t = commit_terms[e.index]
    OBVIOUS
  <2>2. e.index \in 1 .. Len(commit_terms) /\ Justified(e, t)
    BY <1>1, <2>1 DEF AppliedInv, Justified
  <2>3. Justified(e, t)'
    BY <2>2, JustifiedStays
  <2> QED BY <2>1, <2>2, <2>3 DEF Justified
<1> QED BY <1>1 DEF AppliedInv, Justified

(* Draining adds entries that are committed; where something was applied at *)
(* the index before, it is the same entry, and the term of the commit is    *)
(* the one recorded first.                                                  *)
LEMMA DrainAppliedInv ==
  ASSUME Safe, AppliedInv, ServerInv, ComStays, NEW i \in Server, NEW r, Applies(i, r)
  PROVE  AppliedInv'
<1>1. PICK n, L, M : n = node[i] /\ L = Len(commit_terms) /\ M = Len(commit_terms')
  OBVIOUS
<1>2. /\ M \in Nat /\ L \in Nat /\ L <= M /\ n.commit <= M /\ M \in {L, n.commit}
      /\ applied_log' = applied_log \union
           { [index |-> k, entry |-> n.log[k]] : k \in n.applied + 1 .. n.commit }
      /\ \A k \in 1 .. M : commit_terms'[k] = IF k <= L THEN commit_terms[k] ELSE n.term
  BY <1>1 DEF Applies
<1>3. n.commit \in Nat /\ n.applied \in Nat /\ n.term \in Nat /\ n.applied <= L
      /\ Fixed(n.log, n.commit, n.term)
  BY <1>1, LogTyped, NodeTypes DEF Safe, LogTypes, ServerInv
<1>4. \A e \in applied_log : e.index \in 1 .. L /\ Justified(e, commit_terms[e.index])
  BY <1>1 DEF AppliedInv, Justified
<1>5. ASSUME NEW e \in applied_log
      PROVE  e.index \in 1 .. M /\ Justified(e, commit_terms[e.index])'
  <2>1. PICK t : t = commit_terms[e.index]
    OBVIOUS
  <2>2. Justified(e, t)'
    BY <1>4, <2>1, JustifiedStays
  <2>3. e.index \in 1 .. M /\ commit_terms'[e.index] = t
    BY SMTT(30), <1>2, <1>4, <2>1
  <2> QED BY <2>2, <2>3 DEF Justified
<1>6. ASSUME NEW k \in n.applied + 1 .. n.commit, NEW e, e = [index |-> k, entry |-> n.log[k]]
      PROVE  e.index \in 1 .. M /\ Justified(e, commit_terms[e.index])'
  <2>1. k \in Nat /\ 1 <= k /\ k <= n.commit /\ n.commit # 0 /\ k \in 1 .. M
    BY SMTT(30), <1>2, <1>3
  <2>2. PICK Q \in SUBSET Server, p \in Seq(Entry) :
          Com(Q, p) /\ Top(p) <= n.term /\ Agrees(p, n.log, n.commit)
    BY <1>3, <2>1 DEF Fixed
  <2>3. k <= Len(p) /\ p[k] = n.log[k]
    BY SMTT(30), <1>3, <2>1, <2>2 DEF Agrees
  <2>4. e.index = k /\ e.entry = n.log[k]
    BY <1>6
  <2>5. CASE k <= L
    <3>1. PICK f \in applied_log : f.index = k
      BY SMTT(30), <1>1, <1>2, <2>1, <2>5 DEF AppliedInv
    <3>2. PICK t : t = commit_terms[k]
      OBVIOUS
    <3>3. Justified(f, t)
      BY <1>4, <3>1, <3>2
    <3>4. PICK P \in SUBSET Server, q \in Seq(Entry) :
            Com(P, q) /\ Top(q) <= t /\ f.index <= Len(q) /\ q[f.index] = f.entry
      BY <3>3 DEF Justified
    <3>5. p[k] = q[k]
      BY SMTT(30), <2>1, <2>2, <2>3, <3>1, <3>4, ComsAgree
    <3>6. Justified(e, t)
      BY <2>3, <2>4, <3>1, <3>4, <3>5 DEF Justified
    <3>7. Justified(e, t)'
      BY <3>6, JustifiedStays
    <3>8. commit_terms'[k] = t
      BY <1>2, <2>1, <2>5, <3>2
    <3> QED BY <2>1, <2>4, <3>7, <3>8 DEF Justified
  <2>6. CASE ~(k <= L)
    <3>1. PICK t : t = n.term
      OBVIOUS
    <3>2. Justified(e, t)
      BY <2>2, <2>3, <2>4, <3>1 DEF Justified
    <3>3. Justified(e, t)'
      BY <3>2, JustifiedStays
    <3>4. commit_terms'[k] = t
      BY <1>2, <2>1, <2>6, <3>1
    <3> QED BY <2>1, <2>4, <3>3, <3>4 DEF Justified
  <2> QED BY <2>5, <2>6
<1>7. ASSUME NEW e \in applied_log'
      PROVE  e.index \in 1 .. M /\ Justified(e, commit_terms[e.index])'
  BY <1>2, <1>5, <1>6, <1>7
<1>8. ASSUME NEW k \in 1 .. M PROVE \E e \in applied_log' : e.index = k
  <2>1. CASE k <= L
    <3>1. k \in 1 .. L
      BY SMTT(30), <1>2, <2>1
    <3>2. PICK e \in applied_log : e.index = k
      BY <1>1, <3>1 DEF AppliedInv
    <3> QED BY <1>2, <3>2
  <2>2. CASE ~(k <= L)
    <3>1. k \in n.applied + 1 .. n.commit
      BY SMTT(30), <1>2, <1>3, <2>2
    <3>2. [index |-> k, entry |-> n.log[k]] \in applied_log'
      BY <1>2, <3>1
    <3> QED BY <3>2
  <2> QED BY <2>1, <2>2
<1> QED BY <1>1, <1>7, <1>8 DEF AppliedInv, Justified

(* What draining applies, given that the indices are in order.              *)
LEMMA AppliesReady ==
  ASSUME Safe, ServerInv, NEW i \in Server, NEW r, Applied(i, r)
  PROVE  Applies(i, r)
<1>1. PICK n, t, c : n = node[i] /\ t = n.term /\ c = n.commit
  OBVIOUS
<1>2. /\ c \in Nat /\ n.applied \in Nat /\ Len(n.log) \in Nat /\ t \in Nat
      /\ n.applied <= c /\ c <= Len(n.log)
  BY <1>1, LogTyped, NodeTypes DEF Safe, LogTypes, ServerInv
<1>3. ReadyCommit(n) = c
  <2>1. Min({c, Len(n.log)}) = c
    BY SMTT(30), <1>2 DEF Min
  <2>2. Max({n.applied, c}) = c
    BY SMTT(30), <1>2 DEF Max
  <2> QED BY <1>1, <2>1, <2>2 DEF ReadyCommit, LastIndex
<1>4. /\ r.commit = n.commit \/ (r.role = "leader" /\ CommitsOwn(n, r))
      /\ r.applied = c /\ applied_log' = applied_log \union Committed(n)
      /\ commit_terms' = commit_terms \o [k \in 1 .. Max({0, c - Len(commit_terms)}) |-> t]
  BY <1>1, <1>3 DEF Applied
<1>5. Committed(n) = { [index |-> k, entry |-> n.log[k]] : k \in n.applied + 1 .. c }
  BY <1>3 DEF Committed
<1>6. commit_terms \in Seq(Term) /\ Len(commit_terms) \in Nat /\ t \in Term
  <2>1. commit_terms \in Seq(Term)
    BY DEF Safe, TypeInv, TypeOK
  <2>2. t \in Term
    BY <1>1, NodeTypes, LogTyped DEF Safe, LogTypes
  <2> QED BY SMTT(30), <2>1, <2>2
<1>7. PICK L, z : L = Len(commit_terms) /\ z = Max({0, c - L})
  OBVIOUS
<1>8. z = IF c <= L THEN 0 ELSE c - L
  BY SMTT(30), <1>2, <1>6, <1>7 DEF Max
<1>9. z \in Nat
  BY SMTT(30), <1>2, <1>6, <1>7, <1>8
<1> DEFINE f == [k \in 1 .. z |-> t]
<1>10. f \in Seq(Term) /\ Len(f) = z /\ \A k \in 1 .. z : f[k] = t
  BY SMTT(30), <1>6, <1>9
<1>11. commit_terms' = commit_terms \o f
  BY <1>4, <1>7
<1> HIDE DEF f
<1>12. /\ Len(commit_terms \o f) = L + z
       /\ \A k \in 1 .. L + z : (commit_terms \o f)[k] = IF k <= L THEN commit_terms[k] ELSE f[k - L]
  <2>1. PICK s : s = commit_terms
    OBVIOUS
  <2>2. s \in Seq(Term) /\ Len(s) = L
    BY <1>6, <1>7, <2>1
  <2>3. /\ Len(s \o f) = Len(s) + Len(f)
        /\ \A k \in 1 .. Len(s) + Len(f) : (s \o f)[k] = IF k <= Len(s) THEN s[k] ELSE f[k - Len(s)]
    BY SMTT(30), <1>10, <2>2
  <2> QED BY <1>10, <2>1, <2>2, <2>3
<1>13. \A k \in 1 .. L + z : commit_terms'[k] = IF k <= L THEN commit_terms[k] ELSE t
  <2> SUFFICES ASSUME NEW k \in 1 .. L + z
               PROVE  commit_terms'[k] = IF k <= L THEN commit_terms[k] ELSE t
    OBVIOUS
  <2>1. commit_terms'[k] = IF k <= L THEN commit_terms[k] ELSE f[k - L]
    BY <1>11, <1>12
  <2>2. ~(k <= L) => k - L \in 1 .. z
    BY SMTT(30), <1>6, <1>7, <1>9
  <2> QED BY <1>10, <2>1, <2>2
<1>14. Len(commit_terms') = IF c <= L THEN L ELSE c
  BY SMTT(30), <1>2, <1>6, <1>7, <1>8, <1>11, <1>12
<1>15. L \in Nat /\ Len(commit_terms') \in Nat
  BY <1>2, <1>6, <1>7, <1>14
<1>16. Len(commit_terms') = L + z
  BY <1>11, <1>12
<1>17. L <= Len(commit_terms') /\ c <= Len(commit_terms') /\ Len(commit_terms') \in {L, c}
  BY SMTT(30), <1>2, <1>14, <1>15
<1> QED BY <1>1, <1>4, <1>5, <1>7, <1>13, <1>15, <1>16, <1>17 DEF Applies

-----------------------------------------------------------------------------
(* All steps *)

(* A fresh cluster has committed nothing.                                   *)
LEMMA CommitInit == Init => CommitInv
<1> SUFFICES ASSUME Init PROVE CommitInv
  OBVIOUS
<1>1. /\ \A i \in Server :
           /\ node[i].role = "follower" /\ node[i].log = <<>> /\ node[i].stable = 0
           /\ node[i].commit = 0 /\ node[i].applied = 0 /\ node[i].msgs = {}
      /\ net = {} /\ applied_log = {} /\ commit_terms = <<>>
  BY DEF Init, InitNode, EmptyDisk
<1>2. Mail = {} /\ Requests = {}
  BY SMTT(30), <1>1 DEF Mail, Requests
<1>3. ServerInv
  BY SMTT(30), <1>1 DEF ServerInv, Fixed
<1> QED BY SMTT(30), <1>1, <1>2, <1>3 DEF CommitInv, PreInv, VoteReqInv, ReqInv, AppliedInv

(* Every step preserves the invariant of commitment.                        *)
LEMMA CommitStepKeeps ==
  ASSUME Safe, Safe', CommitInv, ClusterStep
  PROVE  CommitInv'
<1>1. PreInv /\ VoteReqInv /\ ServerInv /\ ReqInv /\ AppliedInv /\ TypeInv'
  BY DEF CommitInv, Safe
<1>2. PICK i \in Server : \/ \E r : Drained(i, r) /\ Applied(i, r)
                         \/ \E d, a : Restarted(i, d, a)
                         \/ \E r : TakesInput(i, r)
  BY DEF ClusterStep
<1>3. CASE \E r : Drained(i, r) /\ Applied(i, r)
  <2>1. PICK r : Drained(i, r) /\ Applied(i, r)
    BY <1>3
  <2>2. Applies(i, r)
    BY <1>1, <2>1, AppliesReady
  <2>3. ComStays
    BY <1>1, <2>1, ComDrain DEF ComStays
  <2>4. PreInv'
    BY <1>1, <2>1, DrainPreInv
  <2>5. VoteReqInv'
    BY <1>1, <2>1, DrainVoteReqInv
  <2>6. ServerInv'
    BY <1>1, <2>1, <2>2, <2>3, <2>4, DrainServerInv
  <2>7. ReqInv'
    BY <1>1, <2>1, <2>3, DrainReqInv
  <2>8. AppliedInv'
    BY SMTT(30), <1>1, <2>2, <2>3, DrainAppliedInv
  <2> QED BY <2>4, <2>5, <2>6, <2>7, <2>8 DEF CommitInv
<1>4. CASE \E d, a : Restarted(i, d, a)
  <2>1. PICK d, a : Restarted(i, d, a)
    BY <1>4
  <2>2. ComStays
    BY <1>1, <2>1, ComRestart DEF ComStays
  <2>3. PreInv'
    BY <1>1, <2>1, RestartPreInv
  <2>4. VoteReqInv'
    BY <1>1, <2>1, RestartVoteReqInv
  <2>5. ServerInv'
    BY <1>1, <2>1, <2>2, RestartServerInv
  <2>6. ReqInv'
    BY <1>1, <2>1, <2>2, RestartReqInv
  <2>7. applied_log' = applied_log /\ commit_terms' = commit_terms
    BY <2>1 DEF Restarted
  <2>8. AppliedInv'
    BY SMTT(30), <1>1, <2>2, <2>7, RecordStays
  <2> QED BY <2>3, <2>4, <2>5, <2>6, <2>8 DEF CommitInv
<1>5. CASE \E r : TakesInput(i, r)
  <2>1. PICK r : TakesInput(i, r)
    BY <1>5
  <2>2. Takes(i, r) /\ applied_log' = applied_log /\ commit_terms' = commit_terms
    BY <2>1 DEF TakesInput
  <2>3. ComStays
    BY <1>1, <2>2, ComTakes DEF ComStays
  <2>4. PreInv'
    BY <1>1, <2>2, TakesPreInv
  <2>5. VoteReqInv'
    BY <1>1, <2>2, TakesVoteReqInv
  <2>6. ServerInv'
    BY <1>1, <2>1, <2>3, <2>4, TakesServerInv
  <2>7. ReqInv'
    BY <1>1, <2>2, <2>3, <2>6, TakesReqInv
  <2>8. AppliedInv'
    BY <1>1, <2>2, <2>3, RecordStays
  <2> QED BY <2>4, <2>5, <2>6, <2>7, <2>8 DEF CommitInv
<1> QED BY <1>2, <1>3, <1>4, <1>5

-----------------------------------------------------------------------------
(* What the invariant implies *)

(* A leader holds what was applied in a term up to its own.                 *)
LEMMA SafeComplete == Safe /\ CommitInv => LeaderCompleteness
<1> SUFFICES ASSUME Safe, CommitInv, NEW i \in Server, NEW e \in applied_log,
                    node[i].role = "leader", commit_terms[e.index] <= node[i].term
             PROVE  e.index <= LastIndex(node[i].log) /\ node[i].log[e.index] = e.entry
  BY DEF LeaderCompleteness
<1>1. PICK Q \in SUBSET Server, p \in Seq(Entry) :
        /\ Com(Q, p) /\ Top(p) <= commit_terms[e.index]
        /\ e.index <= Len(p) /\ p[e.index] = e.entry
  BY DEF CommitInv, AppliedInv
<1>2. e.index \in 1 .. Len(commit_terms)
  BY DEF CommitInv, AppliedInv
<1>3. HasMajority(Server, Q) /\ Keeps(Q, Q, p) /\ Len(p) # 0
  BY <1>1 DEF Com, Keeps
<1>4. PICK w \in Q : TRUE
  BY SMTT(30), <1>3 DEF Safe, Majorities
<1>5. LogSlots(p) \subseteq Slots
  BY <1>3, <1>4, HolderSlots
<1>6. Top(p) <= node[i].term
  <2>1. Top(p) \in Nat /\ node[i].term \in Nat
    BY <1>3, TopType, LogTyped DEF Safe, LogTypes
  <2>2. commit_terms[e.index] \in Nat
    <3>1. commit_terms \in Seq(Term)
      BY DEF Safe, TypeInv, TypeOK
    <3>2. commit_terms[e.index] \in Term
      BY SMTT(30), <1>2, <3>1
    <3> QED BY SMTT(30), <3>2, MaxTermAssumption DEF Term
  <2> QED BY SMTT(30), <1>1, <2>1, <2>2
<1>7. Prefix(p, node[i].log)
  BY <1>3, <1>5, <1>6, LeaderHolds
<1>8. Len(p) \in Nat /\ Len(node[i].log) \in Nat /\ e.index \in Nat /\ e.index >= 1
  BY SMTT(30), <1>2, LogTyped DEF Safe, LogTypes
<1> QED BY SMTT(30), <1>1, <1>7, <1>8 DEF Prefix, LastIndex

(* No two applied entries differ at an index.                               *)
LEMMA SafeMachines == Safe /\ CommitInv => StateMachineSafety
<1> SUFFICES ASSUME Safe, CommitInv, NEW a \in applied_log, NEW b \in applied_log,
                    a.index = b.index
             PROVE  a.entry = b.entry
  BY DEF StateMachineSafety
<1>1. PICK Q \in SUBSET Server, p \in Seq(Entry) :
        Com(Q, p) /\ a.index <= Len(p) /\ p[a.index] = a.entry
  BY DEF CommitInv, AppliedInv
<1>2. PICK P \in SUBSET Server, q \in Seq(Entry) :
        Com(P, q) /\ b.index <= Len(q) /\ q[b.index] = b.entry
  BY DEF CommitInv, AppliedInv
<1>3. a.index \in Nat /\ 1 <= a.index
  <2>1. a.index \in 1 .. Len(commit_terms)
    BY DEF CommitInv, AppliedInv
  <2> QED BY SMTT(30), <2>1
<1>4. p[a.index] = q[a.index]
  BY SMTT(30), <1>1, <1>2, <1>3, ComsAgree
<1> QED BY <1>1, <1>2, <1>4

(* applied, commit and stable are in order.                                 *)
LEMMA SafeIndices == Safe /\ CommitInv => IndicesOrdered
<1> SUFFICES ASSUME Safe, CommitInv, NEW i \in Server
             PROVE  /\ node[i].applied <= node[i].commit
                    /\ node[i].commit <= LastIndex(node[i].log)
                    /\ node[i].stable <= LastIndex(node[i].log)
  BY DEF IndicesOrdered
<1>1. node[i].stable <= Len(node[i].log)
  BY LogTyped DEF Safe, LogTypes
<1> QED BY <1>1 DEF CommitInv, ServerInv, LastIndex

(* What a server regards as committed is on the disks of a majority.        *)
LEMMA SafeDisks == Safe /\ CommitInv => CommittedIsDurable
<1> SUFFICES ASSUME Safe, CommitInv, NEW i \in Server, NEW k \in 1 .. node[i].commit
             PROVE  HasMajority(Server, { j \in Server : k <= Len(disk[j].log)
                                                         /\ disk[j].log[k] = node[i].log[k] })
  BY DEF CommittedIsDurable
<1> DEFINE P == { j \in Server : k <= Len(disk[j].log) /\ disk[j].log[k] = node[i].log[k] }
<1>1. node[i].commit \in Nat /\ k \in Nat /\ 1 <= k /\ k <= node[i].commit /\ node[i].commit # 0
  BY SMTT(30), LogTyped, NodeTypes DEF Safe, LogTypes
<1>2. Fixed(node[i].log, node[i].commit, node[i].term)
  BY DEF CommitInv, ServerInv
<1>3. PICK Q \in SUBSET Server, p \in Seq(Entry) : Com(Q, p) /\ Agrees(p, node[i].log, node[i].commit)
  BY <1>1, <1>2 DEF Fixed
<1>4. Len(p) \in Nat /\ k <= Len(p) /\ p[k] = node[i].log[k]
  BY SMTT(30), <1>1, <1>3 DEF Agrees
<1>5. ASSUME NEW w \in Q PROVE k <= Len(disk[w].log) /\ disk[w].log[k] = node[i].log[k]
  <2>1. PICK n, b : n = node[w] /\ b = disk[w].log
    OBVIOUS
  <2>2. /\ n.stable \in Nat /\ Len(b) \in Nat /\ Len(n.log) \in Nat
        /\ n.truncated \in Nat \union {None}
    BY <2>1, LogTyped, NodeTypes DEF Safe, LogTypes
  <2>3. Mirrors(disk[w], n)
    BY <2>1 DEF Safe, LogInv, DiskInv
  <2>4. n.stable <= Len(b) /\ \A j \in 1 .. n.stable : b[j] = n.log[j]
    BY SMTT(30), <2>1, <2>2, <2>3 DEF Mirrors
  <2>5. Prefix(p, n.log) /\ Len(p) <= n.stable
    BY <1>3, <2>1 DEF Com, Keeps
  <2>6. k \in 1 .. n.stable /\ k \in 1 .. Len(p)
    BY SMTT(30), <1>1, <1>4, <2>2, <2>5
  <2>7. b[k] = n.log[k] /\ n.log[k] = p[k] /\ k <= Len(b)
    BY SMTT(30), <2>2, <2>4, <2>5, <2>6 DEF Prefix
  <2> QED BY <1>4, <2>1, <2>7
<1>6. P \in SUBSET Server /\ Q \in SUBSET P
  BY <1>5
<1>7. HasMajority(Server, Q)
  BY <1>3 DEF Com
<1> HIDE DEF P
<1>8. HasMajority(Server, P)
  BY <1>6, <1>7 DEF Safe, Majorities
<1> QED BY <1>8 DEF P

=============================================================================
