----------------------------- MODULE RaftSteps ------------------------------
(*****************************************************************************)
(* What each handler of node.zig, and each write of its drivers, does to    *)
(* the log, to the indices into it and to the messages; and from that, what *)
(* a step of the cluster is: one server drains a batch, starts again from   *)
(* its disk, or takes an input.  The invariants of the log and of the       *)
(* commit are shown to hold over these three kinds of step.                 *)
(*****************************************************************************)
EXTENDS RaftHandlers, RaftLogInv

(* Zenon proves the steps, unless they name another prover; it gets the     *)
(* time a loaded machine may need.                                          *)
USE ZenonT(30)

-----------------------------------------------------------------------------
(* Sending *)

(* From n to r only requests of the leader are queued.                      *)
Posts(i, n, r) ==
  /\ r.term = n.term /\ r.role = n.role /\ r.leader = n.leader
  /\ r.log = n.log /\ r.stable = n.stable /\ r.truncated = n.truncated
  /\ r.applied = n.applied /\ r.commit = n.commit /\ r.match = n.match
  /\ r.malformed_dropped = n.malformed_dropped
  /\ r.bcast_pending => n.bcast_pending
  /\ \A m \in r.msgs \ n.msgs : m.type = "append_req" /\ Says(i, r, m)

(* sendAppend builds a slice of the leader's log, under its term and with   *)
(* its commit index.                                                        *)
LEMMA AppendReqSlice ==
  ASSUME NEW i \in Server, NEW n, Bounded(n), Sendable(i, n), n.role = "leader",
         NEW p \in Peers(i), NEW m, m = AppendReqTo(i, n, p)
  PROVE  m.type = "append_req" /\ Says(i, n, m)
<1> DEFINE prev  == n.next[p] - 1
           count == Min({LastIndex(n.log) - prev, MaxAppend})
           es    == SubSeq(n.log, prev + 1, prev + count)
<1>1. n.log \in Seq(Entry) /\ n.next[p] \in Nat /\ n.match[p] \in Nat /\ p # i
  BY DEF Bounded, NodeType, Peers
<1>2. prev \in Nat /\ prev <= Len(n.log)
  BY SMTT(30), <1>1 DEF Sendable, LastIndex
<1>3. m = [type |-> "append_req", from |-> i, to |-> p, term |-> n.term,
           prev_log_index |-> prev, prev_log_term |-> TermAt(n.log, prev),
           leader_commit |-> n.commit, entries |-> es]
  BY DEF AppendReqTo
<1> HIDE DEF prev
<1>4. count \in Nat /\ prev + count <= Len(n.log) /\ count <= MaxAppend
  <2>1. LastIndex(n.log) - prev \in Nat /\ MaxAppend \in Nat
    BY SMTT(30), <1>1, <1>2, MaxAppendAssumption DEF LastIndex
  <2>2. count \in Nat /\ count <= LastIndex(n.log) - prev /\ count <= MaxAppend
    BY SMTT(30), <2>1, MinPair
  <2> HIDE DEF count
  <2> QED BY SMTT(30), <2>2, <1>1, <1>2 DEF LastIndex
<1> HIDE DEF count
<1>5. Len(es) = count /\ \A k \in 1 .. count : es[k] = n.log[prev + k]
  <2>1. prev + 1 \in 1 .. Len(n.log) + 1 /\ prev + count \in prev .. Len(n.log)
    BY SMTT(30), <1>1, <1>2, <1>4
  <2>2. /\ Len(es) = IF prev + 1 <= prev + count THEN (prev + count) - (prev + 1) + 1 ELSE 0
        /\ \A k \in 1 .. Len(es) : es[k] = n.log[(prev + 1) + k - 1]
    BY SMTT(30), <1>1, <1>2, <1>4, <2>1, SubSeqProperties
  <2> HIDE DEF es
  <2>3. Len(es) = count
    BY SMTT(30), <1>2, <1>4, <2>2
  <2>4. \A k \in 1 .. count : (prev + 1) + k - 1 = prev + k
    BY SMTT(30), <1>2, <1>4
  <2> QED BY SMTT(30), <2>2, <2>3, <2>4
<1> HIDE DEF es
<1>6. SliceOf(m, n.log)
  BY SMTT(30), <1>3, <1>4, <1>5 DEF SliceOf
<1> QED BY SMTT(30), <1>1, <1>3, <1>4, <1>5, <1>6 DEF Says

(* Queueing requests for some peers.                                        *)
LEMMA SendPosts ==
  ASSUME NEW i \in Server, NEW n, Bounded(n), Sendable(i, n), n.role = "leader",
         NEW ps \in SUBSET Peers(i), NEW r,
         r = Send(n, {AppendReqTo(i, n, p) : p \in ps})
  PROVE  Posts(i, n, r)
<1> DEFINE ms == {AppendReqTo(i, n, p) : p \in ps}
<1>1. \A m \in ms : m.type = "append_req" /\ Says(i, n, m)
  BY AppendReqSlice
<1>2. r = Send(n, ms)
  OBVIOUS
<1> HIDE DEF ms
<1>3. /\ r.term = n.term /\ r.role = n.role /\ r.leader = n.leader
      /\ r.log = n.log /\ r.stable = n.stable /\ r.truncated = n.truncated
      /\ r.applied = n.applied /\ r.commit = n.commit /\ r.match = n.match
      /\ r.malformed_dropped = n.malformed_dropped
      /\ r.bcast_pending = n.bcast_pending /\ r.msgs = n.msgs \union ms
  BY <1>2 DEF Send, Bounded, NodeType
<1> QED BY <1>1, <1>3 DEF Posts, Says

(* sendAppend only queues a request.                                        *)
LEMMA SendAppendPosts ==
  ASSUME NEW i \in Server, NEW n, Bounded(n), Sendable(i, n), n.role = "leader",
         NEW p \in Peers(i)
  PROVE  Posts(i, n, SendAppend(i, n, p))
<1> DEFINE ps == {p}
<1>1. SendAppend(i, n, p) = Send(n, {AppendReqTo(i, n, q) : q \in ps})
  BY DEF SendAppend
<1>2. ps \in SUBSET Peers(i)
  OBVIOUS
<1> HIDE DEF ps
<1> QED BY <1>1, <1>2, SendPosts

(* bcastAppend only queues requests, and settles a pending broadcast.       *)
LEMMA BcastAppendPosts ==
  ASSUME NEW i \in Server, NEW n, Bounded(n), Sendable(i, n), n.role = "leader"
  PROVE  Posts(i, n, BcastAppend(i, n)) /\ ~BcastAppend(i, n).bcast_pending
<1> DEFINE ms == {AppendReqTo(i, n, p) : p \in Peers(i)}
           r  == BcastAppend(i, n)
<1>1. \A m \in ms : m.type = "append_req" /\ Says(i, n, m)
  BY AppendReqSlice
<1>2. r = Send([n EXCEPT !.bcast_pending = FALSE], ms)
  BY DEF BcastAppend
<1> HIDE DEF ms, r
<1>3. /\ r.term = n.term /\ r.role = n.role /\ r.leader = n.leader
      /\ r.log = n.log /\ r.stable = n.stable /\ r.truncated = n.truncated
      /\ r.applied = n.applied /\ r.commit = n.commit /\ r.match = n.match
      /\ r.malformed_dropped = n.malformed_dropped
      /\ r.bcast_pending = FALSE /\ r.msgs = n.msgs \union ms
  BY <1>2 DEF Send, Bounded, NodeType
<1> QED BY <1>1, <1>3 DEF Posts, Says, r

(* A node that stays as it is takes a step.                                 *)
LEMMA IdleLog ==
  ASSUME NEW i, NEW n
  PROVE  LogStep(i, n, n)
BY DEF LogStep, Rests

(* Requests queued after a step of a leader are part of it.                 *)
LEMMA PostsAfter ==
  ASSUME NEW i, NEW n, NEW s, NEW r, LogStep(i, n, s), Posts(i, s, r), s.role = "leader"
  PROVE  LogStep(i, n, r)
<1>1. /\ r.term = s.term /\ r.role = s.role /\ r.leader = s.leader
      /\ r.log = s.log /\ r.stable = s.stable /\ r.truncated = s.truncated
      /\ r.applied = s.applied /\ r.commit = s.commit /\ r.match = s.match
      /\ r.malformed_dropped = s.malformed_dropped
      /\ r.bcast_pending => s.bcast_pending
  BY DEF Posts
<1>2. \A q : ~Receives(i, n, s, q)
  BY DEF Receives
<1>3. Rests(i, n, r) \/ Grows(i, n, r) \/ Learns(i, n, r)
  <2>1. Rests(i, n, s) \/ Grows(i, n, s) \/ Learns(i, n, s)
    BY <1>2 DEF LogStep
  <2> QED BY SMTT(30), <1>1, <2>1 DEF Rests, Grows, Learns, CommitsOwn
<1>4. ASSUME NEW m \in r.msgs \ n.msgs
      PROVE  /\ Says(i, r, m)
             /\ (m.type = "vote_resp" /\ m.granted) => r.log = n.log /\ GrantsUpToDate(m, r.log)
             /\ ~IsAck(m)
  <2>1. CASE m \in s.msgs
    <3>1. /\ Says(i, s, m) /\ ~IsAck(m)
          /\ (m.type = "vote_resp" /\ m.granted) => s.log = n.log /\ GrantsUpToDate(m, s.log)
      BY SMTT(30), <1>2, <1>4, <2>1 DEF LogStep
    <3> QED BY <1>1, <3>1 DEF Says
  <2>2. CASE m \notin s.msgs
    BY <1>4, <2>2 DEF Posts, IsAck
  <2> QED BY <2>1, <2>2
<1> QED BY SMTT(30), <1>1, <1>3, <1>4 DEF LogStep

-----------------------------------------------------------------------------
(* Roles *)

(* n has become the follower r, in term t unless that is an old one.        *)
StepsDown(n, r, t) ==
  /\ r.term = IF t > n.term THEN t ELSE n.term
  /\ r.role = "follower" /\ r.msgs = n.msgs
  /\ r.log = n.log /\ r.stable = n.stable /\ r.truncated = n.truncated
  /\ r.applied = n.applied /\ r.commit = n.commit
  /\ ~r.bcast_pending /\ r.malformed_dropped = n.malformed_dropped
  /\ r.leader = None \/ (r.leader = n.leader /\ r.term = n.term)

(* becomeFollower touches nothing of the log, and drops a broadcast that    *)
(* was scheduled as leader.                                                 *)
LEMMA BecomeFollowerLog ==
  ASSUME NEW i, NEW n, Bounded(n), NEW t \in Term
  PROVE  /\ StepsDown(n, BecomeFollower(n, t), t)
         /\ LogStep(i, n, BecomeFollower(n, t))
<1> DEFINE r == BecomeFollower(n, t)
<1>1. /\ r.term = IF t > n.term THEN t ELSE n.term
      /\ r.role = "follower" /\ r.msgs = n.msgs
      /\ r.log = n.log /\ r.stable = n.stable /\ r.truncated = n.truncated
      /\ r.applied = n.applied /\ r.commit = n.commit
      /\ r.bcast_pending = FALSE /\ r.malformed_dropped = n.malformed_dropped
      /\ r.leader = IF t > n.term THEN None ELSE n.leader
  BY DEF BecomeFollower, Bounded, NodeType
<1> HIDE DEF r
<1>2. Rests(i, n, r)
  BY <1>1 DEF Rests
<1>3. LogStep(i, n, r)
  BY <1>1, <1>2 DEF LogStep
<1>4. StepsDown(n, r, t)
  BY <1>1 DEF StepsDown
<1> QED BY <1>3, <1>4 DEF r

(* The candidate n has become the leader r.                                 *)
Crowned(i, n, r) ==
  /\ r.role = "leader" /\ r.term = n.term /\ r.leader = i
  /\ Len(r.log) = Len(n.log) + 1 /\ \A k \in 1 .. Len(n.log) : r.log[k] = n.log[k]
  /\ r.log[Len(n.log) + 1].term = r.term
  /\ r.stable = n.stable /\ r.truncated = n.truncated
  /\ r.applied = n.applied /\ r.commit = n.commit
  /\ r.match = [s \in Server |-> IF s = i THEN n.stable ELSE 0]
  /\ r.malformed_dropped = n.malformed_dropped
  /\ \A m \in r.msgs \ n.msgs : m.type = "append_req" /\ Says(i, r, m)

(* becomeLeader appends the no-op of its term, counts only its own durable  *)
(* log and sends that entry along.                                          *)
LEMMA BecomeLeaderLog ==
  ASSUME NEW i \in Server, NEW n, Bounded(n)
  PROVE  Crowned(i, n, BecomeLeader(i, n))
<1> DEFINE r     == BecomeLeader(i, n)
           next  == [s \in Server |-> LastIndex(n.log) + 1]
           match == [s \in Server |-> IF s = i THEN n.stable ELSE 0]
           m     == [n EXCEPT !.role = "leader", !.leader = i,
                              !.next = next, !.match = match]
           e     == [term |-> m.term, val |-> Noop]
           a     == AppendLocal(m, Noop)
<1>1. r = BcastAppend(i, a)
  BY DEF BecomeLeader
<1> HIDE DEF r
<1>2. LastIndex(n.log) \in Nat /\ n.stable \in Nat /\ n.log \in Seq(Entry) /\ n.term \in Term
  BY NodeFields
<1>3. /\ next \in [Server -> Nat] /\ match \in [Server -> Nat]
      /\ \A p \in Peers(i) : match[p] = 0 /\ next[p] = LastIndex(n.log) + 1
  BY SMTT(30), <1>2 DEF Peers
<1>4. match = [s \in Server |-> IF s = i THEN n.stable ELSE 0]
  OBVIOUS
<1> HIDE DEF next, match
<1>5. /\ Bounded(m) /\ m.next = next /\ m.match = match /\ m.log = n.log
      /\ m.role = "leader" /\ m.term = n.term /\ m.leader = i
      /\ m.stable = n.stable /\ m.truncated = n.truncated
      /\ m.applied = n.applied /\ m.commit = n.commit
      /\ m.malformed_dropped = n.malformed_dropped /\ m.msgs = n.msgs
  BY <1>3 DEF Bounded, NodeType
<1> HIDE DEF m
<1>6. Sendable(i, m)
  BY SMTT(30), <1>2, <1>3, <1>5 DEF Sendable
<1>7. Bounded(a) /\ Sendable(i, a)
  BY SMTT(30), <1>5, <1>6, AppendLocalType
<1>8. /\ a.log = Append(n.log, e) /\ a.match = match
      /\ a.role = "leader" /\ a.term = n.term /\ a.leader = i
      /\ a.stable = n.stable /\ a.truncated = n.truncated
      /\ a.applied = n.applied /\ a.commit = n.commit
      /\ a.malformed_dropped = n.malformed_dropped /\ a.msgs = n.msgs
  BY <1>5 DEF AppendLocal, Bounded, NodeType
<1>9. e.term = n.term /\ e \in Entry
  BY <1>2, <1>5 DEF Entry
<1> HIDE DEF e
<1>10. /\ Len(a.log) = Len(n.log) + 1 /\ \A k \in 1 .. Len(n.log) : a.log[k] = n.log[k]
       /\ a.log[Len(n.log) + 1] = e
  BY SMTT(30), <1>2, <1>8, <1>9, AppendProperties
<1> HIDE DEF a
<1>11. Posts(i, a, r)
  BY <1>1, <1>7, <1>8, BcastAppendPosts
<1> QED BY SMTT(30), <1>4, <1>8, <1>9, <1>10, <1>11 DEF Posts, Crowned, r

(* campaign leaves the log alone, unless the server is alone: then it leads *)
(* at once.                                                                 *)
LEMMA CampaignLog ==
  ASSUME Counting, NEW i \in Server, NEW n, NodeOK(i, n), n.role # "leader"
  PROVE  LogStep(i, n, Campaign(i, n))
<1> DEFINE c  == [n EXCEPT !.term = @ + 1, !.voted_for = i, !.hs_dirty = TRUE,
                           !.role = "candidate", !.leader = None, !.votes = {i}]
           ms == { [type |-> "vote_req", from |-> i, to |-> p, term |-> c.term,
                    last_log_index |-> LastIndex(c.log),
                    last_log_term  |-> LastTerm(c.log)] : p \in Peers(i) }
           r  == Campaign(i, n)
<1>1. Bounded(n) /\ n.term \in Term /\ MaxTerm \in Nat
  BY NodeFields, MaxTermAssumption DEF NodeOK
<1>2. CASE n.term >= MaxTerm
  BY <1>2, IdleLog DEF Campaign
<1>3. CASE ~(n.term >= MaxTerm)
  <2>1. r = IF Elected(c) THEN BecomeLeader(i, c) ELSE Send(c, ms)
    BY <1>3 DEF Campaign
  <2>2. n.term + 1 \in Term /\ n.term < n.term + 1 /\ n.term + 1 # 0
    BY SMTT(30), <1>1, <1>3 DEF Term
  <2>3. /\ c.log = n.log /\ c.stable = n.stable /\ c.truncated = n.truncated
        /\ c.applied = n.applied /\ c.commit = n.commit /\ c.term = n.term + 1
        /\ c.role = "candidate" /\ c.leader = None /\ c.votes = {i}
        /\ c.malformed_dropped = n.malformed_dropped /\ c.msgs = n.msgs
        /\ c.bcast_pending = n.bcast_pending /\ Bounded(c)
    BY <1>1, <2>2 DEF Bounded, NodeType
  <2>4. \A m \in ms : /\ m.type = "vote_req" /\ m.from = i /\ m.to # i /\ m.term = c.term
                      /\ m.last_log_index = Len(c.log) /\ m.last_log_term = LastTerm(c.log)
    BY SMTT(30) DEF Peers, LastIndex
  <2> HIDE DEF ms, r
  <2>5. CASE Elected(c)
    <3> HIDE DEF c
    <3>1. r = BecomeLeader(i, c)
      BY <2>1, <2>5
    <3>2. Crowned(i, c, r)
      BY <2>3, <3>1, BecomeLeaderLog
    <3>3. Grows(i, n, r)
      BY SMTT(30), <2>2, <2>3, <3>2 DEF Grows, Crowned
    <3>4. /\ \A m \in r.msgs \ n.msgs : m.type = "append_req" /\ Says(i, r, m)
          /\ r.leader = i /\ r.role = "leader" /\ r.malformed_dropped = n.malformed_dropped
      BY <2>3, <3>2 DEF Crowned
    <3> QED BY <3>3, <3>4 DEF LogStep, IsAck, r
  <2>6. CASE ~Elected(c)
    <3>1. Server # {i}
      <4>1. SUFFICES ASSUME Server = {i} PROVE Elected(c)
        BY <2>6
      <4>2. Cardinality({i}) = 1
        BY DEF Counting
      <4>3. Needed(Server) = 1
        BY SMTT(30), <4>1, <4>2 DEF Needed
      <4> QED BY SMTT(30), <2>3, <4>2, <4>3 DEF Elected
    <3>2. r = Send(c, ms)
      BY <2>1, <2>6
    <3>3. /\ r.log = c.log /\ r.stable = c.stable /\ r.truncated = c.truncated
          /\ r.applied = c.applied /\ r.commit = c.commit /\ r.term = c.term
          /\ r.role = "candidate" /\ r.leader = None
          /\ r.malformed_dropped = c.malformed_dropped /\ r.msgs = c.msgs \union ms
          /\ r.bcast_pending = c.bcast_pending
      BY <2>3, <3>2 DEF Send, Bounded, NodeType
    <3> HIDE DEF c
    <3>4. Rests(i, n, r)
      BY <2>2, <2>3, <3>1, <3>3 DEF Rests
    <3>5. \A m \in r.msgs \ n.msgs : m.type = "vote_req" /\ Says(i, r, m)
      BY SMTT(30), <2>2, <2>3, <2>4, <3>3 DEF Says
    <3> QED BY SMTT(30), <2>3, <3>3, <3>4, <3>5 DEF LogStep, IsAck, r
  <2> QED BY <2>5, <2>6
<1> QED BY <1>2, <1>3

(* A tick that fires broadcasts or campaigns.                               *)
LEMMA TickFiresLog ==
  ASSUME Counting, NEW i \in Server, NEW n, NodeOK(i, n)
  PROVE  LogStep(i, n, TickFires(i, n))
<1>1. CASE n.role = "leader"
  BY <1>1, IdleLog, BcastAppendPosts, PostsAfter DEF TickFires, NodeOK
<1>2. CASE n.role # "leader"
  BY <1>2, CampaignLog DEF TickFires
<1> QED BY <1>1, <1>2

(* propose appends one entry of the leader's term.                          *)
LEMMA ProposeLog ==
  ASSUME NEW i \in Server, NEW n, NodeOK(i, n), NEW val \in Value, n.role = "leader"
  PROVE  LogStep(i, n, Propose(n, val))
<1> DEFINE e == [term |-> n.term, val |-> val]
           r == Propose(n, val)
<1>1. Bounded(n) /\ n.log \in Seq(Entry) /\ n.term \in Term
  BY NodeFields DEF NodeOK
<1>2. /\ r.log = Append(n.log, e) /\ r.match = n.match
      /\ r.role = n.role /\ r.term = n.term /\ r.leader = n.leader
      /\ r.stable = n.stable /\ r.truncated = n.truncated
      /\ r.applied = n.applied /\ r.commit = n.commit
      /\ r.malformed_dropped = n.malformed_dropped /\ r.msgs = n.msgs
  BY <1>1 DEF Propose, AppendLocal, Bounded, NodeType
<1>3. e.term = n.term /\ e \in Entry
  BY <1>1 DEF Entry
<1> HIDE DEF e, r
<1>4. /\ Len(r.log) = Len(n.log) + 1 /\ \A k \in 1 .. Len(n.log) : r.log[k] = n.log[k]
      /\ r.log[Len(n.log) + 1] = e
  BY SMTT(30), <1>1, <1>2, <1>3, AppendProperties
<1>5. Grows(i, n, r)
  BY <1>2, <1>3, <1>4 DEF Grows
<1> QED BY <1>2, <1>5 DEF LogStep, r

(* The handler of RequestVote leaves the log alone and votes only for a     *)
(* candidate whose log is at least as up to date.                           *)
LEMMA OnVoteReqLog ==
  ASSUME NEW i \in Server, NEW n, NodeOK(i, n), NEW m \in Message,
         m.type = "vote_req", m \in net, m.from \in Peers(i)
  PROVE  LogStep(i, n, OnVoteReq(i, n, m))
<1> DEFINE d == HandleRequestVote(n.term, n.voted_for, Info(n.log), m)
           f == IF d.term_advanced THEN BecomeFollower(n, d.new_term) ELSE n
           g == IF d.grant /\ f.voted_for # m.from
                THEN [f EXCEPT !.voted_for = m.from, !.hs_dirty = TRUE]
                ELSE f
           a == [type |-> "vote_resp", from |-> i, to |-> m.from,
                 term |-> g.term, granted |-> d.grant]
           cand == [last_index |-> m.last_log_index, last_term |-> m.last_log_term]
           r == OnVoteReq(i, n, m)
<1>1. Bounded(n) /\ n.term \in Term /\ m.term \in Term /\ m.from # i /\ m.from \in Server
  BY NodeFields DEF NodeOK, Message, Peers
<1>2. /\ d.term_advanced => d.new_term = m.term /\ m.term > n.term
      /\ ~d.term_advanced /\ d.grant => m.term = n.term
      /\ d.grant => LogIsAtLeastAsUpToDate(cand, Info(n.log))
  <2>1. CASE m.term < n.term
    <3>1. d.grant = FALSE /\ d.term_advanced = FALSE
      BY <2>1 DEF HandleRequestVote
    <3> QED BY <3>1
  <2>2. CASE ~(m.term < n.term)
    <3>1. /\ d.term_advanced <=> (m.term > n.term)
          /\ d.new_term = m.term
          /\ d.grant => LogIsAtLeastAsUpToDate(cand, Info(n.log))
      BY <2>2 DEF HandleRequestVote
    <3> HIDE DEF d, cand
    <3> QED BY SMTT(30), <1>1, <2>2, <3>1 DEF Term
  <2> QED BY <2>1, <2>2
<1>3. r = Send(g, {a})
  BY DEF OnVoteReq
<1> HIDE DEF d, cand
<1>4. /\ Bounded(f) /\ f.log = n.log /\ f.msgs = n.msgs /\ LogStep(i, n, f) /\ Rests(i, n, f)
      /\ d.grant => f.term = m.term
  <2>1. CASE d.term_advanced
    <3>1. f = BecomeFollower(n, m.term)
      BY <1>2, <2>1
    <3>2. Bounded(f)
      BY <1>1, <3>1, BecomeFollowerType
    <3>3. /\ f.log = n.log /\ f.msgs = n.msgs /\ LogStep(i, n, f)
          /\ f.term = m.term /\ f.role = "follower"
          /\ f.stable = n.stable /\ f.truncated = n.truncated
          /\ f.applied = n.applied /\ f.commit = n.commit
      BY SMTT(30), <1>1, <1>2, <2>1, <3>1, BecomeFollowerLog DEF StepsDown
    <3> QED BY <3>2, <3>3 DEF Rests
  <2>2. CASE ~d.term_advanced
    <3>1. f = n
      BY <2>2
    <3>2. d.grant => n.term = m.term
      BY <1>2, <2>2
    <3> QED BY <1>1, <3>1, <3>2, IdleLog DEF Rests
  <2> QED BY <2>1, <2>2
<1> HIDE DEF f
<1>5. /\ g.term = f.term /\ g.role = f.role /\ g.leader = f.leader
      /\ g.log = f.log /\ g.stable = f.stable /\ g.truncated = f.truncated
      /\ g.applied = f.applied /\ g.commit = f.commit /\ g.match = f.match
      /\ g.malformed_dropped = f.malformed_dropped
      /\ g.bcast_pending = f.bcast_pending /\ g.msgs = f.msgs /\ Bounded(g)
  BY <1>1, <1>4 DEF Bounded, NodeType
<1> HIDE DEF g
<1>6. /\ r.term = f.term /\ r.role = f.role /\ r.leader = f.leader
      /\ r.log = f.log /\ r.stable = f.stable /\ r.truncated = f.truncated
      /\ r.applied = f.applied /\ r.commit = f.commit /\ r.match = f.match
      /\ r.malformed_dropped = f.malformed_dropped
      /\ r.bcast_pending = f.bcast_pending /\ r.msgs = f.msgs \union {a}
  BY SMTT(30), <1>3, <1>5 DEF Send, Bounded, NodeType
<1> HIDE DEF r
<1>7. Rests(i, n, r)
  BY <1>4, <1>6 DEF Rests
<1>8. /\ Says(i, r, a) /\ a.type = "vote_resp"
      /\ a.granted => GrantsUpToDate(a, r.log) /\ r.log = n.log
  <2>1. /\ a.type = "vote_resp" /\ a.from = i /\ a.to = m.from /\ a.term = f.term
        /\ a.granted = d.grant
    BY <1>5
  <2>2. a.granted => GrantsUpToDate(a, r.log)
    BY SMTT(30), <1>2, <1>4, <1>6, <2>1 DEF GrantsUpToDate, cand
  <2> QED BY SMTT(30), <1>1, <1>4, <1>6, <2>1, <2>2 DEF Says
<1> HIDE DEF a
<1> QED BY SMTT(30), <1>4, <1>6, <1>7, <1>8 DEF LogStep, IsAck, r

(* The handler of a vote leaves the log alone, unless the vote makes a      *)
(* leader.                                                                  *)
LEMMA OnVoteRespLog ==
  ASSUME NEW i \in Server, NEW n, NodeOK(i, n), NEW m \in Message, m.type = "vote_resp"
  PROVE  LogStep(i, n, OnVoteResp(i, n, m))
<1> DEFINE v == [n EXCEPT !.votes = @ \union {m.from}]
           r == OnVoteResp(i, n, m)
<1>1. Bounded(n) /\ n.term \in Term /\ m.term \in Term /\ m.from \in Server
  BY NodeFields DEF NodeOK, Message
<1>2. CASE m.term > n.term
  <2>1. r = BecomeFollower(n, m.term)
    BY <1>2 DEF OnVoteResp, ObserveTerm
  <2> QED BY <1>1, <2>1, BecomeFollowerLog
<1>3. CASE ~(m.term > n.term) /\ (n.role # "candidate" \/ m.term # n.term \/ ~m.granted)
  BY <1>3, IdleLog DEF OnVoteResp, ObserveTerm
<1>4. CASE ~(m.term > n.term) /\ ~(n.role # "candidate" \/ m.term # n.term \/ ~m.granted)
  <2>1. r = IF Elected(v) THEN BecomeLeader(i, v) ELSE v
    BY <1>4 DEF OnVoteResp, ObserveTerm
  <2>2. /\ v.log = n.log /\ v.stable = n.stable /\ v.truncated = n.truncated
        /\ v.applied = n.applied /\ v.commit = n.commit /\ v.term = n.term
        /\ v.role = "candidate" /\ v.leader = n.leader
        /\ v.malformed_dropped = n.malformed_dropped /\ v.msgs = n.msgs
        /\ v.bcast_pending = n.bcast_pending /\ Bounded(v)
    BY <1>1, <1>4 DEF Bounded, NodeType
  <2>3. n.role = "candidate"
    BY <1>4
  <2>4. CASE Elected(v)
    <3> HIDE DEF v, r
    <3>1. Crowned(i, v, r)
      BY SMTT(30), <2>1, <2>2, <2>4, BecomeLeaderLog
    <3>2. Grows(i, n, r)
      BY SMTT(30), <2>2, <2>3, <3>1 DEF Grows, Crowned
    <3>3. /\ \A q \in r.msgs \ n.msgs : q.type = "append_req" /\ Says(i, r, q)
          /\ r.leader = i /\ r.role = "leader" /\ r.malformed_dropped = n.malformed_dropped
      BY <2>2, <3>1 DEF Crowned
    <3> QED BY <3>2, <3>3 DEF LogStep, IsAck, r
  <2>5. CASE ~Elected(v)
    <3>1. r = v
      BY <2>1, <2>5
    <3> HIDE DEF v, r
    <3>2. Rests(i, n, r)
      BY <2>2, <2>3, <3>1 DEF Rests
    <3> QED BY <2>2, <2>3, <3>1, <3>2 DEF LogStep, r
  <2> QED BY <2>4, <2>5
<1> QED BY <1>2, <1>3, <1>4

-----------------------------------------------------------------------------
(* Receiving entries *)

(* What is left of a log cut after k, entry by entry.                       *)
LEMMA KeepEntries ==
  ASSUME NEW log \in Seq(Entry), NEW k \in Nat
  PROVE  \A j \in 1 .. Len(Keep(log, k)) : Keep(log, k)[j] = log[j]
<1>1. Len(log) \in Nat
  BY LenProperties
<1>2. CASE k >= Len(log)
  BY <1>2 DEF Keep
<1>3. CASE ~(k >= Len(log))
  <2> DEFINE s == SubSeq(log, 1, k)
  <2>1. \A j \in 1 .. k : log[j] \in Entry
    BY SMTT(30), <1>1, <1>3, ElementOfSeq
  <2>2. Len(s) = (IF 1 <= k THEN k - 1 + 1 ELSE 0) /\ \A j \in 1 .. k - 1 + 1 : s[j] = log[1 + j - 1]
    BY SMTT(30), <2>1, SubSeqProperties
  <2>3. Keep(log, k) = s
    BY <1>3 DEF Keep
  <2> HIDE DEF s
  <2>4. Len(s) = k /\ k - 1 + 1 = k
    BY SMTT(30), <2>2
  <2>5. \A j \in 1 .. k : 1 + j - 1 = j
    BY SMTT(30)
  <2> QED BY SMTT(30), <2>2, <2>3, <2>4, <2>5
<1> QED BY <1>2, <1>3

(* Mirrors says what the drain loop checks as DiskDiverged.                 *)
LEMMA MirrorsDisk ==
  ASSUME NEW d \in DiskType, NEW n, Bounded(n)
  PROVE  Mirrors(d, n) <=> SaveTruncation(d, n).log = SubSeq(n.log, 1, n.stable)
<1> DEFINE p == SubSeq(n.log, 1, n.stable)
           t == SaveTruncation(d, n).log
<1>1. /\ d.log \in Seq(Entry) /\ n.log \in Seq(Entry) /\ Len(d.log) \in Nat
      /\ n.stable \in Nat /\ n.stable <= Len(n.log) /\ n.truncated \in Nat \union {None}
      /\ Len(n.log) \in Nat
  BY SMTT(30), NodeFields DEF DiskType, LastIndex
<1>2. p \in Seq(Entry) /\ Len(p) = n.stable /\ \A k \in 1 .. n.stable : p[k] = n.log[k]
  <2>1. \A j \in 1 .. n.stable : n.log[j] \in Entry
    BY SMTT(30), <1>1, ElementOfSeq
  <2>2. /\ p \in Seq(Entry)
        /\ Len(p) = (IF 1 <= n.stable THEN n.stable - 1 + 1 ELSE 0)
        /\ \A j \in 1 .. n.stable - 1 + 1 : p[j] = n.log[1 + j - 1]
    BY SMTT(30), <1>1, <2>1, SubSeqProperties
  <2> HIDE DEF p
  <2>3. Len(p) = n.stable /\ n.stable - 1 + 1 = n.stable
    BY SMTT(30), <1>1, <2>2
  <2>4. \A j \in 1 .. n.stable : 1 + j - 1 = j
    BY SMTT(30), <1>1
  <2> QED BY <2>2, <2>3, <2>4
<1>3. /\ t \in Seq(Entry)
      /\ Len(t) = IF n.truncated = None \/ n.truncated >= Len(d.log)
                  THEN Len(d.log) ELSE n.truncated
      /\ \A k \in 1 .. Len(t) : t[k] = d.log[k]
  <2>1. CASE n.truncated = None
    BY <1>1, <2>1 DEF SaveTruncation
  <2>2. CASE n.truncated # None
    <3>1. n.truncated \in Nat
      BY <1>1, <2>2
    <3>2. t = Keep(d.log, n.truncated)
      BY <2>2 DEF SaveTruncation, DiskType
    <3> HIDE DEF t
    <3> QED BY <1>1, <2>2, <3>1, <3>2, KeepType, KeepEntries
  <2> QED BY <2>1, <2>2
<1> HIDE DEF p, t
<1>4. ASSUME Mirrors(d, n) PROVE t = p
  <2>1. Len(t) = Len(p) /\ \A k \in 1 .. Len(t) : t[k] = p[k]
    BY SMTT(30), <1>2, <1>3, <1>4 DEF Mirrors
  <2> QED BY SMTT(30), <1>2, <1>3, <2>1, SeqEqual
<1>5. ASSUME t = p PROVE Mirrors(d, n)
  BY <1>2, <1>3, <1>5 DEF Mirrors
<1> QED BY <1>4, <1>5 DEF t, p

(* r is n with its log cut after keep.                                      *)
CutAt(n, r, keep) ==
  /\ r.term = n.term /\ r.role = n.role /\ r.leader = n.leader
  /\ r.applied = n.applied /\ r.commit = n.commit /\ r.match = n.match
  /\ r.malformed_dropped = n.malformed_dropped
  /\ r.bcast_pending = n.bcast_pending /\ r.msgs = n.msgs
  /\ r.log = Keep(n.log, keep)
  /\ r.stable = IF keep < n.stable THEN keep ELSE n.stable
  /\ \A d \in DiskType : Mirrors(d, n) => Mirrors(d, r)

(* truncateAfter lowers stable with the log and remembers a cut the disk    *)
(* has to follow, so the disk goes on mirroring the persisted part.         *)
LEMMA TruncateAfterLog ==
  ASSUME NEW n, Bounded(n), NEW keep \in Nat
  PROVE  CutAt(n, TruncateAfter(n, keep), keep)
<1> DEFINE r == TruncateAfter(n, keep)
<1>1. /\ n.log \in Seq(Entry) /\ n.stable \in Nat /\ n.stable <= Len(n.log)
      /\ n.truncated \in Nat \union {None} /\ Len(n.log) \in Nat
  BY NodeFields DEF LastIndex
<1>2. CASE keep >= LastIndex(n.log)
  <2>1. r = n
    BY <1>2 DEF TruncateAfter
  <2>2. Keep(n.log, keep) = n.log
    BY <1>2 DEF Keep, LastIndex
  <2>3. ~(keep < n.stable)
    BY SMTT(30), <1>1, <1>2 DEF LastIndex
  <2> QED BY <2>1, <2>2, <2>3 DEF CutAt
<1>3. CASE ~(keep >= LastIndex(n.log))
  <2> DEFINE tr == IF n.truncated = None THEN keep ELSE Min({n.truncated, keep})
  <2>1. /\ r.term = n.term /\ r.role = n.role /\ r.leader = n.leader
        /\ r.applied = n.applied /\ r.commit = n.commit /\ r.match = n.match
        /\ r.malformed_dropped = n.malformed_dropped
        /\ r.bcast_pending = n.bcast_pending /\ r.msgs = n.msgs
        /\ r.log = Keep(n.log, keep)
        /\ r.stable = IF keep < n.stable THEN keep ELSE n.stable
        /\ r.truncated = IF keep < n.stable THEN tr ELSE n.truncated
    <3>1. CASE keep < n.stable
      BY <1>3, <3>1 DEF TruncateAfter, Bounded, NodeType
    <3>2. CASE ~(keep < n.stable)
      BY <1>3, <3>2 DEF TruncateAfter, Bounded, NodeType
    <3> QED BY <3>1, <3>2
  <2>2. n.truncated # None => n.truncated \in Nat /\ tr = IF n.truncated <= keep THEN n.truncated ELSE keep
    BY SMTT(30), <1>1, MinPair
  <2>3. n.truncated = None => tr = keep
    OBVIOUS
  <2> HIDE DEF tr, r
  <2>4. Len(r.log) = keep /\ \A j \in 1 .. keep : r.log[j] = n.log[j]
    BY SMTT(30), <1>1, <1>3, <2>1, KeepType, KeepEntries DEF LastIndex
  <2>5. ASSUME NEW d \in DiskType, Mirrors(d, n) PROVE Mirrors(d, r)
    <3>1. Len(d.log) \in Nat
      BY LenProperties DEF DiskType
    <3>2. /\ n.stable = IF n.truncated = None \/ n.truncated >= Len(d.log)
                        THEN Len(d.log) ELSE n.truncated
          /\ \A k \in 1 .. n.stable : d.log[k] = n.log[k]
      BY <2>5 DEF Mirrors
    <3>3. None \notin Nat
      BY NoneAssumption
    <3>4. CASE keep < n.stable
      <4>1. r.truncated = tr /\ r.stable = keep
        BY <2>1, <3>4
      <4>2. tr = keep /\ keep < Len(d.log)
        BY SMTT(30), <1>1, <2>2, <2>3, <3>1, <3>2, <3>4
      <4>3. \A k \in 1 .. keep : d.log[k] = r.log[k]
        BY SMTT(30), <1>1, <2>4, <3>2, <3>4
      <4> QED BY SMTT(30), <3>1, <3>3, <4>1, <4>2, <4>3 DEF Mirrors
    <3>5. CASE ~(keep < n.stable)
      <4>1. r.truncated = n.truncated /\ r.stable = n.stable
        BY <2>1, <3>5
      <4>2. \A k \in 1 .. n.stable : d.log[k] = r.log[k]
        BY SMTT(30), <1>1, <2>4, <3>2, <3>5
      <4> QED BY <3>2, <4>1, <4>2 DEF Mirrors
    <3> QED BY <3>4, <3>5
  <2> QED BY <2>1, <2>5 DEF CutAt, r
<1> QED BY <1>2, <1>3

(* What handleAppendEntries decides on for a log that holds the previous    *)
(* entry of q: where it cuts, what it appends, how far it commits.          *)
MergePlan(log, commit, q, out) ==
  LET prev == q.prev_log_index
      c    == out.truncate_to
  IN  /\ TermAt(log, prev) = q.prev_log_term
      /\ c \in prev .. Len(log) /\ out.append_from \in 1 .. Len(q.entries) + 1
      /\ out.match_index = prev + Len(q.entries)
      /\ \/ out.new_commit_index = commit
         \/ /\ commit < out.new_commit_index /\ out.new_commit_index <= q.leader_commit
            /\ out.new_commit_index <= prev + Len(q.entries)
      /\ \A k \in 1 .. Len(q.entries) : prev + k <= c => log[prev + k].term = q.entries[k].term
      /\ out.append_from <= Len(q.entries) => out.append_from = c + 1 - prev
      /\ out.append_from > Len(q.entries) => prev + Len(q.entries) <= c
      /\ c < Len(log) => /\ out.append_from <= Len(q.entries)
                         /\ log[c + 1].term # q.entries[out.append_from].term

(* handleAppendEntries cuts the log only at the first conflict.             *)
LEMMA HandleAppendEntriesLog ==
  ASSUME Counting, NEW term, NEW log \in Seq(Entry), NEW commit \in Nat,
         NEW q \in Message, q.type = "append_req",
         NEW out, out = HandleAppendEntries(term, log, commit, q), out.success
  PROVE  MergePlan(log, commit, q, out)
<1> DEFINE unmatched == Unmatched(log, q)
           from      == IF unmatched = {} THEN Len(q.entries) + 1 ELSE Min(unmatched)
           conflict  == unmatched # {} /\ q.prev_log_index + from <= LastIndex(log)
           last_new  == q.prev_log_index + Len(q.entries)
           prev      == q.prev_log_index
           lc        == Min({q.leader_commit, last_new})
<1>1. /\ q.entries \in Seq(Entry) /\ prev \in Nat /\ q.leader_commit \in Nat
      /\ LastIndex(log) \in Nat /\ Len(q.entries) \in Nat /\ LastIndex(log) = Len(log)
  BY SMTT(30) DEF Message, LastIndex
<1>2. ~(q.term < term \/ ~PrevMatches(log, q))
  BY DEF HandleAppendEntries
<1>3. /\ out.append_from = from /\ out.match_index = last_new
      /\ out.new_commit_index = Max({commit, lc})
      /\ out.truncate_to = IF conflict THEN prev + from - 1 ELSE LastIndex(log)
  BY <1>2 DEF HandleAppendEntries
<1>4. TermAt(log, prev) = q.prev_log_term /\ prev <= Len(log)
  BY <1>1, <1>2 DEF PrevMatches
<1>5. /\ unmatched \subseteq 1 .. Len(q.entries)
      /\ \A k \in 1 .. Len(q.entries) : k \in unmatched <=>
           (prev + k > LastIndex(log) \/ TermAt(log, prev + k) # q.entries[k].term)
  BY DEF Unmatched
<1>6. \A k \in 1 .. Len(q.entries) : k \in unmatched <=>
           (prev + k > Len(log) \/ log[prev + k].term # q.entries[k].term)
  <2>1. \A k \in 1 .. Len(q.entries) : TermAt(log, prev + k) = log[prev + k].term
    BY SMTT(30), <1>1 DEF TermAt
  <2> HIDE DEF unmatched
  <2> QED BY <1>1, <1>5, <2>1
<1> HIDE DEF unmatched
<1>7. /\ unmatched # {} => from \in unmatched /\ \A k \in unmatched : from <= k
      /\ unmatched = {} => from = Len(q.entries) + 1
  <2>1. CASE unmatched # {}
    <3>1. unmatched \in SUBSET Nat
      BY SMTT(30), <1>1, <1>5
    <3> QED BY <2>1, <3>1, MinProperties
  <2> QED BY <2>1
<1>8. \/ out.new_commit_index = commit
      \/ /\ commit < out.new_commit_index /\ out.new_commit_index <= q.leader_commit
         /\ out.new_commit_index <= last_new
  <2>1. last_new \in Nat
    BY SMTT(30), <1>1
  <2> HIDE DEF last_new
  <2>2. lc \in Nat /\ lc <= q.leader_commit /\ lc <= last_new
    BY SMTT(30), <1>1, <2>1, MinPair
  <2> HIDE DEF lc
  <2> QED BY SMTT(30), <1>3, <2>2, MaxPair
<1> HIDE DEF from
<1>9. CASE unmatched = {}
  <2>1. out.append_from = Len(q.entries) + 1 /\ out.truncate_to = Len(log)
    BY <1>1, <1>3, <1>7, <1>9
  <2>2. \A k \in 1 .. Len(q.entries) : prev + k <= Len(log) /\ log[prev + k].term = q.entries[k].term
    BY SMTT(30), <1>1, <1>6, <1>9
  <2>3. prev + Len(q.entries) <= Len(log)
    <3>1. CASE Len(q.entries) = 0
      BY SMTT(30), <1>1, <1>4, <3>1
    <3>2. CASE Len(q.entries) # 0
      <4>1. Len(q.entries) \in 1 .. Len(q.entries)
        BY SMTT(30), <1>1, <3>2
      <4> QED BY <2>2, <4>1
    <3> QED BY <3>1, <3>2
  <2>4. /\ out.truncate_to \in prev .. Len(log) /\ ~(out.truncate_to < Len(log))
        /\ out.append_from \in 1 .. Len(q.entries) + 1
        /\ ~(out.append_from <= Len(q.entries)) /\ prev + Len(q.entries) <= out.truncate_to
    BY SMTT(30), <1>1, <1>4, <2>1, <2>3
  <2> QED BY <1>3, <1>4, <1>8, <2>2, <2>4 DEF MergePlan
<1>10. CASE unmatched # {}
  <2>1. /\ from \in 1 .. Len(q.entries) /\ from \in unmatched
        /\ \A k \in 1 .. Len(q.entries) : k < from =>
             prev + k <= Len(log) /\ log[prev + k].term = q.entries[k].term
    <3>1. from \in unmatched /\ from \in 1 .. Len(q.entries)
      BY <1>5, <1>7, <1>10
    <3>2. ASSUME NEW k \in 1 .. Len(q.entries), k < from
          PROVE  prev + k <= Len(log) /\ log[prev + k].term = q.entries[k].term
      <4>1. k \notin unmatched
        BY SMTT(30), <1>1, <1>7, <1>10, <3>1, <3>2
      <4>2. ~(prev + k > Len(log)) /\ log[prev + k].term = q.entries[k].term
        BY <1>6, <4>1
      <4> QED BY SMTT(30), <1>1, <4>2
    <3> QED BY <3>1, <3>2
  <2>2. prev + from - 1 <= Len(log)
    <3>1. CASE from = 1
      BY SMTT(30), <1>1, <1>4, <3>1
    <3>2. CASE from # 1
      <4>1. from - 1 \in 1 .. Len(q.entries) /\ from - 1 < from
        BY SMTT(30), <1>1, <2>1, <3>2
      <4>2. prev + (from - 1) <= Len(log)
        BY <2>1, <4>1
      <4> QED BY <1>1, <2>1, <4>2
    <3> QED BY <3>1, <3>2
  <2>3. out.truncate_to = prev + from - 1
    <3>1. CASE prev + from <= Len(log)
      BY <1>1, <1>3, <1>10, <3>1
    <3>2. CASE ~(prev + from <= Len(log))
      <4>1. out.truncate_to = Len(log)
        BY <1>1, <1>3, <3>2
      <4> QED BY SMTT(30), <1>1, <2>1, <2>2, <3>2, <4>1
    <3> QED BY <3>1, <3>2
  <2>4. out.append_from = from /\ out.match_index = prev + Len(q.entries)
    BY <1>3
  <2>5. \A k \in 1 .. Len(q.entries) : prev + k <= out.truncate_to
                => log[prev + k].term = q.entries[k].term
    BY SMTT(30), <1>1, <2>1, <2>3
  <2>6. out.truncate_to < Len(log) => log[out.truncate_to + 1].term # q.entries[from].term
    <3> SUFFICES ASSUME out.truncate_to < Len(log)
                 PROVE  log[out.truncate_to + 1].term # q.entries[from].term
      OBVIOUS
    <3>1. ~(prev + from > Len(log)) /\ out.truncate_to + 1 = prev + from
      BY SMTT(30), <1>1, <2>1, <2>3
    <3> QED BY <1>6, <2>1, <3>1
  <2>7. out.truncate_to \in prev .. Len(log) /\ from = out.truncate_to + 1 - prev
    BY SMTT(30), <1>1, <2>1, <2>2, <2>3
  <2> QED BY SMTT(30), <1>1, <1>4, <1>8, <2>1, <2>4, <2>5, <2>6, <2>7 DEF MergePlan
<1> QED BY <1>9, <1>10

(* Carrying the plan out merges the batch into the log.                     *)
LEMMA MergeLog ==
  ASSUME NEW log \in Seq(Entry), NEW commit \in Nat, NEW q \in Message, q.type = "append_req",
         NEW out, MergePlan(log, commit, q, out),
         NEW new, new = Keep(log, out.truncate_to)
                        \o SubSeq(q.entries, out.append_from, Len(q.entries))
  PROVE  MergedAt(log, q, new, out.truncate_to)
<1> DEFINE c    == out.truncate_to
           from == out.append_from
           prev == q.prev_log_index
           es   == q.entries
           a    == Keep(log, c)
           b    == SubSeq(es, from, Len(es))
<1>1. /\ es \in Seq(Entry) /\ prev \in Nat /\ Len(es) \in Nat /\ Len(log) \in Nat
      /\ c \in prev .. Len(log) /\ from \in 1 .. Len(es) + 1 /\ c \in Nat /\ from \in Nat
  <2>1. es \in Seq(Entry) /\ prev \in Nat /\ Len(es) \in Nat /\ Len(log) \in Nat
    BY SMTT(30) DEF Message
  <2>2. c \in prev .. Len(log) /\ from \in 1 .. Len(es) + 1
    BY DEF MergePlan
  <2> HIDE DEF es, prev, c, from
  <2> QED BY SMTT(30), <2>1, <2>2
<1>2. /\ a \in Seq(Entry) /\ Len(a) = c /\ \A k \in 1 .. c : a[k] = log[k]
  BY SMTT(30), <1>1, KeepType, KeepEntries
<1>3. /\ b \in Seq(Entry) /\ Len(b) = Len(es) - from + 1
      /\ \A k \in 1 .. Len(es) - from + 1 : b[k] = es[from + k - 1]
  <2>1. \A k \in from .. Len(es) : es[k] \in Entry
    BY SMTT(30), <1>1, ElementOfSeq
  <2>2. /\ b \in Seq(Entry) /\ Len(b) = (IF from <= Len(es) THEN Len(es) - from + 1 ELSE 0)
        /\ \A k \in 1 .. Len(es) - from + 1 : b[k] = es[from + k - 1]
    <3> HIDE DEF from, es
    <3> QED BY SMTT(30), <1>1, <2>1, SubSeqProperties
  <2> HIDE DEF b, from, es
  <2>3. (IF from <= Len(es) THEN Len(es) - from + 1 ELSE 0) = Len(es) - from + 1
    BY SMTT(30), <1>1
  <2> QED BY <2>2, <2>3
<1>4. new = a \o b
  OBVIOUS
<1>5. /\ (from <= Len(es) => from = c + 1 - prev) /\ (from > Len(es) => prev + Len(es) <= c)
      /\ TermAt(log, prev) = q.prev_log_term
      /\ \A k \in 1 .. Len(es) : prev + k <= c => log[prev + k].term = es[k].term
      /\ c < Len(log) => from <= Len(es) /\ log[c + 1].term # es[from].term
  BY DEF MergePlan
<1> HIDE DEF a, b, c, from, es, prev
<1>6. /\ Len(new) = c + (Len(es) - from + 1)
      /\ \A k \in 1 .. Len(new) : new[k] = IF k <= c THEN a[k] ELSE b[k - c]
  BY SMTT(30), <1>2, <1>3, <1>4, ConcatProperties
<1>7. c <= Len(new) /\ prev + Len(es) <= Len(new)
  BY SMTT(30), <1>1, <1>5, <1>6
<1>8. \A k \in 1 .. c : new[k] = log[k]
  <2> TAKE k \in 1 .. c
  <2>1. k \in 1 .. Len(new) /\ k <= c
    BY SMTT(30), <1>1, <1>6
  <2> QED BY <1>2, <1>6, <2>1
<1>9. ASSUME NEW k \in c + 1 .. Len(new)
      PROVE  k - prev \in 1 .. Len(es) /\ new[k] = es[k - prev]
  <2>1. k - c \in 1 .. Len(es) - from + 1 /\ k \in 1 .. Len(new) /\ ~(k <= c)
    BY SMTT(30), <1>1, <1>6
  <2>2. from <= Len(es)
    BY SMTT(30), <1>1, <2>1
  <2>3. from + (k - c) - 1 = k - prev
    BY SMTT(30), <1>1, <1>5, <2>2
  <2>4. new[k] = es[k - prev]
    BY <1>3, <1>6, <2>1, <2>3
  <2>5. k - prev \in 1 .. Len(es)
    BY SMTT(30), <1>1, <1>5, <1>6, <2>2
  <2> QED BY <2>4, <2>5
<1>10. c < Len(log) => c + 1 - prev \in 1 .. Len(es) /\ log[c + 1].term # es[c + 1 - prev].term
  BY SMTT(30), <1>1, <1>5
<1> QED BY <1>1, <1>5, <1>7, <1>8, <1>9, <1>10 DEF MergedAt, c, es, prev

(* The handler of AppendEntries refuses, or takes the entries.              *)
LEMMA OnAppendReqLog ==
  ASSUME Counting, NEW i \in Server, NEW n, NodeOK(i, n), NEW m \in Message,
         m.type = "append_req", m \in net, m.from \in Peers(i), m.to = i
  PROVE  LogStep(i, n, OnAppendReq(i, n, m))
<1> DEFINE out == HandleAppendEntries(n.term, n.log, n.commit, m)
           b   == BecomeFollower(n, m.term)
           f   == IF m.term >= n.term THEN [b EXCEPT !.leader = m.from] ELSE n
           cut == TruncateAfter(f, out.truncate_to)
           new == SubSeq(m.entries, out.append_from, Len(m.entries))
           h   == [cut EXCEPT !.log = cut.log \o new,
                              !.commit = Max({cut.commit, out.new_commit_index})]
           g   == IF out.success THEN h ELSE f
           a   == [type |-> "append_resp", from |-> i, to |-> m.from, term |-> g.term,
                   success |-> out.success,
                   index |-> IF out.success THEN out.match_index ELSE LastIndex(g.log)]
           r   == OnAppendReq(i, n, m)
<1>1. /\ m.term \in Term /\ m.from \in Server /\ m.entries \in Seq(Entry)
      /\ m.term \in Nat /\ m.from # i
  BY SMTT(30) DEF Message, Peers, Term
<1>2. r = Send(g, {a})
  BY DEF OnAppendReq
<1>3. /\ Bounded(n) /\ n.term \in Nat /\ n.commit \in Nat /\ n.log \in Seq(Entry)
      /\ n.stable \in Nat
  BY SMTT(30), NodeFields DEF NodeOK, Term
<1>4. out.success \in BOOLEAN /\ (out.success => ~(m.term < n.term) /\ out.new_commit_index \in Nat)
  BY <1>3, HandleAppendEntriesType
<1>5. out.success => MergePlan(n.log, n.commit, m, out)
  BY <1>3, HandleAppendEntriesLog
<1> HIDE DEF out
<1>6. m.term >= n.term =>
        /\ Bounded(f) /\ f.term = m.term /\ f.role = "follower" /\ f.msgs = n.msgs
        /\ f.log = n.log /\ f.stable = n.stable /\ f.truncated = n.truncated
        /\ f.applied = n.applied /\ f.commit = n.commit /\ f.leader = m.from
        /\ ~f.bcast_pending /\ f.malformed_dropped = n.malformed_dropped
  <2> SUFFICES ASSUME m.term >= n.term
               PROVE  /\ Bounded(f) /\ f.term = m.term /\ f.role = "follower" /\ f.msgs = n.msgs
                      /\ f.log = n.log /\ f.stable = n.stable /\ f.truncated = n.truncated
                      /\ f.applied = n.applied /\ f.commit = n.commit /\ f.leader = m.from
                      /\ ~f.bcast_pending /\ f.malformed_dropped = n.malformed_dropped
    OBVIOUS
  <2>1. Bounded(b)
    BY SMTT(30), <1>1, <1>3, BecomeFollowerType
  <2>2. /\ b.term = (IF m.term > n.term THEN m.term ELSE n.term) /\ b.role = "follower"
        /\ b.msgs = n.msgs
        /\ b.log = n.log /\ b.stable = n.stable /\ b.truncated = n.truncated
        /\ b.applied = n.applied /\ b.commit = n.commit
        /\ ~b.bcast_pending /\ b.malformed_dropped = n.malformed_dropped
    <3>1. StepsDown(n, b, m.term)
      BY <1>1, <1>3, BecomeFollowerLog
    <3> QED BY <3>1 DEF StepsDown
  <2>3. b.term = m.term
    BY SMTT(30), <1>1, <1>3, <2>2
  <2>4. f = [b EXCEPT !.leader = m.from]
    OBVIOUS
  <2> HIDE DEF b, f
  <2>5. /\ Bounded(f) /\ f.term = b.term /\ f.role = b.role /\ f.msgs = b.msgs
        /\ f.log = b.log /\ f.stable = b.stable /\ f.truncated = b.truncated
        /\ f.applied = b.applied /\ f.commit = b.commit /\ f.leader = m.from
        /\ f.bcast_pending = b.bcast_pending /\ f.malformed_dropped = b.malformed_dropped
    BY <1>1, <2>1, <2>4 DEF Bounded, NodeType
  <2> QED BY SMTT(30), <2>2, <2>3, <2>5
<1>7. m.term < n.term => f = n
  BY SMTT(30), <1>1, <1>3
<1> HIDE DEF f
<1>8. CASE ~out.success
  <2>1. g = f
    BY <1>8
  <2> HIDE DEF g
  <2>2. Bounded(f) /\ Rests(i, n, f) /\ f.msgs = n.msgs /\ f.malformed_dropped = n.malformed_dropped
    BY SMTT(30), <1>1, <1>3, <1>6, <1>7 DEF Rests
  <2>3. /\ r.term = f.term /\ r.role = f.role /\ r.leader = f.leader
        /\ r.log = f.log /\ r.stable = f.stable /\ r.truncated = f.truncated
        /\ r.applied = f.applied /\ r.commit = f.commit /\ r.match = f.match
        /\ r.malformed_dropped = f.malformed_dropped
        /\ r.bcast_pending = f.bcast_pending /\ r.msgs = f.msgs \union {a}
    BY SMTT(30), <1>2, <2>1, <2>2 DEF Send, Bounded, NodeType
  <2>4. Says(i, r, a) /\ ~IsAck(a) /\ a.type = "append_resp"
    BY <1>1, <1>8, <2>1, <2>3 DEF Says, IsAck
  <2> HIDE DEF a, r
  <2>5. Rests(i, n, r)
    BY <2>2, <2>3 DEF Rests
  <2>6. /\ \/ r.leader = n.leader /\ r.term = n.term
           \/ r.leader = m.from /\ r.term = m.term
        /\ r.bcast_pending => r.role = "leader" \/ (n.bcast_pending /\ n.role # "leader")
    BY SMTT(30), <1>1, <1>3, <1>6, <1>7, <2>3
  <2> QED BY <2>2, <2>3, <2>4, <2>5, <2>6 DEF LogStep, r
<1>9. CASE out.success
  <2>1. g = h /\ m.term >= n.term /\ MergePlan(n.log, n.commit, m, out)
    BY SMTT(30), <1>1, <1>3, <1>4, <1>5, <1>9
  <2>2. out.truncate_to \in Nat /\ out.match_index = m.prev_log_index + Len(m.entries)
    BY SMTT(30), <1>3, <2>1 DEF MergePlan, Message
  <2>3. CutAt(f, cut, out.truncate_to) /\ Bounded(cut)
    BY <1>6, <2>1, <2>2, TruncateAfterLog, TruncateAfterType
  <2> HIDE DEF cut, new, g
  <2>4. /\ g.term = cut.term /\ g.role = cut.role /\ g.leader = cut.leader
        /\ g.log = cut.log \o new /\ g.stable = cut.stable /\ g.truncated = cut.truncated
        /\ g.applied = cut.applied /\ g.commit = Max({cut.commit, out.new_commit_index})
        /\ g.malformed_dropped = cut.malformed_dropped
        /\ g.bcast_pending = cut.bcast_pending /\ g.msgs = cut.msgs
        /\ g = [cut EXCEPT !.log = g.log, !.commit = g.commit]
    BY <2>1, <2>3 DEF Bounded, NodeType
  <2>5. /\ r.term = g.term /\ r.role = g.role /\ r.leader = g.leader
        /\ r.log = g.log /\ r.stable = g.stable /\ r.truncated = g.truncated
        /\ r.applied = g.applied /\ r.commit = g.commit
        /\ r.malformed_dropped = g.malformed_dropped
        /\ r.bcast_pending = g.bcast_pending /\ r.msgs = g.msgs \union {a}
    <3>1. r = [g EXCEPT !.msgs = g.msgs \union {a}]
      BY <1>2 DEF Send
    <3> HIDE DEF r, a
    <3> QED BY SMTT(30), <2>3, <2>4, <3>1 DEF Bounded, NodeType
  <2>6. /\ a.type = "append_resp" /\ a.from = i /\ a.to = m.from /\ a.term = g.term
        /\ a.index = m.prev_log_index + Len(m.entries) /\ a.success
    BY <1>9, <2>2
  <2> HIDE DEF a, r
  <2>7. /\ r.term = m.term /\ r.role = "follower" /\ r.leader = m.from
        /\ r.applied = n.applied /\ r.malformed_dropped = n.malformed_dropped
        /\ ~r.bcast_pending /\ r.msgs = n.msgs \union {a}
        /\ r.log = Keep(n.log, out.truncate_to) \o new
        /\ r.stable = IF out.truncate_to < n.stable THEN out.truncate_to ELSE n.stable
        /\ cut.commit = n.commit
    BY SMTT(30), <1>6, <2>1, <2>3, <2>4, <2>5 DEF CutAt
  <2>8. MergedAt(n.log, m, r.log, out.truncate_to)
    BY <1>3, <2>1, <2>7, MergeLog DEF new
  <2>9. ASSUME NEW d \in DiskType, Mirrors(d, n) PROVE Mirrors(d, r)
    <3>1. Mirrors(d, cut)
      <4>1. Mirrors(d, f)
        BY <1>6, <2>1, <2>9 DEF Mirrors
      <4> QED BY <2>3, <4>1 DEF CutAt
    <3>2. r.stable = cut.stable /\ r.truncated = cut.truncated
      BY <2>4, <2>5
    <3>3. \A k \in 1 .. cut.stable : r.log[k] = cut.log[k]
      <4>1. cut.log = Keep(n.log, out.truncate_to) /\ cut.stable <= Len(cut.log) /\ cut.stable \in Nat
        BY <1>6, <2>1, <2>3, NodeFields DEF CutAt, LastIndex
      <4>2. new \in Seq(Entry) /\ cut.log \in Seq(Entry)
        <5>1. out.append_from \in 1 .. Len(m.entries) + 1
          BY <2>1 DEF MergePlan
        <5>2. \A k \in out.append_from .. Len(m.entries) : m.entries[k] \in Entry
          BY SMTT(30), <1>1, <5>1, ElementOfSeq
        <5>3. out.append_from \in Int /\ Len(m.entries) \in Int
          BY SMTT(30), <1>1, <5>1
        <5> QED BY SMTT(30), <2>3, <5>2, <5>3, SubSeqProperties, NodeFields DEF new
      <4>3. \A k \in 1 .. Len(cut.log) + Len(new) :
              (cut.log \o new)[k] = IF k <= Len(cut.log) THEN cut.log[k] ELSE new[k - Len(cut.log)]
        BY <4>2, ConcatProperties
      <4> TAKE k \in 1 .. cut.stable
      <4>4. k \in 1 .. Len(cut.log) + Len(new) /\ k <= Len(cut.log)
        BY SMTT(30), <4>1, <4>2, LenProperties
      <4> QED BY SMTT(30), <2>4, <2>5, <4>3, <4>4
    <3> QED BY <3>1, <3>2, <3>3 DEF Mirrors
  <2>10. \/ r.commit = n.commit
         \/ /\ n.commit < r.commit /\ r.commit <= m.leader_commit
            /\ r.commit <= m.prev_log_index + Len(m.entries)
    <3>1. r.commit = Max({n.commit, out.new_commit_index})
      BY <2>4, <2>5, <2>7
    <3>2. r.commit = IF n.commit >= out.new_commit_index THEN n.commit ELSE out.new_commit_index
      BY SMTT(30), <1>3, <1>4, <1>9, <3>1, MaxPair
    <3>3. \/ out.new_commit_index = n.commit
          \/ /\ n.commit < out.new_commit_index /\ out.new_commit_index <= m.leader_commit
             /\ out.new_commit_index <= m.prev_log_index + Len(m.entries)
      BY <2>1 DEF MergePlan
    <3> QED BY SMTT(30), <1>3, <1>4, <1>9, <3>2, <3>3
  <2>11. Receives(i, n, r, m)
    <3>1. n.term <= m.term
      BY <1>1, <1>3, <2>1
    <3> QED BY SMTT(30), <1>1, <2>2, <2>7, <2>8, <2>9, <2>10, <3>1 DEF Receives
  <2>12. Says(i, r, a)
    BY SMTT(30), <1>1, <2>5, <2>6 DEF Says
  <2> QED BY <2>6, <2>7, <2>11, <2>12 DEF LogStep, r
<1> QED BY <1>4, <1>8, <1>9

-----------------------------------------------------------------------------
(* Counting acknowledgements *)

(* maybeCommit changes the commit index only, and moves it only to an entry *)
(* of the leader's own term that a majority holds.                          *)
MayCommit(n, r) ==
  /\ r.term = n.term /\ r.role = n.role /\ r.leader = n.leader
  /\ r.log = n.log /\ r.stable = n.stable /\ r.truncated = n.truncated
  /\ r.applied = n.applied /\ r.match = n.match
  /\ r.malformed_dropped = n.malformed_dropped /\ r.msgs = n.msgs
  /\ r.commit = n.commit \/ CommitsOwn(n, r)
  /\ r.bcast_pending => n.bcast_pending \/ r.commit # n.commit

(* The index leaderCommitIndex moves to.                                    *)
LEMMA LeaderCommitIndexLog ==
  ASSUME Counting, NEW term, NEW commit \in Nat, NEW match, NEW log \in Seq(Entry),
         NEW nc, nc = LeaderCommitIndex(term, commit, match, log), nc > commit
  PROVE  /\ nc \in 1 .. Len(log) /\ log[nc].term = term
         /\ HasMajority(Server, Replicas(match, nc))
<1> DEFINE C == { n \in commit + 1 .. LastIndex(log) :
                    /\ TermAt(log, n) = term
                    /\ \A k \in n .. LastIndex(log) : TermAt(log, k) >= term
                    /\ Cardinality(Replicas(match, n)) >= Needed(Server) }
           S == {commit} \union C
<1>1. LastIndex(log) \in Nat /\ LastIndex(log) = Len(log)
  BY SMTT(30) DEF LastIndex
<1>2. S \in SUBSET Nat /\ commit \in S /\ S # {} /\ \A k \in S : k <= commit + LastIndex(log)
  BY SMTT(30), <1>1
<1>3. nc = Max(S)
  BY DEF LeaderCommitIndex
<1> HIDE DEF S
<1>4. nc \in S
  <2>1. commit + LastIndex(log) \in Nat
    BY SMTT(30), <1>1
  <2> QED BY <2>1, <1>2, <1>3, MaxProperties
<1>5. nc \in C
  BY SMTT(30), <1>4 DEF S
<1>6. /\ nc \in commit + 1 .. Len(log) /\ TermAt(log, nc) = term
      /\ Cardinality(Replicas(match, nc)) >= Needed(Server)
  BY <1>1, <1>5
<1>7. nc \in 1 .. Len(log)
  BY SMTT(30), <1>6
<1>8. log[nc].term = term
  BY SMTT(30), <1>6, <1>7 DEF TermAt
<1>9. Server \cap Replicas(match, nc) = Replicas(match, nc)
  BY DEF Replicas
<1> QED BY <1>6, <1>7, <1>8, <1>9 DEF HasMajority

(* maybeCommit.                                                             *)
LEMMA MaybeCommitLog ==
  ASSUME Counting, NEW n, Bounded(n)
  PROVE  MayCommit(n, MaybeCommit(n))
<1> DEFINE nc == LeaderCommitIndex(n.term, n.commit, n.match, n.log)
           c  == [n EXCEPT !.commit = nc, !.bcast_pending = TRUE]
           r  == MaybeCommit(n)
<1>1. n.commit \in Nat /\ n.log \in Seq(Entry)
  BY NodeFields
<1>2. r = IF nc > n.commit THEN c ELSE n
  BY DEF MaybeCommit
<1>3. nc > n.commit => /\ nc \in 1 .. Len(n.log) /\ n.log[nc].term = n.term
                       /\ HasMajority(Server, Replicas(n.match, nc))
  BY <1>1, LeaderCommitIndexLog
<1> HIDE DEF nc, r
<1>4. CASE nc > n.commit
  <2>1. r = c
    BY <1>2, <1>4
  <2>2. /\ r.term = n.term /\ r.role = n.role /\ r.leader = n.leader
        /\ r.log = n.log /\ r.stable = n.stable /\ r.truncated = n.truncated
        /\ r.applied = n.applied /\ r.match = n.match
        /\ r.malformed_dropped = n.malformed_dropped /\ r.msgs = n.msgs
        /\ r.commit = nc
    BY <2>1 DEF Bounded, NodeType
  <2>3. CommitsOwn(n, r)
    BY <1>3, <1>4, <2>2 DEF CommitsOwn
  <2>4. r.commit # n.commit
    BY SMTT(30), <1>1, <1>4, <2>2
  <2> QED BY <2>2, <2>3, <2>4 DEF MayCommit, r
<1>5. CASE ~(nc > n.commit)
  <2>1. r = n
    BY <1>2, <1>5
  <2> QED BY <2>1 DEF MayCommit, r
<1> QED BY <1>4, <1>5

(* The handler of an answer: a leader counts an acknowledgement inside its  *)
(* log.                                                                     *)
LEMMA OnAppendRespLog ==
  ASSUME Counting, NEW i \in Server, NEW n, NodeOK(i, n), NEW m \in Message,
         m.type = "append_resp", m \in net, m.from \in Peers(i), m.to = i,
         (IsAck(m) /\ n.role = "leader" /\ m.term = n.term) => m.index <= Len(n.log)
  PROVE  LogStep(i, n, OnAppendResp(i, n, m))
<1> DEFINE r == OnAppendResp(i, n, m)
           p == m.from
<1>1. m.term \in Term /\ p \in Server /\ m.index \in Nat /\ n.term \in Term
  BY NodeFields DEF Message, NodeOK
<1>2. /\ n.match[p] \in Nat /\ n.next[p] \in Nat /\ LastIndex(n.log) \in Nat
      /\ Bounded(n) /\ LastIndex(n.log) = Len(n.log)
  BY <1>1, NodeFields DEF NodeOK, LastIndex
<1>3. CASE m.term > n.term
  <2>1. r = BecomeFollower(n, m.term)
    BY <1>3 DEF OnAppendResp, ObserveTerm
  <2> QED BY SMTT(30), <1>1, <1>2, <2>1, BecomeFollowerLog
<1>4. CASE ~(m.term > n.term) /\ (n.role # "leader" \/ m.term # n.term)
  <2>1. r = n
    BY <1>4 DEF OnAppendResp, ObserveTerm
  <2> QED BY <2>1, IdleLog
<1>5. CASE ~(m.term > n.term) /\ n.role = "leader" /\ m.term = n.term /\ m.success
  <2> DEFINE match == Max({n.match[p], m.index})
             next  == Max({n.next[p], match + 1})
             w     == [n EXCEPT !.match[p] = match, !.next[p] = next]
             c     == MaybeCommit(w)
  <2>1. ~(m.index > LastIndex(n.log))
    BY SMTT(30), <1>1, <1>2, <1>5 DEF IsAck
  <2>2. r = OnAppendSuccess(i, n, m)
    BY <1>5 DEF OnAppendResp, ObserveTerm
  <2>3. r \in {SendAppend(i, c, p), c}
    BY <2>1, <2>2 DEF OnAppendSuccess
  <2>4. n.match[p] < n.next[p] /\ n.next[p] <= LastIndex(n.log) + 1
    BY <1>5 DEF NodeOK, Sendable
  <2>5. /\ match \in Nat /\ next \in Nat /\ match < next /\ next <= LastIndex(n.log) + 1
        /\ match = IF m.index > n.match[p] THEN m.index ELSE n.match[p]
    <3>1. PICK a \in Nat, b \in Nat, x \in Nat, last \in Nat :
            a = n.match[p] /\ b = n.next[p] /\ x = m.index /\ last = LastIndex(n.log)
      BY <1>1, <1>2
    <3>2. a < b /\ b <= last + 1 /\ ~(x > last)
      BY <2>1, <2>4, <3>1
    <3>3. /\ Max({a, x}) \in Nat /\ Max({b, Max({a, x}) + 1}) \in Nat
          /\ Max({a, x}) < Max({b, Max({a, x}) + 1}) /\ Max({b, Max({a, x}) + 1}) <= last + 1
          /\ Max({a, x}) = IF x > a THEN x ELSE a
      BY <3>2, CountedAck
    <3> QED BY <3>1, <3>3
  <2> HIDE DEF match, next
  <2>6. Bounded(w) /\ w.role = "leader" /\ Sendable(i, w)
    BY <1>5, <2>5, ProgressType
  <2>7. /\ w.term = n.term /\ w.leader = n.leader
        /\ w.log = n.log /\ w.stable = n.stable /\ w.truncated = n.truncated
        /\ w.applied = n.applied /\ w.commit = n.commit
        /\ w.malformed_dropped = n.malformed_dropped /\ w.msgs = n.msgs
        /\ w.bcast_pending = n.bcast_pending
        /\ w.match = [n.match EXCEPT ![p] = match]
    BY <1>2 DEF Bounded, NodeType
  <2> HIDE DEF w
  <2>8. Bounded(c) /\ c.role = "leader" /\ Sendable(i, c) /\ MayCommit(w, c)
    BY SMTT(30), <2>6, MaybeCommitType, MaybeCommitLog
  <2> HIDE DEF c
  <2>9. Learns(i, n, c)
    <3>1. ASSUME NEW x \in Server
          PROVE  \/ c.match[x] = n.match[x]
                 \/ \E q \in net : /\ IsAck(q) /\ q.from = x /\ q.to = i /\ q.term = c.term
                                   /\ c.match[x] = q.index
      <4>1. c.match = w.match /\ n.match \in [Server -> Nat] /\ c.term = n.term
        BY <1>2, <2>7, <2>8, NodeFields DEF MayCommit
      <4>2. CASE x # p
        BY <2>7, <4>1, <4>2
      <4>3. CASE x = p
        <5>1. c.match[x] = match
          BY SMTT(30), <1>1, <2>7, <4>1, <4>3
        <5>2. CASE match = n.match[p]
          BY <4>3, <5>1, <5>2
        <5>3. CASE match = m.index
          <6>1. IsAck(m) /\ m.from = x /\ m.to = i /\ m.term = c.term /\ c.match[x] = m.index
            BY SMTT(30), <1>5, <4>1, <4>3, <5>1, <5>3 DEF IsAck
          <6> QED BY <6>1
        <5> QED BY <2>5, <5>2, <5>3
      <4> QED BY <4>2, <4>3
    <3>2. c.commit = n.commit \/ CommitsOwn(n, c)
      BY <2>7, <2>8 DEF MayCommit, CommitsOwn
    <3>3. /\ n.role = "leader" /\ c.role = "leader" /\ c.term = n.term
          /\ c.log = n.log /\ c.stable = n.stable /\ c.truncated = n.truncated
          /\ c.applied = n.applied
      BY SMTT(30), <1>5, <2>7, <2>8 DEF MayCommit
    <3> QED BY <3>1, <3>2, <3>3 DEF Learns
  <2>10. LogStep(i, n, c)
    <3>1. /\ c.msgs = n.msgs /\ c.leader = n.leader /\ c.term = n.term /\ c.role = "leader"
          /\ c.malformed_dropped = n.malformed_dropped
      BY <2>7, <2>8 DEF MayCommit
    <3> QED BY <2>9, <3>1 DEF LogStep
  <2>11. LogStep(i, n, SendAppend(i, c, p))
    BY SMTT(30), <2>8, <2>10, SendAppendPosts, PostsAfter
  <2> QED BY <2>3, <2>10, <2>11
<1>6. CASE ~(m.term > n.term) /\ n.role = "leader" /\ m.term = n.term /\ ~m.success
  <2> DEFINE next == Max({n.match[p] + 1, Min({n.next[p] - 1, m.index + 1})})
             w    == [n EXCEPT !.next[p] = next]
  <2>1. r = OnAppendFailure(i, n, m)
    BY <1>6 DEF OnAppendResp, ObserveTerm
  <2>2. r \in {SendAppend(i, w, p), w}
    BY <2>1 DEF OnAppendFailure
  <2>3. n.match[p] < n.next[p] /\ n.next[p] <= LastIndex(n.log) + 1
    BY <1>6 DEF NodeOK, Sendable
  <2>4. next \in Nat /\ n.match[p] < next /\ next <= LastIndex(n.log) + 1
    BY <1>1, <1>2, <2>3, WalkedBack
  <2> HIDE DEF next
  <2>5. Bounded(w) /\ w.role = "leader" /\ Sendable(i, w)
    BY SMTT(30), <1>6, <2>4, NextType
  <2>6. /\ w.term = n.term /\ w.leader = n.leader /\ w.match = n.match
        /\ w.log = n.log /\ w.stable = n.stable /\ w.truncated = n.truncated
        /\ w.applied = n.applied /\ w.commit = n.commit
        /\ w.malformed_dropped = n.malformed_dropped /\ w.msgs = n.msgs
    BY <1>2 DEF Bounded, NodeType
  <2> HIDE DEF w
  <2>7. Rests(i, n, w)
    BY <1>6, <2>5, <2>6 DEF Rests
  <2>8. LogStep(i, n, w)
    BY <2>5, <2>6, <2>7 DEF LogStep
  <2>9. LogStep(i, n, SendAppend(i, w, p))
    BY SMTT(30), <2>5, <2>8, SendAppendPosts, PostsAfter
  <2> QED BY <2>2, <2>8, <2>9
<1> QED BY SMTT(30), <1>3, <1>4, <1>5, <1>6

(* stepBytes, for a message the decoder accepts that is addressed to i by   *)
(* a peer, and that confirms no more than there is.                         *)
LEMMA StepBytesLog ==
  ASSUME Counting, NEW i \in Server, NEW n, NodeOK(i, n), NEW m \in Message, m \in net,
         Decodes(m), m.from # m.to, m.to = i,
         (IsAck(m) /\ n.role = "leader" /\ m.term = n.term) => m.index <= Len(n.log)
  PROVE  LogStep(i, n, StepBytes(i, n, m))
<1>1. m.from \in Peers(i) /\ m.type \in {"vote_req", "vote_resp", "append_req", "append_resp"}
  BY DEF Message, Peers
<1>2. CASE m.type = "vote_req"
  BY <1>1, <1>2, OnVoteReqLog DEF StepBytes
<1>3. CASE m.type = "vote_resp"
  BY <1>1, <1>3, OnVoteRespLog DEF StepBytes
<1>4. CASE m.type = "append_req"
  BY <1>1, <1>4, OnAppendReqLog DEF StepBytes
<1>5. CASE m.type = "append_resp"
  BY <1>1, <1>5, OnAppendRespLog DEF StepBytes
<1> QED BY SMTT(30), <1>1, <1>2, <1>3, <1>4, <1>5

-----------------------------------------------------------------------------
(* Draining and crashing *)

(* ready queues the pending broadcast of a leader.                          *)
LEMMA ReadyLog ==
  ASSUME NEW i \in Server, NEW n, NodeOK(i, n)
  PROVE  Posts(i, n, Ready(i, n)) /\ ~Ready(i, n).bcast_pending
<1>1. CASE ~n.bcast_pending
  <2>1. Ready(i, n) = n
    BY <1>1 DEF Ready
  <2> QED BY <1>1, <2>1 DEF Posts
<1>2. CASE n.bcast_pending /\ n.role = "leader"
  <2>1. Ready(i, n) = BcastAppend(i, n)
    BY <1>2 DEF Ready
  <2> QED BY SMTT(30), <1>2, <2>1, BcastAppendPosts DEF NodeOK
<1>3. CASE n.bcast_pending /\ n.role # "leader"
  <2> DEFINE r == Ready(i, n)
  <2>1. r = [n EXCEPT !.bcast_pending = FALSE]
    BY <1>3 DEF Ready
  <2> HIDE DEF r
  <2>2. /\ r.term = n.term /\ r.role = n.role /\ r.leader = n.leader
        /\ r.log = n.log /\ r.stable = n.stable /\ r.truncated = n.truncated
        /\ r.applied = n.applied /\ r.commit = n.commit /\ r.match = n.match
        /\ r.malformed_dropped = n.malformed_dropped
        /\ r.bcast_pending = FALSE /\ r.msgs = n.msgs
    BY <2>1 DEF NodeOK, Bounded, NodeType
  <2> QED BY <2>2 DEF Posts, r
<1> QED BY SMTT(30), <1>1, <1>2, <1>3

(* The batch of n is done.                                                  *)
Advances(i, n, r) ==
  /\ r.term = n.term /\ r.role = n.role /\ r.leader = n.leader
  /\ r.log = n.log /\ r.stable = Len(n.log) /\ r.truncated = None /\ r.msgs = {}
  /\ r.applied = ReadyCommit(n)
  /\ r.malformed_dropped = n.malformed_dropped
  /\ n.role = "leader" => r.match = [n.match EXCEPT ![i] = Len(n.log)]
  /\ r.commit = n.commit \/ (n.role = "leader" /\ CommitsOwn(n, r))
  /\ r.bcast_pending => r.role = "leader" \/ n.bcast_pending

(* advance: all of the log is durable, and a leader counts its own copy.    *)
LEMMA AdvanceLog ==
  ASSUME Counting, NEW i \in Server, NEW n, NodeOK(i, n)
  PROVE  Advances(i, n, Advance(i, n))
<1> DEFINE rc == ReadyCommit(n)
           a == [n EXCEPT !.hs_dirty = FALSE, !.truncated = None, !.msgs = {},
                          !.stable = LastIndex(n.log), !.applied = rc]
           w == [a EXCEPT !.match[i] = a.stable]
           r == Advance(i, n)
<1>1. r = IF n.role = "leader" THEN MaybeCommit(w) ELSE a
  BY DEF Advance
<1>2. Bounded(n) /\ rc \in Nat /\ LastIndex(n.log) \in Nat /\ LastIndex(n.log) = Len(n.log)
  BY NodeFields, ReadyCommitType DEF NodeOK, LastIndex
<1>3. rc = ReadyCommit(n)
  OBVIOUS
<1> HIDE DEF rc, r
<1>4. /\ Bounded(a)
      /\ a.term = n.term /\ a.role = n.role /\ a.leader = n.leader
      /\ a.log = n.log /\ a.stable = Len(n.log) /\ a.truncated = None /\ a.msgs = {}
      /\ a.applied = rc /\ a.commit = n.commit /\ a.match = n.match
      /\ a.malformed_dropped = n.malformed_dropped /\ a.bcast_pending = n.bcast_pending
  <2>1. /\ a.term = n.term /\ a.role = n.role /\ a.leader = n.leader
        /\ a.log = n.log /\ a.stable = Len(n.log) /\ a.truncated = None /\ a.msgs = {}
        /\ a.applied = rc /\ a.commit = n.commit /\ a.match = n.match
        /\ a.malformed_dropped = n.malformed_dropped /\ a.bcast_pending = n.bcast_pending
    BY <1>2 DEF Bounded, NodeType
  <2>2. a \in NodeType
    BY <1>2 DEF Bounded, NodeType
  <2> HIDE DEF a
  <2>3. a.stable <= LastIndex(a.log)
    BY SMTT(30), <1>2, <2>1
  <2> QED BY <2>1, <2>2, <2>3 DEF Bounded
<1> HIDE DEF a
<1>5. /\ Bounded(w)
      /\ w.term = a.term /\ w.role = a.role /\ w.leader = a.leader
      /\ w.log = a.log /\ w.stable = a.stable /\ w.truncated = a.truncated /\ w.msgs = a.msgs
      /\ w.applied = a.applied /\ w.commit = a.commit
      /\ w.match = [a.match EXCEPT ![i] = a.stable]
      /\ w.malformed_dropped = a.malformed_dropped
  BY <1>4 DEF Bounded, NodeType, LastIndex
<1> HIDE DEF w
<1>6. CASE n.role = "leader"
  <2>1. MayCommit(w, r)
    BY SMTT(30), <1>1, <1>5, <1>6, MaybeCommitLog
  <2>2. r.commit = n.commit \/ CommitsOwn(n, r)
    BY <1>4, <1>5, <2>1 DEF MayCommit, CommitsOwn
  <2>3. /\ r.term = n.term /\ r.role = n.role /\ r.leader = n.leader
        /\ r.log = n.log /\ r.stable = Len(n.log) /\ r.truncated = None /\ r.msgs = {}
        /\ r.applied = rc /\ r.malformed_dropped = n.malformed_dropped
        /\ r.match = [n.match EXCEPT ![i] = Len(n.log)]
    BY <1>4, <1>5, <2>1 DEF MayCommit
  <2> QED BY SMTT(30), <1>3, <1>6, <2>2, <2>3 DEF Advances, r
<1>7. CASE n.role # "leader"
  BY <1>1, <1>3, <1>4, <1>7 DEF Advances, r
<1> QED BY <1>6, <1>7

(* The first k entries of a log.                                            *)
LEMMA FirstEntries ==
  ASSUME NEW log \in Seq(Entry), NEW k \in 0 .. Len(log)
  PROVE  /\ SubSeq(log, 1, k) \in Seq(Entry) /\ Len(SubSeq(log, 1, k)) = k
         /\ Prefix(SubSeq(log, 1, k), log)
<1> DEFINE p == SubSeq(log, 1, k)
<1>1. Len(log) \in Nat /\ k \in Nat
  BY SMTT(30), LenProperties
<1>2. \A j \in 1 .. k : log[j] \in Entry
  BY SMTT(30), <1>1, ElementOfSeq
<1>3. /\ p \in Seq(Entry) /\ Len(p) = (IF 1 <= k THEN k - 1 + 1 ELSE 0)
      /\ \A j \in 1 .. k - 1 + 1 : p[j] = log[1 + j - 1]
  BY SMTT(30), <1>1, <1>2, SubSeqProperties
<1> HIDE DEF p
<1>4. Len(p) = k /\ k - 1 + 1 = k
  BY SMTT(30), <1>1, <1>3
<1>5. \A j \in 1 .. k : 1 + j - 1 = j
  BY SMTT(30), <1>1
<1>6. \A j \in 1 .. k : p[j] = log[j]
  BY <1>3, <1>4, <1>5
<1> QED BY SMTT(30), <1>1, <1>3, <1>4, <1>6 DEF Prefix, p

(* Writing entries after the persisted ones, up to k, leaves the first k    *)
(* entries of the log on disk.                                              *)
LEMMA WriteEntries ==
  ASSUME NEW d \in DiskType, NEW n, Bounded(n), Mirrors(d, n),
         NEW k \in n.stable .. Len(n.log)
  PROVE  SaveTruncation(d, n).log \o SubSeq(n.log, n.stable + 1, k) = SubSeq(n.log, 1, k)
<1>1. /\ n.log \in Seq(Entry) /\ Len(n.log) \in Nat /\ n.stable \in Nat
      /\ n.stable <= Len(n.log) /\ k \in Nat
  BY SMTT(30), NodeFields DEF LastIndex
<1>2. SaveTruncation(d, n).log = SubSeq(n.log, 1, n.stable)
  BY MirrorsDisk
<1>3. SubSeq(n.log, 1, n.stable) \o SubSeq(n.log, n.stable + 1, k) = SubSeq(n.log, 1, k)
  <2>1. n.stable \in 0 .. Len(n.log)
    BY SMTT(30), <1>1
  <2> QED BY <1>1, <2>1, AdjacentSubSeqs
<1> QED BY <1>2, <1>3

(* A whole batch written: the disk holds the log of the node.               *)
LEMMA PersistLog ==
  ASSUME NEW d \in DiskType, NEW n, Bounded(n), Mirrors(d, n)
  PROVE  Persist(d, n).log = n.log
<1> DEFINE hs == SaveHardState(d, n)
<1>1. hs \in DiskType /\ hs.log = d.log
  BY SaveHardStateType
<1>2. /\ n.log \in Seq(Entry) /\ Len(n.log) \in Nat /\ n.stable \in Nat
      /\ n.stable <= Len(n.log) /\ LastIndex(n.log) = Len(n.log)
  BY NodeFields DEF LastIndex
<1> HIDE DEF hs
<1>3. Mirrors(hs, n)
  BY <1>1 DEF Mirrors
<1>4. SaveTruncation(hs, n) \in DiskType
  BY <1>1, SaveTruncationType
<1>5. Persist(d, n).log = SaveTruncation(hs, n).log \o SubSeq(n.log, n.stable + 1, Len(n.log))
  BY <1>2, <1>4 DEF Persist, SaveEntries, DiskType, hs
<1>6. SubSeq(n.log, 1, Len(n.log)) = n.log
  BY <1>2, SubSeqFull
<1>7. Len(n.log) \in n.stable .. Len(n.log)
  BY SMTT(30), <1>2
<1> QED BY <1>1, <1>3, <1>5, <1>6, <1>7, WriteEntries

(* A crash in the middle of a batch leaves a prefix of the old log or of    *)
(* the new one, and never less than what was persisted before.              *)
LEMMA CrashImagesLog ==
  ASSUME NEW d \in DiskType, NEW n, Bounded(n), Mirrors(d, n), NEW e \in CrashImages(d, n)
  PROVE  Torn(d, n, e)
<1> DEFINE hs  == SaveHardState(d, n)
           cut == SaveTruncation(hs, n)
<1>1. /\ n.log \in Seq(Entry) /\ Len(n.log) \in Nat /\ n.stable \in Nat
      /\ n.stable <= Len(n.log) /\ LastIndex(n.log) = Len(n.log)
  BY NodeFields DEF LastIndex
<1>2. d.log \in Seq(Entry) /\ Len(d.log) \in Nat
  BY LenProperties DEF DiskType
<1>3. n.stable <= Len(d.log) /\ \A k \in 1 .. n.stable : d.log[k] = n.log[k]
  <2>1. n.truncated \in Nat \union {None}
    BY NodeFields
  <2> QED BY SMTT(30), <1>2, <2>1 DEF Mirrors
<1>4. hs \in DiskType /\ hs.log = d.log /\ hs.term = IF n.hs_dirty THEN n.term ELSE d.term
  <2>1. hs \in DiskType /\ hs.log = d.log
    BY SaveHardStateType
  <2>2. hs.term = IF n.hs_dirty THEN n.term ELSE d.term
    BY DEF SaveHardState, DiskType
  <2> QED BY <2>1, <2>2
<1>5. e \in {d} \union { [hs EXCEPT !.log = Keep(@, k)] : k \in Len(cut.log) .. Len(d.log) }
            \union { [cut EXCEPT !.log = @ \o SubSeq(n.log, n.stable + 1, k)]
                       : k \in n.stable .. LastIndex(n.log) }
  BY DEF CrashImages
<1> HIDE DEF hs
<1>6. Mirrors(hs, n)
  BY <1>4 DEF Mirrors
<1>7. cut \in DiskType /\ cut.term = hs.term /\ Len(cut.log) = n.stable
  <2>1. cut \in DiskType
    BY <1>4, SaveTruncationType
  <2>2. cut.term = hs.term
    BY <1>4 DEF SaveTruncation, DiskType
  <2>3. cut.log = SubSeq(n.log, 1, n.stable)
    BY SMTT(30), <1>4, <1>6, MirrorsDisk
  <2>4. n.stable \in 0 .. Len(n.log)
    BY SMTT(30), <1>1
  <2> QED BY SMTT(30), <1>1, <2>1, <2>2, <2>3, <2>4, FirstEntries
<1> HIDE DEF cut
<1>8. CASE e = d
  BY <1>3, <1>8 DEF Torn
<1>9. ASSUME NEW k \in Len(cut.log) .. Len(d.log), e = [hs EXCEPT !.log = Keep(@, k)]
      PROVE  Torn(d, n, e)
  <2>1. k \in Nat /\ n.stable <= k /\ k <= Len(d.log)
    BY SMTT(30), <1>1, <1>2, <1>7, <1>9
  <2>2. e.term = hs.term /\ e.log = Keep(d.log, k)
    BY <1>4, <1>9 DEF DiskType
  <2>3. Len(e.log) = k /\ \A j \in 1 .. k : e.log[j] = d.log[j]
    BY SMTT(30), <1>2, <2>1, <2>2, KeepType, KeepEntries
  <2>4. Prefix(e.log, d.log)
    BY <2>1, <2>3 DEF Prefix
  <2>5. n.stable <= Len(e.log) /\ \A j \in 1 .. n.stable : e.log[j] = n.log[j]
    BY SMTT(30), <1>1, <1>3, <2>1, <2>3
  <2> QED BY <1>4, <2>2, <2>4, <2>5 DEF Torn
<1>10. ASSUME NEW k \in n.stable .. LastIndex(n.log),
              e = [cut EXCEPT !.log = @ \o SubSeq(n.log, n.stable + 1, k)]
       PROVE  Torn(d, n, e)
  <2>1. k \in 0 .. Len(n.log) /\ n.stable <= k /\ k \in n.stable .. Len(n.log)
    BY SMTT(30), <1>1, <1>10
  <2>2. e.term = hs.term /\ e.log = cut.log \o SubSeq(n.log, n.stable + 1, k)
    BY <1>7, <1>10 DEF DiskType
  <2>3. e.log = SubSeq(n.log, 1, k)
    BY <1>4, <1>6, <2>1, <2>2, WriteEntries DEF cut
  <2>4. Len(e.log) = k /\ Prefix(e.log, n.log)
    BY SMTT(30), <1>1, <2>1, <2>3, FirstEntries
  <2>5. n.stable <= Len(e.log) /\ \A j \in 1 .. n.stable : e.log[j] = n.log[j]
    BY SMTT(30), <1>1, <2>1, <2>4 DEF Prefix
  <2> QED BY <1>4, <2>2, <2>4, <2>5 DEF Torn
<1> QED BY <1>5, <1>8, <1>9, <1>10

-----------------------------------------------------------------------------
(* The steps of the cluster *)

(* What a drained batch does.                                               *)
LEMMA DrainEffect ==
  ASSUME Counting, Safe, NEW i \in Server, Drain(i)
  PROVE  \E r : Drained(i, r) /\ Applied(i, r)
<1> DEFINE o == node[i]
           n == Ready(i, o)
           r == Advance(i, n)
<1>1. NodeOK(i, o) /\ node \in [Server -> NodeType] /\ disk \in [Server -> DiskType]
      /\ disk[i] \in DiskType
  BY ElectionTypes DEF Safe, TypeInv
<1>2. /\ disk' = [disk EXCEPT ![i] = Persist(disk[i], n)]
      /\ net' = net \union { m \in n.msgs : {m.from, m.to} \in Links }
      /\ applied_log' = applied_log \union Committed(n)
      /\ commit_terms' = commit_terms \o
           [k \in 1 .. Max({0, ReadyCommit(n) - Len(commit_terms)}) |-> n.term]
      /\ Update(i, r)
  BY DEF Drain
<1>3. /\ Posts(i, o, n) /\ ~n.bcast_pending /\ NodeOK(i, n)
      /\ n.votes = o.votes /\ n.voted_for = o.voted_for
  <2>1. Quiet(i, o, n)
    BY <1>1, ReadyIsQuiet DEF NodeOK
  <2> QED BY <1>1, <2>1, ReadyLog, ReadyType DEF Quiet
<1> HIDE DEF n
<1>4. /\ Advances(i, n, r) /\ NodeOK(i, r) /\ r.votes = n.votes
      /\ r.voted_for = n.voted_for /\ ~r.hs_dirty
  <2>1. Bounded(n)
    BY <1>3 DEF NodeOK
  <2>2. Advances(i, n, r)
    BY <1>3, AdvanceLog
  <2>3. NodeOK(i, r)
    BY <1>3, AdvanceType
  <2>4. r.votes = n.votes /\ r.voted_for = n.voted_for /\ ~r.hs_dirty
    BY <2>1, AdvanceVote
  <2> QED BY <2>2, <2>3, <2>4
<1> HIDE DEF r
<1>5. /\ n.term = o.term /\ n.role = o.role /\ n.leader = o.leader
      /\ n.log = o.log /\ n.stable = o.stable /\ n.truncated = o.truncated
      /\ n.applied = o.applied /\ n.commit = o.commit /\ n.match = o.match
      /\ n.malformed_dropped = o.malformed_dropped
  BY <1>3 DEF Posts
<1>6. ReadyCommit(n) = ReadyCommit(o) /\ Committed(n) = Committed(o)
  <2>1. ReadyCommit(n) = ReadyCommit(o)
    BY <1>5 DEF ReadyCommit
  <2> QED BY <1>5, <2>1 DEF Committed
<1>7. /\ r.term = n.term /\ r.role = n.role /\ r.leader = n.leader
      /\ r.log = n.log /\ r.stable = Len(n.log) /\ r.truncated = None /\ r.msgs = {}
      /\ r.applied = ReadyCommit(n)
      /\ r.malformed_dropped = n.malformed_dropped
      /\ n.role = "leader" => r.match = [n.match EXCEPT ![i] = Len(n.log)]
  BY <1>4 DEF Advances
<1>8. r.bcast_pending => r.role = "leader"
  BY <1>3, <1>4 DEF Advances
<1>9. r.commit = o.commit \/ (r.role = "leader" /\ CommitsOwn(o, r))
  <2>1. r.commit = n.commit \/ (n.role = "leader" /\ CommitsOwn(n, r))
    BY <1>4 DEF Advances
  <2>2. CommitsOwn(n, r) => CommitsOwn(o, r)
    BY <1>5 DEF CommitsOwn
  <2> QED BY <1>5, <1>7, <2>1, <2>2
<1>10. /\ node'[i] = r /\ leaders' = leaders
       /\ \A j \in Server : j # i => node'[j] = node[j] /\ disk'[j] = disk[j]
  <2>1. node' = [node EXCEPT ![i] = r]
        /\ leaders' = leaders \union (IF r.role = "leader" THEN {<<r.term, i>>} ELSE {})
    BY <1>2 DEF Update
  <2>2. o.role = "leader" => <<o.term, i>> \in leaders
    BY DEF Safe, ElectionInv, LeaderInv
  <2>3. leaders' = leaders
    <3>1. CASE r.role = "leader"
      <4>1. <<r.term, i>> \in leaders
        BY <1>5, <1>7, <2>2, <3>1
      <4> QED BY <2>1, <3>1, <4>1
    <3>2. CASE r.role # "leader"
      BY <2>1, <3>2
    <3> QED BY <3>1, <3>2
  <2> QED BY <1>1, <1>2, <2>1, <2>3
<1>11. disk'[i].log = o.log /\ disk'[i].term = o.term /\ disk'[i].voted_for = o.voted_for
  <2>1. disk'[i] = Persist(disk[i], n)
    BY <1>1, <1>2
  <2>2. Mirrors(disk[i], n)
    <3>1. Mirrors(disk[i], o)
      BY DEF Safe, LogInv, DiskInv
    <3> HIDE DEF o
    <3> QED BY <1>5, <3>1 DEF Mirrors
  <2>3. Persist(disk[i], n).log = n.log
    BY <1>1, <1>3, <2>2, PersistLog DEF NodeOK
  <2>4. disk'[i].term = o.term /\ disk'[i].voted_for = o.voted_for
    BY DrainHardState DEF Safe
  <2> QED BY <1>5, <2>1, <2>3, <2>4
<1>12. \A m \in net' : \/ m \in net \/ m \in o.msgs
                       \/ m \in Message /\ m.type = "append_req" /\ Says(i, o, m)
  <2> SUFFICES ASSUME NEW m \in n.msgs \ o.msgs
               PROVE  m \in Message /\ m.type = "append_req" /\ Says(i, o, m)
    BY <1>2
  <2>1. m.type = "append_req" /\ Says(i, n, m)
    BY <1>3 DEF Posts
  <2>2. m \in Message
    BY <1>3, NodeFields DEF NodeOK
  <2> QED BY <1>5, <2>1, <2>2 DEF Says
<1>13. Drained(i, r)
  <2> HIDE DEF o
  <2>1. Bounded(r)
    BY <1>4 DEF NodeOK
  <2>2. r.role = "leader" => r.match = [o.match EXCEPT ![i] = Len(o.log)]
    BY <1>5, <1>7
  <2>3. r.votes = o.votes /\ r.voted_for = o.voted_for /\ ~r.hs_dirty
    BY <1>3, <1>4
  <2> QED BY SMTT(30), <1>5, <1>7, <1>8, <1>10, <1>11, <1>12, <2>1, <2>2, <2>3 DEF Drained, o
<1>14. Applied(i, r)
  BY SMTT(30), <1>2, <1>5, <1>6, <1>7, <1>9 DEF Applied
<1> QED BY <1>13, <1>14

(* What a restart does.                                                     *)
LEMMA RestartEffect ==
  ASSUME Safe, NEW i \in Server, Restart(i)
  PROVE  \E d, a : Restarted(i, d, a)
<1>1. Bounded(node[i]) /\ node \in [Server -> NodeType] /\ disk \in [Server -> DiskType]
      /\ disk[i] \in DiskType
  BY ElectionTypes DEF Safe
<1>2. PICK d \in CrashImages(disk[i], node[i]), a \in {0, node[i].applied} :
         /\ ValidRestore(d, a) /\ disk' = [disk EXCEPT ![i] = d] /\ Update(i, InitNode(d, a))
  BY DEF Restart
<1>3. net' = net /\ applied_log' = applied_log /\ commit_terms' = commit_terms
  BY DEF Restart
<1>4. d \in DiskType
  BY <1>1, CrashImagesType
<1>5. Torn(disk[i], node[i], d)
  <2>1. Mirrors(disk[i], node[i])
    BY DEF Safe, LogInv, DiskInv
  <2> QED BY <1>1, <2>1, CrashImagesLog
<1>6. InitNode(d, a).role = "follower"
  BY DEF InitNode
<1>7. node' = [node EXCEPT ![i] = InitNode(d, a)] /\ leaders' = leaders
  BY <1>2, <1>6 DEF Update
<1>8. /\ node'[i] = InitNode(d, a) /\ disk'[i] = d
      /\ \A j \in Server : j # i => node'[j] = node[j] /\ disk'[j] = disk[j]
  BY <1>1, <1>2, <1>7
<1>9. \/ d.term = disk[i].term /\ d.voted_for = disk[i].voted_for
      \/ d.term = node[i].term /\ d.voted_for = node[i].voted_for
  BY SMTT(30), <1>1, CrashImagesVote
<1> QED BY SMTT(30), <1>2, <1>3, <1>4, <1>5, <1>7, <1>8, <1>9 DEF Restarted

(* Every step is an input of some server, a drain or a restart.             *)
LEMMA Steps ==
  ASSUME Counting, Safe, [Next]_vars
  PROVE  \E i \in Server : Drain(i) \/ Restart(i) \/ \E r : TakesInput(i, r)
<1>1. /\ \A i \in Server : NodeOK(i, node[i])
      /\ node \in [Server -> NodeType] /\ net \in SUBSET Message
  BY ElectionTypes DEF Safe, TypeInv
<1>2. ASSUME NEW i \in Server, Heartbeat(i) \/ ElectionTimeout(i)
      PROVE  TakesInput(i, TickFires(i, node[i]))
  <2> DEFINE r == TickFires(i, node[i])
  <2>1. NodeOK(i, r) /\ VoteStep(i, node[i], r) /\ LogStep(i, node[i], r)
    BY <1>1, TickFiresType, TickFiresVote, TickFiresLog
  <2>2. /\ Update(i, r) /\ disk' = disk /\ net' = net
        /\ applied_log' = applied_log /\ commit_terms' = commit_terms
    BY <1>2 DEF Heartbeat, ElectionTimeout, Input
  <2> HIDE DEF r
  <2>3. TakesInput(i, r)
    BY <2>1, <2>2 DEF TakesInput, Takes
  <2> QED BY <2>3 DEF r
<1>3. ASSUME NEW i \in Server, NEW v \in Value, ClientRequest(i, v)
      PROVE  TakesInput(i, Propose(node[i], v))
  <2> DEFINE r == Propose(node[i], v)
  <2>1. /\ Update(i, r) /\ disk' = disk /\ net' = net /\ node[i].role = "leader"
        /\ applied_log' = applied_log /\ commit_terms' = commit_terms
    BY <1>3 DEF ClientRequest, Input
  <2>2. NodeOK(i, r) /\ VoteStep(i, node[i], r) /\ LogStep(i, node[i], r)
    BY <1>1, <2>1, ProposeType, ProposeVote, ProposeLog
  <2> HIDE DEF r
  <2>3. TakesInput(i, r)
    BY <2>1, <2>2 DEF TakesInput, Takes
  <2> QED BY <2>3 DEF r
<1>4. ASSUME NEW m \in net, Deliver(m) \/ DeliverDuplicate(m)
      PROVE  \E i \in Server : \E r : TakesInput(i, r)
  <2> DEFINE i == m.to
             r == StepBytes(i, node[i], m)
  <2>1. m \in Message /\ i \in Server /\ m.from \in Server
    BY <1>1, ElectionTypes DEF Safe
  <2>2. /\ Update(i, r) /\ disk' = disk /\ net' \subseteq net
        /\ applied_log' = applied_log /\ commit_terms' = commit_terms
    BY <1>4 DEF Deliver, DeliverDuplicate, Input
  <2>3. Decodes(m) /\ m.from # m.to
    BY DEF Safe, LogInv, MailInv, Mail
  <2>4. ASSUME IsAck(m), node[i].role = "leader", m.term = node[i].term
        PROVE  m.index <= Len(node[i].log)
    <3>1. Confirmed(i, m.from, m.index)
      BY <2>1, <2>4 DEF Safe, LogInv, AckInv, AckFor
    <3>2. m.index \in Nat /\ Len(node[i].log) \in Nat
      <4>1. m.type = "append_resp"
        BY <2>4 DEF IsAck
      <4>2. Len(node[i].log) \in Nat
        BY <1>1, <2>1, NodeFields, LenProperties DEF NodeOK
      <4> QED BY <2>1, <4>1, <4>2 DEF Message
    <3> QED BY SMTT(30), <3>1, <3>2 DEF Confirmed
  <2>5. m.to = i
    OBVIOUS
  <2> HIDE DEF i
  <2>6. NodeOK(i, r) /\ VoteStep(i, node[i], r) /\ LogStep(i, node[i], r)
    BY SMTT(30), <1>1, <2>1, <2>3, <2>4, <2>5,
       StepBytesType, StepBytesVote, StepBytesLog
  <2> HIDE DEF r
  <2>7. TakesInput(i, r)
    BY <2>2, <2>6 DEF TakesInput, Takes
  <2> QED BY <2>1, <2>7
<1>5. CASE UNCHANGED vars
  <2>1. /\ node' = node /\ disk' = disk /\ net' = net /\ leaders' = leaders
        /\ applied_log' = applied_log /\ commit_terms' = commit_terms
    BY <1>5 DEF vars
  <2>2. PICK i \in Server : TRUE
    BY ServerAssumption
  <2>3. Quiet(i, node[i], node[i])
    BY DEF Quiet
  <2>4. NodeOK(i, node[i]) /\ VoteStep(i, node[i], node[i]) /\ LogStep(i, node[i], node[i])
    BY SMTT(30), <1>1, <2>3, QuietIsVoteStep, IdleLog DEF NodeOK
  <2>5. Update(i, node[i])
    BY <1>1, <2>1 DEF Update, Safe, ElectionInv, LeaderInv
  <2>6. TakesInput(i, node[i])
    BY <2>1, <2>4, <2>5 DEF TakesInput, Takes
  <2> QED BY <2>6
<1> QED BY <1>2, <1>3, <1>4, <1>5 DEF Next, ServerStep

(* Every step of the cluster is one that the invariants tell apart: a       *)
(* server drains, restarts, or takes an input.                              *)
LEMMA EveryStep == Counting /\ Safe /\ [Next]_vars => ClusterStep
<1> SUFFICES ASSUME Counting, Safe, [Next]_vars PROVE ClusterStep
  OBVIOUS
<1>1. PICK i \in Server : Drain(i) \/ Restart(i) \/ \E r : TakesInput(i, r)
  BY Steps
<1>2. CASE Drain(i)
  BY <1>2, DrainEffect DEF ClusterStep
<1>3. CASE Restart(i)
  BY <1>3, RestartEffect DEF ClusterStep
<1>4. CASE \E r : TakesInput(i, r)
  BY <1>4 DEF ClusterStep
<1> QED BY <1>1, <1>2, <1>3, <1>4

(* The disk, with the pending cut taken, is the persisted part of the log.  *)
LEMMA SafeMirrors == Safe => DiskMirrorsNode
<1> SUFFICES ASSUME Safe, NEW i \in Server
             PROVE  /\ SaveTruncation(disk[i], node[i]).log = SubSeq(node[i].log, 1, node[i].stable)
                    /\ ~node[i].hs_dirty => /\ disk[i].term = node[i].term
                                            /\ disk[i].voted_for = node[i].voted_for
  BY DEF DiskMirrorsNode
<1>1. Mirrors(disk[i], node[i]) /\ disk[i] \in DiskType /\ Bounded(node[i])
  BY ElectionTypes DEF Safe, LogInv, DiskInv
<1>2. ~node[i].hs_dirty => disk[i].term = node[i].term /\ disk[i].voted_for = node[i].voted_for
  BY DEF Safe, ElectionInv, DiskBehind
<1> QED BY <1>1, <1>2, MirrorsDisk

-----------------------------------------------------------------------------
(* Slots that agree *)

(* Two logs whose slots agree, and which have the same term at k, are equal *)
(* up to k: look at the last place below k where they would differ.         *)
LEMMA AgreeUpTo ==
  ASSUME Counting, NEW a \in Seq(Entry), NEW b \in Seq(Entry), NEW S, SlotsAgree(S),
         LogSlots(a) \subseteq S, LogSlots(b) \subseteq S,
         NEW k \in Nat, k <= Len(a), k <= Len(b), TermAt(a, k) = TermAt(b, k)
  PROVE  \A j \in 1 .. k : a[j] = b[j]
<1>1. Len(a) \in Nat /\ Len(b) \in Nat
  BY LenProperties
<1>2. ASSUME NEW j \in 1 .. k, a[j].term = b[j].term
      PROVE  a[j] = b[j] /\ TermAt(a, j - 1) = TermAt(b, j - 1)
  <2>1. SlotOf(a, j) \in S /\ SlotOf(b, j) \in S
    BY SMTT(30), <1>1 DEF LogSlots
  <2>2. /\ SlotOf(a, j).entry.term = SlotOf(b, j).entry.term
        /\ SlotOf(a, j).index = SlotOf(b, j).index
    BY <1>2 DEF SlotOf
  <2>3. SlotOf(a, j) = SlotOf(b, j)
    BY <2>1, <2>2 DEF SlotsAgree
  <2> QED BY <2>3 DEF SlotOf
<1> DEFINE D == { j \in 1 .. k : a[j] # b[j] }
<1> SUFFICES ASSUME D # {} PROVE FALSE
  OBVIOUS
<1>3. D \in SUBSET Nat /\ \A j \in D : j <= k
  BY SMTT(30)
<1> DEFINE j == Max(D)
<1> HIDE DEF D
<1>4. j \in D /\ \A x \in D : j >= x
  BY <1>3, MaxProperties
<1> HIDE DEF j
<1>5. j \in 1 .. k /\ a[j] # b[j]
  BY <1>4 DEF D
<1>6. CASE j = k
  <2>1. a[k].term = b[k].term
    BY SMTT(30), <1>5, <1>6 DEF TermAt
  <2> QED BY <1>2, <1>5, <1>6, <2>1
<1>7. CASE j # k
  <2>1. j + 1 \in 1 .. k /\ (j + 1) - 1 = j /\ ~(j >= j + 1)
    BY SMTT(30), <1>5, <1>7
  <2>2. a[j + 1] = b[j + 1]
    BY <1>4, <2>1 DEF D
  <2>3. TermAt(a, j) = TermAt(b, j)
    BY <1>2, <2>1, <2>2
  <2>4. a[j].term = b[j].term
    BY SMTT(30), <1>5, <2>3 DEF TermAt
  <2> QED BY <1>2, <1>5, <2>4
<1> QED BY <1>6, <1>7

(* Later entries have later terms.                                          *)
LEMMA TermsAscend ==
  ASSUME Counting, NEW log \in Seq(Entry),
         \A x \in 1 .. Len(log) : TermAt(log, x - 1) <= log[x].term, NEW j \in Nat, NEW k \in Nat,
         1 <= j, j <= k, k <= Len(log)
  PROVE  log[j].term <= log[k].term
<1>1. Len(log) \in Nat /\ \A x \in 1 .. Len(log) : log[x].term \in Nat
  BY SMTT(30), EntryTerm DEF Term
<1> DEFINE D == { x \in j .. k : log[x].term < log[j].term }
<1> SUFFICES ASSUME ~(log[j].term <= log[k].term) PROVE FALSE
  OBVIOUS
<1>2. D \in SUBSET Nat /\ k \in D
  BY SMTT(30), <1>1
<1> HIDE DEF D
<1>3. PICK m \in D : \A x \in D : m <= x
  BY <1>2, NatMin
<1>4. m \in j .. k /\ log[m].term < log[j].term
  BY <1>3 DEF D
<1>5. m # j
  BY SMTT(30), <1>1, <1>4
<1>6. m - 1 \in j .. k /\ ~(m <= m - 1) /\ m - 1 # 0 /\ m \in 1 .. Len(log) /\ m - 1 \in 1 .. Len(log)
  BY SMTT(30), <1>1, <1>4, <1>5
<1>7. m - 1 \notin D
  BY <1>3, <1>6
<1>8. ~(log[m - 1].term < log[j].term)
  BY <1>6, <1>7 DEF D
<1>9. log[m - 1].term <= log[m].term
  BY <1>6 DEF TermAt
<1>10. j \in 1 .. Len(log)
  BY SMTT(30), <1>1
<1>11. log[m - 1].term \in Nat /\ log[m].term \in Nat /\ log[j].term \in Nat
  BY <1>1, <1>6, <1>10
<1> QED BY SMTT(30), <1>4, <1>8, <1>9, <1>11

(* A log with an entry of the top term of p at or after the end of p has p: *)
(* its entries of that term lead back to it.                                *)
LEMMA TermLeadsBack ==
  ASSUME Counting, NEW a \in Seq(Entry), NEW p \in Seq(Entry), NEW S, SlotsAgree(S),
         LogSlots(a) \subseteq S, LogSlots(p) \subseteq S, Len(p) # 0,
         NEW k \in Nat, Len(p) <= k, k <= Len(a), a[k].term = p[Len(p)].term
  PROVE  Prefix(p, a)
<1> DEFINE T == p[Len(p)].term
<1>1. Len(a) \in Nat /\ Len(p) \in Nat
  BY LenProperties
<1>2. a[Len(p)].term = T
  <2> DEFINE D == { x \in Len(p) .. k : a[x].term # T }
  <2> SUFFICES ASSUME a[Len(p)].term # T PROVE FALSE
    OBVIOUS
  <2>1. D \in SUBSET Nat /\ D # {} /\ \A x \in D : x <= k
    BY SMTT(30), <1>1
  <2> DEFINE m == Max(D)
  <2> HIDE DEF D
  <2>2. m \in D /\ \A x \in D : m >= x
    BY <2>1, MaxProperties
  <2> HIDE DEF m
  <2>3. m \in Len(p) .. k /\ a[m].term # T
    BY <2>2 DEF D
  <2>4. m # k
    BY <2>3
  <2>5. /\ m + 1 \in Len(p) .. k /\ m + 1 \in 1 .. Len(a) /\ ~(m >= m + 1) /\ (m + 1) - 1 = m
        /\ m # 0 /\ Len(p) \in 1 .. Len(p) /\ Len(p) < m + 1
    BY SMTT(30), <1>1, <2>3, <2>4
  <2>6. a[m + 1].term = T
    BY <2>2, <2>5 DEF D
  <2>7. SlotOf(a, m + 1) \in S /\ SlotOf(p, Len(p)) \in S
    BY <2>5 DEF LogSlots
  <2>8. /\ SlotOf(a, m + 1).index = m + 1 /\ SlotOf(a, m + 1).entry.term = T
        /\ SlotOf(a, m + 1).prev = TermAt(a, m)
        /\ SlotOf(p, Len(p)).index = Len(p) /\ SlotOf(p, Len(p)).entry.term = T
    BY <2>5, <2>6 DEF SlotOf
  <2>9. TermAt(a, m) = T
    BY <2>5, <2>7, <2>8 DEF SlotsAgree
  <2> QED BY <2>3, <2>5, <2>9 DEF TermAt
<1>3. Len(p) <= Len(a) /\ TermAt(p, Len(p)) = TermAt(a, Len(p))
  BY SMTT(30), <1>1, <1>2 DEF TermAt
<1>4. \A j \in 1 .. Len(p) : p[j] = a[j]
  BY SMTT(30), <1>1, <1>3, AgreeUpTo
<1> QED BY <1>3, <1>4 DEF Prefix

(* Slots that agree, none before an earlier term, make tidy logs.           *)
LEMMA SlotsAreTidy ==
  ASSUME Counting, NEW S, SlotsAgree(S), \A s \in S : s.entry.term # 0 /\ s.prev <= s.entry.term
  PROVE  Tidy(S)
<1> SUFFICES ASSUME NEW a \in Seq(Entry), NEW b \in Seq(Entry),
                    LogSlots(a) \subseteq S, LogSlots(b) \subseteq S
             PROVE  /\ Ordered(a)
                    /\ \A k \in Nat : (k <= Len(a) /\ k <= Len(b) /\ TermAt(a, k) = TermAt(b, k))
                                        => \A j \in 1 .. k : a[j] = b[j]
                    /\ \A k \in Nat :
                         (Len(b) # 0 /\ Len(b) <= k /\ k <= Len(a) /\ a[k].term = b[Len(b)].term)
                           => Prefix(b, a)
  BY DEF Tidy
<1>1. Len(a) \in Nat
  BY SMTT(30)
<1>2. \A x \in 1 .. Len(a) : a[x].term # 0 /\ TermAt(a, x - 1) <= a[x].term
  <2> SUFFICES ASSUME NEW x \in 1 .. Len(a)
               PROVE  a[x].term # 0 /\ TermAt(a, x - 1) <= a[x].term
    OBVIOUS
  <2>1. SlotOf(a, x) \in S
    BY DEF LogSlots
  <2>2. SlotOf(a, x).entry.term # 0 /\ SlotOf(a, x).prev <= SlotOf(a, x).entry.term
    BY <2>1
  <2> QED BY <2>2 DEF SlotOf
<1>3. Ordered(a)
  <2> SUFFICES ASSUME NEW k \in 1 .. Len(a), NEW j \in 1 .. k PROVE a[j].term <= a[k].term
    BY <1>2 DEF Ordered
  <2>1. j \in Nat /\ k \in Nat /\ 1 <= j /\ j <= k /\ k <= Len(a)
    BY SMTT(30), <1>1
  <2> QED BY <1>2, <2>1, TermsAscend
<1>4. ASSUME NEW k \in Nat, k <= Len(a), k <= Len(b), TermAt(a, k) = TermAt(b, k)
      PROVE  \A j \in 1 .. k : a[j] = b[j]
  BY <1>4, AgreeUpTo
<1>5. ASSUME NEW k \in Nat, Len(b) # 0, Len(b) <= k, k <= Len(a), a[k].term = b[Len(b)].term
      PROVE  Prefix(b, a)
  BY <1>5, TermLeadsBack
<1> QED BY <1>3, <1>4, <1>5

(* The slots of a cluster make tidy logs.                                   *)
LEMMA SlotsTidy == Counting /\ SlotInv => Tidy(Slots)
<1> SUFFICES ASSUME Counting, SlotInv PROVE Tidy(Slots)
  OBVIOUS
<1> DEFINE S == Slots
<1>1. SlotsAgree(S) /\ \A s \in S : s.entry.term # 0 /\ s.prev <= s.entry.term
  BY DEF SlotInv
<1> HIDE DEF S
<1>2. Tidy(S)
  BY <1>1, SlotsAreTidy
<1> QED BY <1>2 DEF S

=============================================================================
