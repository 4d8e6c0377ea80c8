---------------------------- MODULE RaftHandlers ----------------------------
(*****************************************************************************)
(* What the operations of node.zig do to the types and to the votes, for a  *)
(* cluster of any size, with any values and any bounds.  Every operation    *)
(* takes a well-typed node to a well-typed node, and the arithmetic         *)
(* sendAppend does on next and match never leaves the log.  Every operation *)
(* is a vote step: it votes at most once in a term, marks the hard state    *)
(* when it does, counts only votes in flight, and a batch is persisted with *)
(* its vote before it is sent.                                              *)
(*****************************************************************************)
EXTENDS Raft, RaftElectionInv, TLAPS

(* Zenon proves the steps, unless they name another prover; it gets the     *)
(* time a loaded machine may need.                                          *)
USE ZenonT(30)

-----------------------------------------------------------------------------
(* Types, numbers and sequences *)

(* The fields of a bounded node, for the proofs that only read some of      *)
(* them.                                                                    *)
LEMMA NodeFields ==
  ASSUME NEW n, Bounded(n)
  PROVE  /\ n.term \in Term /\ n.voted_for \in Server \union {None}
         /\ n.log \in Seq(Entry) /\ LastIndex(n.log) \in Nat
         /\ n.commit \in Nat /\ n.applied \in Nat
         /\ n.stable \in Nat /\ n.stable <= LastIndex(n.log)
         /\ n.votes \in SUBSET Server
         /\ n.next \in [Server -> Nat] /\ n.match \in [Server -> Nat]
         /\ n.truncated \in Nat \union {None} /\ n.msgs \in SUBSET Message
BY SMTT(30) DEF Bounded, NodeType, LastIndex

(* The term of an entry of a log is a term.                                 *)
LEMMA EntryTerm ==
  ASSUME NEW log \in Seq(Entry), NEW k \in 1 .. Len(log)
  PROVE  log[k] \in Entry /\ log[k].term \in Term
<1>1. log[k] \in Entry
  BY SMTT(30)
<1> QED BY <1>1 DEF Entry

(* lastTerm of a log is a term, 0 for the empty log.                        *)
LEMMA LastTermType ==
  ASSUME NEW log \in Seq(Entry)
  PROVE  LastTerm(log) \in Term
<1>1. CASE log = <<>>
  BY SMTT(30), <1>1, MaxTermAssumption DEF LastTerm, Term
<1>2. CASE log # <<>>
  <2>1. Len(log) \in 1 .. Len(log)
    BY SMTT(30), <1>2
  <2> QED BY <2>1, <1>2, EntryTerm DEF LastTerm
<1> QED BY <1>1, <1>2

(* The types the arguments below use.                                       *)
LEMMA ElectionTypes ==
  ASSUME TypeInv
  PROVE  /\ \A i \in Server : /\ Bounded(node[i]) /\ node[i].term \in Nat
                              /\ disk[i].term \in Nat
         /\ node \in [Server -> NodeType] /\ disk \in [Server -> DiskType]
         /\ net \in SUBSET Message /\ leaders \in SUBSET (Term \X Server)
         /\ \A m \in Message : m.from \in Server /\ m.to \in Server /\ m.term \in Term
         /\ Term \subseteq Nat
<1>1. Term \subseteq Nat
  BY SMTT(30) DEF Term
<1>2. \A m \in Message : m.from \in Server /\ m.to \in Server /\ m.term \in Term
  BY DEF Message
<1>3. \A i \in Server : Bounded(node[i]) /\ node[i].term \in Term
  BY NodeFields DEF TypeInv, NodeOK
<1>4. \A i \in Server : disk[i].term \in Term
  BY DEF TypeInv, TypeOK, DiskType
<1> QED BY <1>1, <1>2, <1>3, <1>4 DEF TypeInv, TypeOK

(* The entries of a sequence are elements of its type.                      *)
LEMMA ElementOfSeq ==
  ASSUME NEW S, NEW s \in Seq(S), NEW k \in 1 .. Len(s)
  PROVE  s[k] \in S
BY SMTT(30)

(* A sequence is a function on the indices up to its length.                *)
LEMMA LenProperties ==
  ASSUME NEW S, NEW s \in Seq(S)
  PROVE  Len(s) \in Nat /\ s \in [1 .. Len(s) -> S] /\ DOMAIN s = 1 .. Len(s)
BY SMTT(30)

(* Sequences of one length that agree everywhere are the same.              *)
LEMMA SeqEqual ==
  ASSUME NEW S, NEW a \in Seq(S), NEW b \in Seq(S), Len(a) = Len(b),
         \A k \in 1 .. Len(a) : a[k] = b[k]
  PROVE  a = b
<1>1. Len(a) \in Nat /\ a \in [1 .. Len(a) -> S] /\ b \in [1 .. Len(a) -> S]
  BY SMTT(30)
<1> QED BY SMTT(30), <1>1

(* The entries of a concatenation.                                          *)
LEMMA ConcatProperties ==
  ASSUME NEW S, NEW a \in Seq(S), NEW b \in Seq(S)
  PROVE  /\ a \o b \in Seq(S) /\ Len(a \o b) = Len(a) + Len(b)
         /\ \A k \in 1 .. Len(a) + Len(b) :
              (a \o b)[k] = IF k <= Len(a) THEN a[k] ELSE b[k - Len(a)]
<1>1. a \o b \in Seq(S)
  BY SMTT(30)
<1>2. Len(a \o b) = Len(a) + Len(b)
  BY SMTT(30)
<1>3. \A k \in 1 .. Len(a) + Len(b) :
        (a \o b)[k] = IF k <= Len(a) THEN a[k] ELSE b[k - Len(a)]
  BY SMTT(30)
<1> QED BY <1>1, <1>2, <1>3

(* The entries of a subsequence.                                            *)
LEMMA SubSeqProperties ==
  ASSUME NEW S, NEW s, NEW from \in Int, NEW to \in Int,
         \A k \in from .. to : s[k] \in S
  PROVE  /\ SubSeq(s, from, to) \in Seq(S)
         /\ Len(SubSeq(s, from, to)) = IF from <= to THEN to - from + 1 ELSE 0
         /\ \A k \in 1 .. to - from + 1 : SubSeq(s, from, to)[k] = s[from + k - 1]
<1>1. Len(SubSeq(s, from, to)) = IF from <= to THEN to - from + 1 ELSE 0
  BY SMTT(30)
<1>2. \A k \in 1 .. to - from + 1 : SubSeq(s, from, to)[k] = s[from + k - 1]
  BY SMTT(30)
<1>3. SubSeq(s, from, to) \in Seq(S)
  BY SMTT(30)
<1> QED BY <1>1, <1>2, <1>3

(* The entries of a sequence with one more.                                 *)
LEMMA AppendProperties ==
  ASSUME NEW S, NEW s \in Seq(S), NEW e \in S
  PROVE  /\ Append(s, e) \in Seq(S) /\ Len(Append(s, e)) = Len(s) + 1
         /\ \A k \in 1 .. Len(s) : Append(s, e)[k] = s[k]
         /\ Append(s, e)[Len(s) + 1] = e
BY SMTT(30)

(* Two adjacent subsequences make one.                                      *)
LEMMA AdjacentSubSeqs ==
  ASSUME NEW S, NEW s \in Seq(S), NEW k \in 0 .. Len(s), NEW to \in k .. Len(s)
  PROVE  SubSeq(s, 1, k) \o SubSeq(s, k + 1, to) = SubSeq(s, 1, to)
<1> DEFINE a == SubSeq(s, 1, k)
           b == SubSeq(s, k + 1, to)
           c == SubSeq(s, 1, to)
<1>1. Len(s) \in Nat /\ k \in Nat /\ to \in Nat /\ k <= to /\ to <= Len(s)
  BY SMTT(30), LenProperties
<1>2. \A j \in 1 .. Len(s) : s[j] \in S
  BY ElementOfSeq
<1>3. /\ a \in Seq(S) /\ Len(a) = (IF 1 <= k THEN k - 1 + 1 ELSE 0)
      /\ \A j \in 1 .. k - 1 + 1 : a[j] = s[1 + j - 1]
  BY SMTT(30), <1>1, <1>2, SubSeqProperties
<1>4. /\ b \in Seq(S) /\ Len(b) = (IF k + 1 <= to THEN to - (k + 1) + 1 ELSE 0)
      /\ \A j \in 1 .. to - (k + 1) + 1 : b[j] = s[(k + 1) + j - 1]
  BY SMTT(30), <1>1, <1>2, SubSeqProperties
<1>5. /\ c \in Seq(S) /\ Len(c) = (IF 1 <= to THEN to - 1 + 1 ELSE 0)
      /\ \A j \in 1 .. to - 1 + 1 : c[j] = s[1 + j - 1]
  BY SMTT(30), <1>1, <1>2, SubSeqProperties
<1> HIDE DEF a, b, c
<1>6. /\ Len(a) = k /\ \A j \in 1 .. k : a[j] = s[j]
      /\ Len(b) = to - k /\ \A j \in 1 .. to - k : b[j] = s[k + j]
      /\ Len(c) = to /\ \A j \in 1 .. to : c[j] = s[j]
  BY SMTT(30), <1>1, <1>3, <1>4, <1>5
<1>7. /\ a \o b \in Seq(S) /\ Len(a \o b) = Len(a) + Len(b)
      /\ \A j \in 1 .. Len(a) + Len(b) :
           (a \o b)[j] = IF j <= Len(a) THEN a[j] ELSE b[j - Len(a)]
  BY <1>3, <1>4, ConcatProperties
<1> DEFINE d == a \o b
<1>8. d \in Seq(S) /\ Len(d) = to
      /\ \A j \in 1 .. to : d[j] = IF j <= k THEN a[j] ELSE b[j - k]
  BY SMTT(30), <1>1, <1>6, <1>7
<1> HIDE DEF d
<1>9. ASSUME NEW j \in 1 .. to PROVE d[j] = c[j]
  <2>1. CASE j <= k
    BY SMTT(30), <1>1, <1>6, <1>8, <2>1
  <2>2. CASE j > k
    <3>1. j - k \in 1 .. to - k /\ k + (j - k) = j
      BY SMTT(30), <1>1, <2>2
    <3>2. b[j - k] = s[k + (j - k)]
      BY <1>6, <3>1
    <3> QED BY SMTT(30), <1>1, <1>6, <1>8, <2>2, <3>1, <3>2
  <2> QED BY SMTT(30), <1>1, <2>1, <2>2
<1>10. d = c
  BY <1>5, <1>6, <1>8, <1>9, SeqEqual
<1> QED BY <1>10 DEF a, b, c, d

(* The subsequence up to the end is the sequence.                           *)
LEMMA SubSeqFull ==
  ASSUME NEW S, NEW s \in Seq(S)
  PROVE  SubSeq(s, 1, Len(s)) = s
<1> DEFINE a == SubSeq(s, 1, Len(s))
<1>1. Len(s) \in Nat /\ \A j \in 1 .. Len(s) : s[j] \in S
  BY LenProperties, ElementOfSeq
<1>2. /\ a \in Seq(S) /\ Len(a) = (IF 1 <= Len(s) THEN Len(s) - 1 + 1 ELSE 0)
      /\ \A j \in 1 .. Len(s) - 1 + 1 : a[j] = s[1 + j - 1]
  BY SMTT(30), <1>1, SubSeqProperties
<1> HIDE DEF a
<1>3. Len(a) = Len(s) /\ \A j \in 1 .. Len(a) : a[j] = s[j]
  BY SMTT(30), <1>1, <1>2
<1>4. a = s
  BY <1>2, <1>3, SeqEqual
<1> QED BY <1>4 DEF a

(* What the induction principle for naturals says of sets: a nonempty one   *)
(* has a least element.                                                     *)
LEMMA NatMin ==
  ASSUME Counting, NEW S \in SUBSET Nat, S # {}
  PROVE  \E m \in S : \A k \in S : m <= k
BY DEF Counting

(* Min of a nonempty set of naturals is a member of it and below the        *)
(* others.                                                                  *)
LEMMA MinProperties ==
  ASSUME Counting, NEW S \in SUBSET Nat, S # {}
  PROVE  Min(S) \in S /\ \A k \in S : Min(S) <= k
BY NatMin DEF Min

(* Max of a bounded nonempty set of naturals is a member of it and above    *)
(* the others (the largest index leaderCommitIndex can commit).             *)
LEMMA MaxProperties ==
  ASSUME Counting, NEW S \in SUBSET Nat, S # {}, NEW b \in Nat, \A k \in S : k <= b
  PROVE  Max(S) \in S /\ \A k \in S : Max(S) >= k
<1> DEFINE D == { b - k : k \in S }
<1>1. D \in SUBSET Nat /\ D # {}
  <2>1. \A k \in S : b - k \in Nat
    BY SMTT(30)
  <2>2. PICK k \in S : TRUE
    OBVIOUS
  <2>3. b - k \in D
    OBVIOUS
  <2> QED BY <2>1, <2>3
<1>2. PICK d \in D : \A k \in D : d <= k
  <2> HIDE DEF D
  <2> QED BY <1>1, NatMin
<1>3. PICK m \in S : d = b - m
  OBVIOUS
<1>4. \A k \in S : m >= k
  <2> TAKE k \in S
  <2>1. b - k \in D
    OBVIOUS
  <2> QED BY SMTT(30), <2>1, <1>2, <1>3
<1> QED BY <1>4 DEF Max

(* @min of two integers.                                                    *)
LEMMA MinPair ==
  ASSUME NEW a \in Int, NEW b \in Int
  PROVE  Min({a, b}) = IF a <= b THEN a ELSE b
BY SMTT(30) DEF Min

(* @max of two integers.                                                    *)
LEMMA MaxPair ==
  ASSUME NEW a \in Int, NEW b \in Int
  PROVE  Max({a, b}) = IF a >= b THEN a ELSE b
BY SMTT(30) DEF Max

(* The larger of two counts is a count.                                     *)
LEMMA MaxNat ==
  ASSUME NEW a \in Nat, NEW b \in Nat
  PROVE  Max({a, b}) \in Nat
BY SMTT(30), MaxPair

-----------------------------------------------------------------------------
(* The types of the operations *)

(* An operation that leaves role, log, next and match alone keeps a node in *)
(* order.                                                                   *)
LEMMA SameLogNextMatch ==
  ASSUME NEW i, NEW n, NEW q, NodeOK(i, n), Bounded(q), q.role = n.role,
         q.log = n.log, q.next = n.next, q.match = n.match
  PROVE  NodeOK(i, q)
BY DEF NodeOK, Sendable

(* Queueing messages (pushing to msgs) disturbs nothing.                    *)
LEMMA SendType ==
  ASSUME NEW n, Bounded(n), NEW ms \in SUBSET Message
  PROVE  /\ Bounded(Send(n, ms))
         /\ \A i : Sendable(i, n) => Sendable(i, Send(n, ms))
BY DEF Send, Bounded, Sendable, NodeType, LastIndex

(* becomeFollower keeps the types and gives up leadership.                  *)
LEMMA BecomeFollowerType ==
  ASSUME NEW n, Bounded(n), NEW t \in Term
  PROVE  /\ Bounded(BecomeFollower(n, t))
         /\ BecomeFollower(n, t).role = "follower"
BY MaxTermAssumption DEF Bounded, BecomeFollower, NodeType, Term, LastIndex

(* sendAppend builds a well-typed AppendEntries: the previous index is in   *)
(* the log or 0, and the batch is a slice of the log.                       *)
LEMMA AppendReqType ==
  ASSUME NEW i \in Server, NEW n, Bounded(n), Sendable(i, n), NEW p \in Peers(i)
  PROVE  AppendReqTo(i, n, p) \in Message
<1> DEFINE prev  == n.next[p] - 1
           count == Min({LastIndex(n.log) - prev, MaxAppend})
<1>1. /\ n.log \in Seq(Entry) /\ n.next[p] \in Nat /\ n.match[p] \in Nat
      /\ n.term \in Term /\ n.commit \in Nat /\ p \in Server
  BY DEF Bounded, NodeType, Peers
<1>2. prev \in Nat /\ prev <= Len(n.log)
  BY SMTT(30), <1>1 DEF Sendable, LastIndex
<1>3. count \in Nat /\ prev + count <= Len(n.log)
  <2>1. LastIndex(n.log) - prev \in Nat /\ MaxAppend \in Nat
    BY SMTT(30), <1>1, <1>2, MaxAppendAssumption DEF LastIndex
  <2>2. count \in Nat /\ count <= LastIndex(n.log) - prev
    <3> HIDE DEF prev
    <3> QED BY SMTT(30), <2>1, MinPair
  <2> HIDE DEF prev, count
  <2> QED BY SMTT(30), <2>2, <1>1, <1>2 DEF LastIndex
<1> HIDE DEF prev, count
<1>4. SubSeq(n.log, prev + 1, prev + count) \in Seq(Entry)
  BY SMTT(30), <1>1, <1>2, <1>3, SubSeqProperties
<1>5. TermAt(n.log, prev) \in Term
  <2>1. CASE prev = 0
    BY SMTT(30), <2>1, MaxTermAssumption DEF TermAt, Term
  <2>2. CASE prev # 0
    <3>1. n.log[prev] \in Entry
      BY SMTT(30), <2>2, <1>1, <1>2, ElementOfSeq
    <3> QED BY <3>1, <2>2 DEF TermAt, Entry
  <2> QED BY <2>1, <2>2
<1> QED BY <1>1, <1>2, <1>4, <1>5 DEF AppendReqTo, Message, prev, count

(* bcastAppend keeps a leader in order.                                     *)
LEMMA BcastAppendType ==
  ASSUME NEW i \in Server, NEW n, Bounded(n), Sendable(i, n)
  PROVE  Bounded(BcastAppend(i, n)) /\ Sendable(i, BcastAppend(i, n))
<1> DEFINE b == [n EXCEPT !.bcast_pending = FALSE]
           ms == {AppendReqTo(i, n, p) : p \in Peers(i)}
<1>1. Bounded(b) /\ Sendable(i, b)
  BY DEF Bounded, Sendable, NodeType, LastIndex
<1>2. ms \in SUBSET Message
  BY AppendReqType
<1> HIDE DEF b, ms
<1>3. Bounded(Send(b, ms)) /\ Sendable(i, Send(b, ms))
  BY <1>1, <1>2, SendType
<1> QED BY <1>3 DEF BcastAppend, b, ms

(* sendAppend keeps a leader in order.                                      *)
LEMMA SendAppendType ==
  ASSUME NEW i \in Server, NEW n, Bounded(n), Sendable(i, n), NEW p \in Peers(i)
  PROVE  Bounded(SendAppend(i, n, p)) /\ Sendable(i, SendAppend(i, n, p))
BY AppendReqType, SendType DEF SendAppend

(* Replacing the log by one that still has the persisted part.              *)
LEMMA WithLogType ==
  ASSUME NEW n, Bounded(n), NEW log \in Seq(Entry), n.stable <= Len(log)
  PROVE  /\ Bounded([n EXCEPT !.log = log])
         /\ [n EXCEPT !.log = log].log = log
BY DEF Bounded, NodeType, LastIndex

(* appendLocal grows the log by one and keeps next within it.               *)
LEMMA AppendLocalType ==
  ASSUME NEW n, Bounded(n), NEW val \in Value \union {Noop}
  PROVE  /\ Bounded(AppendLocal(n, val))
         /\ LastIndex(AppendLocal(n, val).log) = LastIndex(n.log) + 1
         /\ \A i : Sendable(i, n) => Sendable(i, AppendLocal(n, val))
<1> DEFINE e == [term |-> n.term, val |-> val]
           a == [n EXCEPT !.log = Append(n.log, e)]
<1>1. e \in Entry /\ n.log \in Seq(Entry)
  BY DEF Bounded, NodeType, Entry
<1>2. Append(n.log, e) \in Seq(Entry) /\ Len(Append(n.log, e)) = Len(n.log) + 1
  <2> HIDE DEF e
  <2> QED BY SMTT(30), <1>1, AppendProperties
<1> HIDE DEF e
<1>3. Bounded(a) /\ Len(a.log) = Len(n.log) + 1
  <2>1. n.stable <= Len(n.log) + 1
    BY SMTT(30), <1>1 DEF Bounded, NodeType, LastIndex
  <2> QED BY <2>1, <1>2, WithLogType
<1>4. \A i : Sendable(i, n) => Sendable(i, a)
  <2> SUFFICES ASSUME NEW i, Sendable(i, n), NEW p \in Peers(i)
               PROVE  a.match[p] < a.next[p] /\ a.next[p] <= LastIndex(a.log) + 1
    BY DEF Sendable
  <2>1. a.match = n.match /\ a.next = n.next
    BY DEF Bounded, NodeType
  <2>2. n.next[p] \in Nat /\ LastIndex(n.log) \in Nat
    BY SMTT(30), <1>1 DEF Bounded, NodeType, LastIndex, Peers
  <2> HIDE DEF a
  <2> QED BY SMTT(30), <2>1, <2>2, <1>3 DEF Sendable, LastIndex
<1>5. AppendLocal(n, val) = a
  BY DEF AppendLocal, e
<1> HIDE DEF a
<1> QED BY <1>3, <1>4, <1>5 DEF LastIndex

(* becomeLeader starts every peer at next = lastIndex + 1 and match = 0,    *)
(* which is in order, and the no-op it then appends keeps it so.            *)
LEMMA BecomeLeaderType ==
  ASSUME NEW i \in Server, NEW n, Bounded(n)
  PROVE  NodeOK(i, BecomeLeader(i, n))
<1> DEFINE next  == [s \in Server |-> LastIndex(n.log) + 1]
           match == [s \in Server |-> IF s = i THEN n.stable ELSE 0]
           m     == [n EXCEPT !.role = "leader", !.leader = i,
                              !.next = next, !.match = match]
<1>1. Bounded(m) /\ Sendable(i, m)
  <2>1. LastIndex(n.log) \in Nat /\ n.stable \in Nat
    BY SMTT(30) DEF Bounded, NodeType, LastIndex
  <2>2. /\ next \in [Server -> Nat] /\ match \in [Server -> Nat]
        /\ \A p \in Peers(i) : match[p] = 0 /\ next[p] = LastIndex(n.log) + 1
    BY SMTT(30), <2>1 DEF Peers
  <2> HIDE DEF next, match
  <2>3. Bounded(m) /\ m.next = next /\ m.match = match /\ m.log = n.log
    BY <2>2 DEF Bounded, NodeType
  <2> HIDE DEF m
  <2> QED BY SMTT(30), <2>1, <2>2, <2>3 DEF Sendable
<1>2. BecomeLeader(i, n) = BcastAppend(i, AppendLocal(m, Noop))
  BY DEF BecomeLeader
<1> HIDE DEF m
<1>3. Bounded(AppendLocal(m, Noop)) /\ Sendable(i, AppendLocal(m, Noop))
  BY <1>1, AppendLocalType
<1>4. Bounded(BecomeLeader(i, n)) /\ Sendable(i, BecomeLeader(i, n))
  BY <1>2, <1>3, BcastAppendType
<1> QED BY <1>4 DEF NodeOK

(* campaign stops at max_term, and a single server that wins at once        *)
(* becomes a leader in order.                                               *)
LEMMA CampaignType ==
  ASSUME NEW i \in Server, NEW n, NodeOK(i, n)
  PROVE  NodeOK(i, Campaign(i, n))
<1>1. CASE n.term >= MaxTerm
  BY <1>1 DEF Campaign
<1>2. CASE ~(n.term >= MaxTerm)
  <2> DEFINE t == n.term + 1
             c == [n EXCEPT !.term = t, !.voted_for = i, !.hs_dirty = TRUE,
                            !.role = "candidate", !.leader = None, !.votes = {i}]
             ms == { [type |-> "vote_req", from |-> i, to |-> p, term |-> c.term,
                      last_log_index |-> LastIndex(c.log),
                      last_log_term  |-> LastTerm(c.log)] : p \in Peers(i) }
  <2>1. t \in Term
    BY SMTT(30), <1>2, NodeFields, MaxTermAssumption DEF Term, NodeOK
  <2>2. Campaign(i, n) = IF Elected(c) THEN BecomeLeader(i, c) ELSE Send(c, ms)
    BY <1>2 DEF Campaign
  <2> HIDE DEF t
  <2>3. Bounded(c) /\ c.role = "candidate"
    BY <2>1 DEF NodeOK, Bounded, NodeType
  <2> HIDE DEF c
  <2>4. ms \in SUBSET Message
    <3>1. LastIndex(c.log) \in Nat /\ LastTerm(c.log) \in Term /\ c.term \in Term
      BY <2>3, NodeFields, LastTermType
    <3> SUFFICES ASSUME NEW p \in Peers(i)
                 PROVE  [type |-> "vote_req", from |-> i, to |-> p, term |-> c.term,
                         last_log_index |-> LastIndex(c.log),
                         last_log_term  |-> LastTerm(c.log)] \in Message
      OBVIOUS
    <3> QED BY <3>1 DEF Message, Peers
  <2> HIDE DEF ms
  <2>5. CASE Elected(c)
    BY <2>2, <2>3, <2>5, BecomeLeaderType
  <2>6. CASE ~Elected(c)
    <3>1. Bounded(Send(c, ms))
      BY <2>3, <2>4, SendType
    <3>2. Send(c, ms).role = "candidate"
      BY SMTT(30), <2>3 DEF Send
    <3> QED BY <2>2, <2>6, <3>1, <3>2 DEF NodeOK
  <2> QED BY <2>5, <2>6
<1> QED BY <1>1, <1>2

(* propose appends at the leader and keeps it in order.                     *)
LEMMA ProposeType ==
  ASSUME NEW i \in Server, NEW n, NodeOK(i, n), NEW val \in Value
  PROVE  NodeOK(i, Propose(n, val))
<1> DEFINE a == AppendLocal(n, val)
           b == [a EXCEPT !.bcast_pending = TRUE]
<1>1. Bounded(a) /\ (Sendable(i, n) => Sendable(i, a)) /\ a.role = n.role
  <2>1. a.role = n.role
    BY SMTT(30) DEF AppendLocal
  <2> QED BY <2>1, AppendLocalType DEF NodeOK
<1> HIDE DEF a
<1>2. Bounded(b) /\ (Sendable(i, a) => Sendable(i, b)) /\ b.role = a.role
  BY <1>1 DEF Bounded, NodeType, Sendable, LastIndex
<1> QED BY <1>1, <1>2 DEF Propose, NodeOK, a

(* A tick that fires broadcasts at a leader and campaigns elsewhere.        *)
LEMMA TickFiresType ==
  ASSUME NEW i \in Server, NEW n, NodeOK(i, n)
  PROVE  NodeOK(i, TickFires(i, n))
<1>1. CASE n.role = "leader"
  <2>1. BcastAppend(i, n).role = "leader"
    BY SMTT(30), <1>1 DEF BcastAppend, Send
  <2> QED BY <1>1, BcastAppendType DEF TickFires, NodeOK
<1>2. CASE n.role # "leader"
  BY <1>2, CampaignType DEF TickFires
<1> QED BY <1>1, <1>2

(* What is left of a log cut after k.                                       *)
LEMMA KeepType ==
  ASSUME NEW log \in Seq(Entry), NEW k \in Nat
  PROVE  /\ Keep(log, k) \in Seq(Entry)
         /\ Len(Keep(log, k)) = IF k >= Len(log) THEN Len(log) ELSE k
<1>1. CASE k >= Len(log)
  BY <1>1 DEF Keep
<1>2. CASE k < Len(log)
  BY SMTT(30), <1>2, SubSeqProperties DEF Keep
<1> QED BY SMTT(30), <1>1, <1>2, LenProperties

(* truncateAfter lowers stable with the log, so the persisted part stays    *)
(* inside it.                                                               *)
LEMMA TruncateAfterType ==
  ASSUME NEW n, Bounded(n), NEW keep \in Nat
  PROVE  /\ Bounded(TruncateAfter(n, keep))
         /\ TruncateAfter(n, keep).log = Keep(n.log, keep)
         /\ TruncateAfter(n, keep).role = n.role
<1>1. CASE keep >= LastIndex(n.log)
  BY <1>1 DEF TruncateAfter, Keep, LastIndex
<1>2. CASE keep < LastIndex(n.log)
  <2> DEFINE log == Keep(n.log, keep)
             least == IF n.truncated = None THEN keep ELSE Min({n.truncated, keep})
             tr  == IF keep < n.stable THEN least ELSE n.truncated
             st  == IF keep < n.stable THEN keep ELSE n.stable
             cut == [n EXCEPT !.log = log]
             r   == [n EXCEPT !.log = log, !.stable = st, !.truncated = tr]
  <2>1. /\ log \in Seq(Entry) /\ Len(log) = keep
        /\ st \in Nat /\ st <= keep
    BY SMTT(30), <1>2, NodeFields, KeepType DEF LastIndex
  <2>2. tr \in Nat \union {None}
    <3>1. n.truncated \in Nat \union {None}
      BY NodeFields
    <3>2. n.truncated # None => Min({n.truncated, keep}) \in Nat
      BY SMTT(30), <3>1, MinPair
    <3> QED BY <3>1, <3>2
  <2>3. TruncateAfter(n, keep) = r
    <3>1. n = [n EXCEPT !.stable = n.stable, !.truncated = n.truncated]
      BY DEF Bounded, NodeType
    <3>2. ~(keep >= LastIndex(n.log))
      BY SMTT(30), <1>2, NodeFields
    <3>3. CASE keep < n.stable
      BY <3>2, <3>3 DEF TruncateAfter, Bounded, NodeType
    <3>4. CASE ~(keep < n.stable)
      BY <3>2, <3>4 DEF TruncateAfter, Bounded, NodeType
    <3> QED BY <3>3, <3>4
  <2> HIDE DEF log, tr, st
  <2>4. Bounded(r) /\ r.log = log /\ r.role = n.role
    BY <2>1, <2>2 DEF Bounded, NodeType, LastIndex
  <2> QED BY <2>3, <2>4 DEF log
<1> QED BY SMTT(30), <1>1, <1>2, NodeFields

(* leaderCommitIndex never lowers the commit index.                         *)
LEMMA LeaderCommitIndexType ==
  ASSUME Counting, NEW term, NEW commit \in Nat, NEW match, NEW log \in Seq(Entry)
  PROVE  /\ LeaderCommitIndex(term, commit, match, log) \in Nat
         /\ LeaderCommitIndex(term, commit, match, log) >= commit
<1> DEFINE S == {commit} \union
      { n \in commit + 1 .. LastIndex(log) :
          /\ TermAt(log, n) = term
          /\ \A k \in n .. LastIndex(log) : TermAt(log, k) >= term
          /\ Cardinality(Replicas(match, n)) >= Needed(Server) }
<1>1. LastIndex(log) \in Nat
  BY SMTT(30) DEF LastIndex
<1>2. S \in SUBSET Nat /\ commit \in S /\ S # {} /\ \A k \in S : k <= commit + LastIndex(log)
  BY SMTT(30), <1>1
<1>3. LeaderCommitIndex(term, commit, match, log) = Max(S)
  BY DEF LeaderCommitIndex
<1> HIDE DEF S
<1>4. Max(S) \in S /\ \A k \in S : Max(S) >= k
  <2>1. commit + LastIndex(log) \in Nat
    BY SMTT(30), <1>1
  <2> QED BY <2>1, <1>2, MaxProperties
<1> QED BY <1>2, <1>3, <1>4

(* maybeCommit touches neither log nor next nor match.                      *)
LEMMA MaybeCommitType ==
  ASSUME Counting, NEW n, Bounded(n)
  PROVE  /\ Bounded(MaybeCommit(n))
         /\ MaybeCommit(n).role = n.role
         /\ \A i : Sendable(i, n) => Sendable(i, MaybeCommit(n))
<1> DEFINE nc == LeaderCommitIndex(n.term, n.commit, n.match, n.log)
<1>1. nc \in Nat
  BY NodeFields, LeaderCommitIndexType
<1>2. MaybeCommit(n) = IF nc > n.commit
                       THEN [n EXCEPT !.commit = nc, !.bcast_pending = TRUE] ELSE n
  BY DEF MaybeCommit
<1> HIDE DEF nc
<1> DEFINE c == [n EXCEPT !.commit = nc, !.bcast_pending = TRUE]
<1>3. Bounded(c) /\ c.role = n.role /\ \A i : Sendable(i, n) => Sendable(i, c)
  BY <1>1 DEF Bounded, NodeType, Sendable, LastIndex
<1> HIDE DEF c
<1> QED BY <1>2, <1>3 DEF c

(* The handler of RequestVote.                                              *)
LEMMA OnVoteReqType ==
  ASSUME NEW i \in Server, NEW n, NodeOK(i, n), NEW m \in Message, m.type = "vote_req"
  PROVE  NodeOK(i, OnVoteReq(i, n, m))
<1> DEFINE d == HandleRequestVote(n.term, n.voted_for, Info(n.log), m)
           f == IF d.term_advanced THEN BecomeFollower(n, d.new_term) ELSE n
           g == IF d.grant /\ f.voted_for # m.from
                THEN [f EXCEPT !.voted_for = m.from, !.hs_dirty = TRUE]
                ELSE f
           r == [type |-> "vote_resp", from |-> i, to |-> m.from,
                 term |-> g.term, granted |-> d.grant]
<1>1. m.term \in Term /\ m.from \in Server
  BY DEF Message
<1>2. d.grant \in BOOLEAN /\ d.new_term \in Term
  BY <1>1, NodeFields DEF HandleRequestVote, LogIsAtLeastAsUpToDate, NodeOK
<1>3. OnVoteReq(i, n, m) = Send(g, {r})
  BY DEF OnVoteReq
<1> HIDE DEF d
<1>4. NodeOK(i, f)
  BY <1>2, BecomeFollowerType DEF NodeOK
<1> HIDE DEF f
<1>5. NodeOK(i, g)
  <2> DEFINE h == [f EXCEPT !.voted_for = m.from, !.hs_dirty = TRUE]
  <2>1. Bounded(h) /\ h.role = f.role /\ (Sendable(i, f) => Sendable(i, h))
    BY <1>1, <1>4 DEF NodeOK, Bounded, NodeType, Sendable, LastIndex
  <2> HIDE DEF h
  <2> QED BY <2>1, <1>4 DEF NodeOK, h
<1> HIDE DEF g
<1>6. {r} \in SUBSET Message
  <2>1. g.term \in Term
    BY <1>5, NodeFields DEF NodeOK
  <2> QED BY SMTT(30), <2>1, <1>1, <1>2 DEF Message
<1> HIDE DEF r
<1>7. Send(g, {r}).role = g.role
  BY SMTT(30) DEF Send
<1> QED BY <1>3, <1>5, <1>6, <1>7, SendType DEF NodeOK

(* The handler of a vote: the majority makes a leader in order.             *)
LEMMA OnVoteRespType ==
  ASSUME NEW i \in Server, NEW n, NodeOK(i, n), NEW m \in Message, m.type = "vote_resp"
  PROVE  NodeOK(i, OnVoteResp(i, n, m))
<1> DEFINE obs == ObserveTerm(n.term, m.term)
           v   == [n EXCEPT !.votes = n.votes \union {m.from}]
<1>1. m.term \in Term /\ m.from \in Server
  BY DEF Message
<1>2. obs.new_term \in Term
  BY <1>1, NodeFields DEF ObserveTerm, NodeOK
<1>3. OnVoteResp(i, n, m) \in {BecomeFollower(n, obs.new_term), n}
      \/ OnVoteResp(i, n, m) = (IF Elected(v) THEN BecomeLeader(i, v) ELSE v)
  BY DEF OnVoteResp
<1> HIDE DEF obs
<1>4. NodeOK(i, BecomeFollower(n, obs.new_term))
  BY <1>2, BecomeFollowerType DEF NodeOK
<1>5. NodeOK(i, v)
  BY <1>1 DEF NodeOK, Bounded, NodeType, Sendable, LastIndex
<1> HIDE DEF v
<1>6. NodeOK(i, BecomeLeader(i, v))
  BY <1>5, BecomeLeaderType DEF NodeOK
<1> QED BY <1>3, <1>4, <1>5, <1>6

(* handleAppendEntries returns a cut point, entries and indices of their    *)
(* types, and a success never claims more than the batch reaches.           *)
LEMMA HandleAppendEntriesType ==
  ASSUME Counting, NEW term, NEW log \in Seq(Entry), NEW commit \in Nat,
         NEW m \in Message, m.type = "append_req",
         NEW out, out = HandleAppendEntries(term, log, commit, m)
  PROVE  /\ out.success \in BOOLEAN
         /\ out.success =>
              /\ ~(m.term < term)
              /\ out.truncate_to \in Nat
              /\ out.append_from \in 1 .. Len(m.entries) + 1
              /\ out.new_commit_index \in Nat
              /\ out.match_index \in Nat
<1> DEFINE unmatched == Unmatched(log, m)
           from      == IF unmatched = {} THEN Len(m.entries) + 1 ELSE Min(unmatched)
           conflict  == unmatched # {} /\ m.prev_log_index + from <= LastIndex(log)
           last_new  == m.prev_log_index + Len(m.entries)
<1>1. /\ m.entries \in Seq(Entry) /\ m.prev_log_index \in Nat /\ m.leader_commit \in Nat
      /\ LastIndex(log) \in Nat /\ Len(m.entries) \in Nat
  BY SMTT(30) DEF Message, LastIndex
<1>2. from \in 1 .. Len(m.entries) + 1
  <2>1. unmatched \subseteq 1 .. Len(m.entries)
    BY DEF Unmatched
  <2> HIDE DEF unmatched
  <2>2. unmatched # {} => Min(unmatched) \in unmatched
    BY SMTT(30), <2>1, <1>1, MinProperties
  <2>3. CASE unmatched = {}
    BY SMTT(30), <1>1, <2>3
  <2>4. CASE unmatched # {}
    <3>1. Min(unmatched) \in 1 .. Len(m.entries)
      BY <2>1, <2>2, <2>4
    <3>2. from = Min(unmatched)
      BY <2>4
    <3> HIDE DEF from
    <3> QED BY SMTT(30), <1>1, <3>1, <3>2
  <2> HIDE DEF from
  <2> QED BY <2>3, <2>4
<1>3. last_new \in Nat
  BY SMTT(30), <1>1
<1>4. Max({commit, Min({m.leader_commit, last_new})}) \in Nat
  <2> HIDE DEF last_new
  <2> DEFINE lc == Min({m.leader_commit, last_new})
  <2>1. lc \in Nat
    BY SMTT(30), <1>1, <1>3, MinPair
  <2> HIDE DEF lc
  <2>2. Max({commit, lc}) \in Nat
    BY SMTT(30), <2>1, MaxPair
  <2> QED BY <2>2 DEF lc
<1>5. CASE m.term < term \/ ~PrevMatches(log, m)
  BY <1>5 DEF HandleAppendEntries
<1>6. CASE ~(m.term < term \/ ~PrevMatches(log, m))
  <2>1. out = [success          |-> TRUE,
               truncate_to      |-> IF conflict THEN m.prev_log_index + from - 1
                                                ELSE LastIndex(log),
               append_from      |-> from,
               new_commit_index |-> Max({commit, Min({m.leader_commit, last_new})}),
               match_index      |-> last_new]
    BY <1>6 DEF HandleAppendEntries
  <2> HIDE DEF from, conflict, last_new
  <2> QED BY SMTT(30), <2>1, <1>1, <1>2, <1>3, <1>4, <1>6
<1> QED BY <1>5, <1>6

(* The handler of AppendEntries: the log after the cut and the new entries  *)
(* is still at least as long as stable.                                     *)
LEMMA OnAppendReqType ==
  ASSUME Counting, NEW i \in Server, NEW n, NodeOK(i, n), NEW m \in Message, m.type = "append_req"
  PROVE  NodeOK(i, OnAppendReq(i, n, m))
<1> DEFINE out == HandleAppendEntries(n.term, n.log, n.commit, m)
           f   == IF m.term >= n.term
                  THEN [BecomeFollower(n, m.term) EXCEPT !.leader = m.from]
                  ELSE n
           cut == TruncateAfter(f, out.truncate_to)
           new == SubSeq(m.entries, out.append_from, Len(m.entries))
           h   == [cut EXCEPT !.log = cut.log \o new,
                              !.commit = Max({cut.commit, out.new_commit_index})]
           g   == IF out.success THEN h ELSE f
           r   == [type |-> "append_resp", from |-> i, to |-> m.from, term |-> g.term,
                   success |-> out.success,
                   index |-> IF out.success THEN out.match_index ELSE LastIndex(g.log)]
<1>1. m.term \in Term /\ m.from \in Server /\ m.entries \in Seq(Entry)
  BY DEF Message
<1>2. OnAppendReq(i, n, m) = Send(g, {r})
  BY DEF OnAppendReq
<1>3. n.term \in Nat /\ m.term \in Nat /\ n.commit \in Nat /\ n.log \in Seq(Entry)
  BY SMTT(30), <1>1, NodeFields DEF NodeOK, Term
<1>4. /\ out.success \in BOOLEAN
      /\ out.success =>
              /\ ~(m.term < n.term)
              /\ out.truncate_to \in Nat
              /\ out.append_from \in 1 .. Len(m.entries) + 1
              /\ out.new_commit_index \in Nat
              /\ out.match_index \in Nat
  BY <1>3, HandleAppendEntriesType
<1> HIDE DEF out
<1>5. NodeOK(i, f) /\ (m.term >= n.term => f.role = "follower")
  <2> DEFINE b == BecomeFollower(n, m.term)
             e == [b EXCEPT !.leader = m.from]
  <2>1. Bounded(b) /\ b.role = "follower"
    BY <1>1, BecomeFollowerType DEF NodeOK
  <2> HIDE DEF b
  <2>2. Bounded(e) /\ e.role = "follower"
    BY <2>1, <1>1 DEF Bounded, NodeType
  <2> HIDE DEF e
  <2> QED BY <2>2 DEF NodeOK, e, b
<1> HIDE DEF f
<1>6. out.success => Bounded(h) /\ h.role = "follower"
  <2> SUFFICES ASSUME out.success PROVE Bounded(h) /\ h.role = "follower"
    OBVIOUS
  <2>1. Bounded(cut) /\ cut.role = "follower"
    <3>1. f.role = "follower" /\ Bounded(f)
      BY SMTT(30), <1>3, <1>4, <1>5 DEF NodeOK
    <3>2. out.truncate_to \in Nat
      BY <1>4
    <3> QED BY <3>1, <3>2, TruncateAfterType
  <2>2. new \in Seq(Entry) /\ Len(new) \in Nat
    BY SMTT(30), <1>1, <1>4, SubSeqProperties, LenProperties
  <2> DEFINE log    == cut.log \o new
             commit == Max({cut.commit, out.new_commit_index})
  <2> HIDE DEF cut, new
  <2>3. log \in Seq(Entry) /\ cut.stable <= Len(log)
    <3>1. /\ cut.log \in Seq(Entry) /\ cut.stable <= LastIndex(cut.log)
          /\ cut.stable \in Nat /\ LastIndex(cut.log) \in Nat
      BY <2>1, NodeFields
    <3>2. log \in Seq(Entry) /\ Len(log) = Len(cut.log) + Len(new)
      BY SMTT(30), <2>2, <3>1, ConcatProperties
    <3> HIDE DEF log
    <3> QED BY SMTT(30), <2>2, <3>1, <3>2 DEF LastIndex
  <2>4. commit \in Nat
    <3>1. cut.commit \in Nat /\ out.new_commit_index \in Nat
      BY <1>4, <2>1, NodeFields
    <3> QED BY SMTT(30), <3>1, MaxPair
  <2>5. h = [cut EXCEPT !.log = log, !.commit = commit]
    OBVIOUS
  <2> HIDE DEF log, commit, h
  <2> QED BY <2>1, <2>3, <2>4, <2>5 DEF Bounded, NodeType, LastIndex
<1> HIDE DEF h
<1>7. NodeOK(i, g)
  <2>1. out.success => NodeOK(i, h)
    BY <1>6 DEF NodeOK
  <2> QED BY <2>1, <1>5
<1> HIDE DEF g
<1>8. {r} \in SUBSET Message
  <2>1. g.term \in Term /\ LastIndex(g.log) \in Nat
    BY <1>7, NodeFields DEF NodeOK
  <2> QED BY SMTT(30), <2>1, <1>1, <1>4 DEF Message
<1> HIDE DEF r
<1>9. Send(g, {r}).role = g.role
  BY SMTT(30) DEF Send
<1> QED BY <1>2, <1>7, <1>8, <1>9, SendType DEF NodeOK

(* What counting an acknowledgement x inside the log makes of match a and   *)
(* next b of a peer: match grows to it and next stays past it.              *)
LEMMA CountedAck ==
  ASSUME NEW a \in Nat, NEW b \in Nat, NEW x \in Nat, NEW last \in Nat,
         a < b, b <= last + 1, ~(x > last)
  PROVE  /\ Max({a, x}) \in Nat /\ Max({a, x}) = IF x > a THEN x ELSE a
         /\ Max({b, Max({a, x}) + 1}) \in Nat
         /\ Max({a, x}) < Max({b, Max({a, x}) + 1}) /\ Max({b, Max({a, x}) + 1}) <= last + 1
<1> DEFINE match == Max({a, x})
           next  == Max({b, match + 1})
<1>1. match = IF x > a THEN x ELSE a
  BY SMTT(30), MaxPair
<1> HIDE DEF match
<1>2. match \in Nat /\ match + 1 \in Nat /\ match <= last
  BY SMTT(30), <1>1
<1>3. next = IF b >= match + 1 THEN b ELSE match + 1
  BY SMTT(30), <1>2, MaxPair
<1> HIDE DEF next
<1>4. next \in Nat /\ match < next /\ next <= last + 1
  BY SMTT(30), <1>2, <1>3
<1> QED BY <1>1, <1>2, <1>4 DEF match, next

(* What a rejection with the hint x makes of next: it is walked back, never *)
(* to match or below.                                                       *)
LEMMA WalkedBack ==
  ASSUME NEW a \in Nat, NEW b \in Nat, NEW x \in Nat, NEW last \in Nat,
         a < b, b <= last + 1
  PROVE  /\ Max({a + 1, Min({b - 1, x + 1})}) \in Nat
         /\ a < Max({a + 1, Min({b - 1, x + 1})})
         /\ Max({a + 1, Min({b - 1, x + 1})}) <= last + 1
<1> DEFINE lowered == Min({b - 1, x + 1})
           next    == Max({a + 1, lowered})
<1>1. b - 1 \in Nat /\ x + 1 \in Nat /\ a + 1 \in Nat
  BY SMTT(30)
<1>2. lowered \in Nat /\ lowered <= b
  BY SMTT(30), <1>1, MinPair
<1> HIDE DEF lowered
<1>3. next = IF a + 1 >= lowered THEN a + 1 ELSE lowered
  BY SMTT(30), <1>1, <1>2, MaxPair
<1> HIDE DEF next
<1>4. next \in Nat /\ a < next /\ next <= last + 1
  BY SMTT(30), <1>1, <1>2, <1>3
<1> QED BY <1>4 DEF next, lowered

(* New values of match and next for a peer that are in order.               *)
LEMMA ProgressType ==
  ASSUME NEW i \in Server, NEW n, NodeOK(i, n), n.role = "leader", NEW p \in Peers(i),
         NEW match \in Nat, NEW next \in Nat, match < next, next <= LastIndex(n.log) + 1,
         NEW w, w = [n EXCEPT !.match[p] = match, !.next[p] = next]
  PROVE  Bounded(w) /\ w.role = "leader" /\ Sendable(i, w)
<1>1. p \in Server
  BY DEF Peers
<1>2. Bounded(w) /\ w.role = n.role /\ w.log = n.log
  BY <1>1 DEF NodeOK, Bounded, NodeType
<1>3. \A q \in Peers(i) : /\ w.match[q] = IF q = p THEN match ELSE n.match[q]
                          /\ w.next[q] = IF q = p THEN next ELSE n.next[q]
  BY <1>1 DEF NodeOK, Bounded, NodeType, Peers
<1>4. Sendable(i, n)
  BY DEF NodeOK
<1> QED BY ONLY n.role = "leader", match < next, next <= LastIndex(n.log) + 1,
              <1>2, <1>3, <1>4 DEF Sendable

(* A new value of next alone.                                               *)
LEMMA NextType ==
  ASSUME NEW i \in Server, NEW n, NodeOK(i, n), n.role = "leader", NEW p \in Peers(i),
         NEW next \in Nat, n.match[p] < next, next <= LastIndex(n.log) + 1,
         NEW w, w = [n EXCEPT !.next[p] = next]
  PROVE  Bounded(w) /\ w.role = "leader" /\ Sendable(i, w)
<1>1. p \in Server
  BY DEF Peers
<1>2. Bounded(w) /\ w.role = n.role /\ w.log = n.log /\ w.match = n.match
  BY <1>1 DEF NodeOK, Bounded, NodeType
<1>3. \A q \in Peers(i) : w.next[q] = IF q = p THEN next ELSE n.next[q]
  BY <1>1 DEF NodeOK, Bounded, NodeType, Peers
<1>4. Sendable(i, n)
  BY DEF NodeOK
<1> QED BY ONLY n.role = "leader", n.match[p] < next, next <= LastIndex(n.log) + 1,
              <1>2, <1>3, <1>4 DEF Sendable

(* The handler of an answer: match grows to an acknowledged index inside    *)
(* the log and next stays past it; a rejection lowers next, never to match  *)
(* or below.                                                                *)
LEMMA OnAppendRespType ==
  ASSUME Counting, NEW i \in Server, NEW n, NodeOK(i, n), NEW m \in Message,
         m.type = "append_resp", m.from \in Peers(i)
  PROVE  NodeOK(i, OnAppendResp(i, n, m))
<1> DEFINE obs == ObserveTerm(n.term, m.term)
<1>1. m.term \in Term /\ m.from \in Server /\ m.index \in Nat
  BY DEF Message
<1>2. /\ obs.new_term \in Term
      /\ n.match[m.from] \in Nat /\ n.next[m.from] \in Nat /\ LastIndex(n.log) \in Nat
  BY <1>1, NodeFields DEF ObserveTerm, NodeOK
<1>3. \/ OnAppendResp(i, n, m) \in {BecomeFollower(n, obs.new_term), n}
      \/ /\ n.role = "leader"
         /\ OnAppendResp(i, n, m) \in {OnAppendSuccess(i, n, m), OnAppendFailure(i, n, m)}
  BY DEF OnAppendResp
<1> HIDE DEF obs
<1>4. NodeOK(i, BecomeFollower(n, obs.new_term))
  BY <1>2, BecomeFollowerType DEF NodeOK
<1>5. ASSUME n.role = "leader" PROVE NodeOK(i, OnAppendSuccess(i, n, m))
  <2> DEFINE match == Max({n.match[m.from], m.index})
             next  == Max({n.next[m.from], match + 1})
             w     == [n EXCEPT !.match[m.from] = match, !.next[m.from] = next]
             c     == MaybeCommit(w)
  <2>1. CASE m.index > LastIndex(n.log)
    <3> DEFINE md == n.malformed_dropped + 1
               q  == [n EXCEPT !.malformed_dropped = md]
    <3>1. OnAppendSuccess(i, n, m) = q
      BY <2>1 DEF OnAppendSuccess
    <3>2. md \in Nat
      BY SMTT(30) DEF NodeOK, Bounded, NodeType
    <3> HIDE DEF md
    <3>3. /\ Bounded(q) /\ q.role = n.role
          /\ q.log = n.log /\ q.next = n.next /\ q.match = n.match
      BY <3>2 DEF NodeOK, Bounded, NodeType, LastIndex
    <3> HIDE DEF q
    <3> QED BY <3>1, <3>3, SameLogNextMatch
  <2>2. CASE ~(m.index > LastIndex(n.log))
    <3>4. OnAppendSuccess(i, n, m) \in {SendAppend(i, c, m.from), c}
      BY <2>2 DEF OnAppendSuccess
    <3>5. Bounded(w) /\ w.role = "leader" /\ Sendable(i, w)
      <4>1. n.match[m.from] < n.next[m.from] /\ n.next[m.from] <= LastIndex(n.log) + 1
        BY <1>5 DEF NodeOK, Sendable
      <4>2. /\ match \in Nat /\ next \in Nat /\ match < next
            /\ next <= LastIndex(n.log) + 1
        <5>1. PICK a \in Nat, b \in Nat, x \in Nat, last \in Nat :
                a = n.match[m.from] /\ b = n.next[m.from] /\ x = m.index /\ last = LastIndex(n.log)
          BY <1>1, <1>2
        <5>2. a < b /\ b <= last + 1 /\ ~(x > last)
          BY <2>2, <4>1, <5>1
        <5>3. /\ Max({a, x}) \in Nat /\ Max({b, Max({a, x}) + 1}) \in Nat
              /\ Max({a, x}) < Max({b, Max({a, x}) + 1}) /\ Max({b, Max({a, x}) + 1}) <= last + 1
          BY <5>2, CountedAck
        <5> QED BY <5>1, <5>3
      <4> HIDE DEF match, next
      <4> QED BY <1>5, <4>2, ProgressType
    <3> HIDE DEF w
    <3>6. Bounded(c) /\ c.role = "leader" /\ Sendable(i, c)
      BY <3>5, MaybeCommitType
    <3> HIDE DEF c
    <3>7. Bounded(SendAppend(i, c, m.from)) /\ Sendable(i, SendAppend(i, c, m.from))
      BY <3>6, SendAppendType
    <3> QED BY <3>4, <3>6, <3>7 DEF NodeOK
  <2> QED BY <2>1, <2>2
<1>6. ASSUME n.role = "leader" PROVE NodeOK(i, OnAppendFailure(i, n, m))
  <2> DEFINE lowered == Min({n.next[m.from] - 1, m.index + 1})
             next    == Max({n.match[m.from] + 1, lowered})
             w       == [n EXCEPT !.next[m.from] = next]
  <2>4. OnAppendFailure(i, n, m) \in {SendAppend(i, w, m.from), w}
    BY DEF OnAppendFailure
  <2>5. Bounded(w) /\ w.role = "leader" /\ Sendable(i, w)
    <3>1. n.match[m.from] < n.next[m.from] /\ n.next[m.from] <= LastIndex(n.log) + 1
      BY <1>6 DEF NodeOK, Sendable
    <3>2. next \in Nat /\ n.match[m.from] < next /\ next <= LastIndex(n.log) + 1
      BY <1>1, <1>2, <3>1, WalkedBack
    <3> HIDE DEF next
    <3> QED BY <1>6, <3>2, NextType
  <2> HIDE DEF w
  <2>6. Bounded(SendAppend(i, w, m.from)) /\ Sendable(i, SendAppend(i, w, m.from))
    BY <2>5, SendAppendType
  <2> QED BY <2>4, <2>5, <2>6 DEF NodeOK
<1> QED BY <1>3, <1>4, <1>5, <1>6

(* stepBytes, whatever message arrives.                                     *)
LEMMA StepBytesType ==
  ASSUME Counting, NEW i \in Server, NEW n, NodeOK(i, n), NEW m \in Message
  PROVE  NodeOK(i, StepBytes(i, n, m))
<1> DEFINE md == n.malformed_dropped + 1
           q  == [n EXCEPT !.malformed_dropped = md]
<1>1. CASE ~Decodes(m) \/ m.to # i \/ m.from \notin Peers(i)
  <2>1. StepBytes(i, n, m) = q
    BY <1>1 DEF StepBytes
  <2>2. md \in Nat
    BY SMTT(30) DEF NodeOK, Bounded, NodeType
  <2> HIDE DEF md
  <2>3. /\ Bounded(q) /\ q.role = n.role
        /\ q.log = n.log /\ q.next = n.next /\ q.match = n.match
    BY <2>2 DEF NodeOK, Bounded, NodeType, LastIndex
  <2> HIDE DEF q
  <2> QED BY <2>1, <2>3, SameLogNextMatch
<1>2. CASE ~(~Decodes(m) \/ m.to # i \/ m.from \notin Peers(i))
  <2>1. m.type \in {"vote_req", "vote_resp", "append_req", "append_resp"}
    BY DEF Message
  <2>2. CASE m.type = "vote_req"
    BY <1>2, <2>2, OnVoteReqType DEF StepBytes
  <2>3. CASE m.type = "vote_resp"
    BY <1>2, <2>3, OnVoteRespType DEF StepBytes
  <2>4. CASE m.type = "append_req"
    BY <1>2, <2>4, OnAppendReqType DEF StepBytes
  <2>5. CASE m.type = "append_resp"
    BY <1>2, <2>5, OnAppendRespType DEF StepBytes
  <2> QED BY <2>1, <2>2, <2>3, <2>4, <2>5
<1> QED BY <1>1, <1>2

(* ready flushes a pending broadcast and is otherwise a read.               *)
LEMMA ReadyType ==
  ASSUME NEW i \in Server, NEW n, NodeOK(i, n)
  PROVE  NodeOK(i, Ready(i, n))
<1>1. CASE ~n.bcast_pending
  BY <1>1 DEF Ready
<1>2. CASE n.bcast_pending /\ n.role = "leader"
  <2>1. BcastAppend(i, n).role = "leader"
    BY SMTT(30), <1>2 DEF BcastAppend, Send
  <2> QED BY <1>2, BcastAppendType DEF Ready, NodeOK
<1>3. CASE n.bcast_pending /\ n.role # "leader"
  <2> DEFINE q == [n EXCEPT !.bcast_pending = FALSE]
  <2>1. Ready(i, n) = q
    BY <1>3 DEF Ready
  <2>2. Bounded(q) /\ q.role = n.role
    BY DEF NodeOK, Bounded, NodeType
  <2> QED BY <1>3, <2>1, <2>2 DEF NodeOK
<1> QED BY <1>1, <1>2, <1>3

(* The entries ready hands out as committed are entries of the log.         *)
LEMMA ReadyCommitType ==
  ASSUME NEW n, Bounded(n)
  PROVE  /\ ReadyCommit(n) \in Nat
         /\ ReadyCommit(n) > n.applied => ReadyCommit(n) <= LastIndex(n.log)
<1> DEFINE c == Min({n.commit, LastIndex(n.log)})
<1>1. n.commit \in Nat /\ n.applied \in Nat /\ LastIndex(n.log) \in Nat
  BY NodeFields
<1>2. c \in Nat /\ c <= LastIndex(n.log)
  BY SMTT(30), <1>1, MinPair
<1>3. ReadyCommit(n) = Max({n.applied, c})
  BY DEF ReadyCommit
<1> HIDE DEF c
<1>4. ReadyCommit(n) = IF n.applied >= c THEN n.applied ELSE c
  BY SMTT(30), <1>1, <1>2, <1>3, MaxPair
<1> QED BY SMTT(30), <1>1, <1>2, <1>4

(* advance moves stable to the end of the log, and a leader's own match and *)
(* commit with it.                                                          *)
LEMMA AdvanceType ==
  ASSUME Counting, NEW i \in Server, NEW n, NodeOK(i, n)
  PROVE  NodeOK(i, Advance(i, n))
<1> DEFINE rc == ReadyCommit(n)
           st == LastIndex(n.log)
           a == [n EXCEPT !.hs_dirty = FALSE, !.truncated = None, !.msgs = {},
                          !.stable = st, !.applied = rc]
           b == [a EXCEPT !.match[i] = a.stable]
<1>1. Advance(i, n) = IF n.role = "leader" THEN MaybeCommit(b) ELSE a
  BY DEF Advance
<1>2. rc \in Nat /\ st \in Nat /\ st <= LastIndex(n.log)
  BY SMTT(30), NodeFields, ReadyCommitType DEF NodeOK
<1> HIDE DEF rc, st
<1>3. Bounded(a) /\ a.role = n.role /\ (Sendable(i, n) => Sendable(i, a))
  <2>1. /\ Bounded(a) /\ a.role = n.role
        /\ a.log = n.log /\ a.next = n.next /\ a.match = n.match
    BY <1>2 DEF NodeOK, Bounded, NodeType, LastIndex
  <2> HIDE DEF a
  <2> QED BY <2>1 DEF Sendable
<1> HIDE DEF a
<1>4. Bounded(b) /\ b.role = a.role /\ (Sendable(i, a) => Sendable(i, b))
  <2>1. a.stable \in Nat
    BY <1>3, NodeFields
  <2>2. Bounded(b) /\ b.role = a.role /\ b.log = a.log /\ b.next = a.next
    BY <1>3, <2>1 DEF Bounded, NodeType
  <2>3. \A p \in Peers(i) : b.match[p] = a.match[p]
    BY <1>3 DEF Bounded, NodeType, Peers
  <2> HIDE DEF b
  <2> QED BY <2>2, <2>3 DEF Sendable
<1> HIDE DEF b
<1>5. CASE n.role = "leader"
  <2>1. Bounded(b) /\ b.role = "leader" /\ Sendable(i, b)
    BY <1>3, <1>4, <1>5 DEF NodeOK
  <2> QED BY <1>1, <1>5, <2>1, MaybeCommitType DEF NodeOK
<1>6. CASE n.role # "leader"
  BY <1>1, <1>3, <1>6 DEF NodeOK
<1> QED BY <1>5, <1>6

(* Writing the hard state leaves the log on disk alone.                     *)
LEMMA SaveHardStateType ==
  ASSUME NEW d \in DiskType, NEW n, Bounded(n)
  PROVE  SaveHardState(d, n) \in DiskType /\ SaveHardState(d, n).log = d.log
BY NodeFields DEF SaveHardState, DiskType

(* Cutting the log on disk keeps its type.                                  *)
LEMMA SaveTruncationType ==
  ASSUME NEW d \in DiskType, NEW n, Bounded(n)
  PROVE  SaveTruncation(d, n) \in DiskType
<1>1. CASE n.truncated = None
  BY <1>1 DEF SaveTruncation
<1>2. CASE n.truncated # None
  <2> DEFINE log == Keep(d.log, n.truncated)
  <2>1. log \in Seq(Entry)
    BY <1>2, NodeFields, KeepType DEF DiskType
  <2>2. SaveTruncation(d, n) = [d EXCEPT !.log = log]
    BY <1>2 DEF SaveTruncation
  <2> HIDE DEF log
  <2> QED BY <2>1, <2>2 DEF DiskType
<1> QED BY <1>1, <1>2

(* Writing any first part of the new entries keeps the type of the disk.    *)
LEMMA DiskAppendType ==
  ASSUME NEW d \in DiskType, NEW n, Bounded(n), NEW k \in n.stable .. LastIndex(n.log)
  PROVE  [d EXCEPT !.log = d.log \o SubSeq(n.log, n.stable + 1, k)] \in DiskType
<1> DEFINE new == SubSeq(n.log, n.stable + 1, k)
           log == d.log \o new
<1>1. new \in Seq(Entry)
  BY SMTT(30), NodeFields, SubSeqProperties DEF LastIndex
<1> HIDE DEF new
<1>2. log \in Seq(Entry)
  BY <1>1, ConcatProperties DEF DiskType
<1> HIDE DEF log
<1>3. [d EXCEPT !.log = log] \in DiskType
  BY <1>2 DEF DiskType
<1> QED BY <1>3 DEF log, new

(* A whole batch written to disk.                                           *)
LEMMA PersistType ==
  ASSUME NEW d \in DiskType, NEW n, Bounded(n)
  PROVE  Persist(d, n) \in DiskType
<1> DEFINE cut == SaveTruncation(SaveHardState(d, n), n)
<1>1. cut \in DiskType
  BY SaveHardStateType, SaveTruncationType
<1>2. LastIndex(n.log) \in n.stable .. LastIndex(n.log)
  BY SMTT(30), NodeFields
<1> HIDE DEF cut
<1>3. SaveEntries(cut, n) \in DiskType
  BY <1>1, <1>2, DiskAppendType DEF SaveEntries
<1> QED BY <1>3 DEF Persist, cut

(* Every disk a crash in the middle of a batch can leave is well-typed.     *)
LEMMA CrashImagesType ==
  ASSUME NEW d \in DiskType, NEW n, Bounded(n)
  PROVE  CrashImages(d, n) \subseteq DiskType
<1> DEFINE hs  == SaveHardState(d, n)
           cut == SaveTruncation(hs, n)
<1>1. hs \in DiskType /\ cut \in DiskType
  BY SaveHardStateType, SaveTruncationType
<1>2. CrashImages(d, n) =
        {d} \union { [hs EXCEPT !.log = Keep(hs.log, k)] : k \in Len(cut.log) .. Len(d.log) }
            \union { [cut EXCEPT !.log = cut.log \o SubSeq(n.log, n.stable + 1, k)]
                       : k \in n.stable .. LastIndex(n.log) }
  BY DEF CrashImages
<1> HIDE DEF hs, cut
<1>3. ASSUME NEW k \in Len(cut.log) .. Len(d.log)
      PROVE  [hs EXCEPT !.log = Keep(hs.log, k)] \in DiskType
  <2> DEFINE log == Keep(hs.log, k)
  <2>1. k \in Nat
    BY SMTT(30), <1>1, LenProperties DEF DiskType
  <2>2. log \in Seq(Entry)
    BY <1>1, <2>1, KeepType DEF DiskType
  <2> HIDE DEF log
  <2>3. [hs EXCEPT !.log = log] \in DiskType
    BY <1>1, <2>2 DEF DiskType
  <2> QED BY <2>3 DEF log
<1>4. \A k \in n.stable .. LastIndex(n.log) :
        [cut EXCEPT !.log = cut.log \o SubSeq(n.log, n.stable + 1, k)] \in DiskType
  BY <1>1, DiskAppendType
<1> QED BY <1>2, <1>3, <1>4

(* Node.init builds a follower in order from any disk.                      *)
LEMMA InitNodeType ==
  ASSUME NEW i \in Server, NEW d \in DiskType, NEW a \in Nat
  PROVE  NodeOK(i, InitNode(d, a))
<1>1. d.log \in Seq(Entry) /\ Len(d.log) \in Nat
  BY SMTT(30) DEF DiskType
<1> QED BY SMTT(30), <1>1 DEF InitNode, NodeOK, Bounded, NodeType, DiskType, LastIndex

(* One server's step leaves the others' nodes alone.                        *)
LEMMA UpdateType ==
  ASSUME TypeInv, NEW i \in Server, NEW n, NodeOK(i, n), Update(i, n)
  PROVE  /\ node' \in [Server -> NodeType]
         /\ leaders' \in SUBSET (Term \X Server)
         /\ \A j \in Server : NodeOK(j, node'[j])
<1>1. n \in NodeType /\ n.term \in Term
  BY NodeFields DEF NodeOK, Bounded
<1> QED BY SMTT(30), <1>1 DEF Update, TypeInv, TypeOK

(* An input changes one node and keeps the invariant when the new node is   *)
(* in order.                                                                *)
LEMMA InputType ==
  ASSUME TypeInv, NEW i \in Server, NEW n, NodeOK(i, n), Input(i, n),
         net' \in SUBSET Message, heartbeats' \in 0 .. MaxHeartbeats,
         duplicates' \in 0 .. MaxDuplicates
  PROVE  TypeInv'
BY UpdateType DEF Input, TypeInv, TypeOK

(* A fresh cluster satisfies the invariant.                                 *)
LEMMA TypeInvInit == Init => TypeInv
<1> SUFFICES ASSUME Init PROVE TypeInv
  OBVIOUS
<1>1. EmptyDisk \in DiskType
  BY SMTT(30), MaxTermAssumption DEF EmptyDisk, DiskType, Term
<1>2. \A i \in Server : NodeOK(i, InitNode(EmptyDisk, 0))
  BY <1>1, InitNodeType
<1>3. \A i \in Server : InitNode(EmptyDisk, 0) \in NodeType
  BY <1>2 DEF NodeOK, Bounded
<1>4. TypeOK
  BY SMTT(30), <1>1, <1>3, BoundsAssumption DEF Init, TypeOK
<1> QED BY <1>2, <1>4 DEF Init, TypeInv

(* Every step preserves it: one case per action of the cluster.             *)
LEMMA TypeInvNext == Counting /\ TypeInv /\ [Next]_vars => TypeInv'
<1> SUFFICES ASSUME Counting, TypeInv, [Next]_vars PROVE TypeInv'
  OBVIOUS
<1> USE DEF TypeInv
<1>1. /\ net \in SUBSET Message /\ heartbeats \in 0 .. MaxHeartbeats
      /\ restarts \in 0 .. MaxRestarts /\ duplicates \in 0 .. MaxDuplicates
  BY DEF TypeOK
<1>2. ASSUME NEW i \in Server, Heartbeat(i) PROVE TypeInv'
  <2>1. NodeOK(i, TickFires(i, node[i]))
    BY TickFiresType
  <2>2. heartbeats' \in 0 .. MaxHeartbeats /\ net' = net /\ duplicates' = duplicates
    BY SMTT(30), <1>1, <1>2, BoundsAssumption DEF Heartbeat
  <2> QED BY <1>1, <1>2, <2>1, <2>2, InputType DEF Heartbeat
<1>3. ASSUME NEW i \in Server, ElectionTimeout(i) PROVE TypeInv'
  <2>1. NodeOK(i, TickFires(i, node[i]))
    BY TickFiresType
  <2> QED BY <1>1, <1>3, <2>1, InputType DEF ElectionTimeout
<1>4. ASSUME NEW i \in Server, NEW v \in Value, ClientRequest(i, v) PROVE TypeInv'
  <2>1. NodeOK(i, Propose(node[i], v))
    BY ProposeType
  <2> QED BY <1>1, <1>4, <2>1, InputType DEF ClientRequest
<1>5. ASSUME NEW m \in net, Deliver(m) \/ DeliverDuplicate(m) PROVE TypeInv'
  <2>1. m \in Message /\ m.to \in Server
    BY <1>1 DEF Message
  <2>2. NodeOK(m.to, StepBytes(m.to, node[m.to], m))
    BY <2>1, StepBytesType
  <2>3. net' \in SUBSET Message
    BY <1>1, <1>5 DEF Deliver, DeliverDuplicate
  <2>4. heartbeats' \in 0 .. MaxHeartbeats /\ duplicates' \in 0 .. MaxDuplicates
    BY SMTT(30), <1>1, <1>5, BoundsAssumption DEF Deliver, DeliverDuplicate
  <2>5. Input(m.to, StepBytes(m.to, node[m.to], m))
    BY <1>5 DEF Deliver, DeliverDuplicate
  <2> QED BY <2>1, <2>2, <2>3, <2>4, <2>5, InputType
<1>6. ASSUME NEW i \in Server, Drain(i) PROVE TypeInv'
  <2> DEFINE n == Ready(i, node[i])
  <2>1. NodeOK(i, n) /\ NodeOK(i, Advance(i, n))
    BY ReadyType, AdvanceType
  <2>2. Bounded(n) /\ n.msgs \in SUBSET Message
    BY <2>1, NodeFields DEF NodeOK
  <2>3. /\ disk' = [disk EXCEPT ![i] = Persist(disk[i], n)]
        /\ net' = net \union { m \in n.msgs : {m.from, m.to} \in Links }
        /\ applied_log' = applied_log \union Committed(n)
        /\ commit_terms' = commit_terms \o
             [k \in 1 .. Max({0, ReadyCommit(n) - Len(commit_terms)}) |-> n.term]
        /\ Update(i, Advance(i, n))
        /\ UNCHANGED <<heartbeats, restarts, duplicates>>
    BY <1>6 DEF Drain
  <2> HIDE DEF n
  <2>4. disk' \in [Server -> DiskType]
    BY <2>2, <2>3, PersistType DEF TypeOK
  <2>5. net' \in SUBSET Message
    BY <1>1, <2>2, <2>3
  <2>6. applied_log' \in SUBSET [index : Nat, entry : Entry]
    <3>1. ASSUME NEW k \in n.applied + 1 .. ReadyCommit(n)
          PROVE  [index |-> k, entry |-> n.log[k]] \in [index : Nat, entry : Entry]
      <4>1. k \in 1 .. Len(n.log)
        BY SMTT(30), <2>2, NodeFields, ReadyCommitType DEF LastIndex
      <4> QED BY SMTT(30), <2>2, <4>1, NodeFields, EntryTerm
    <3> QED BY <2>3, <3>1 DEF Committed, TypeOK
  <2>7. commit_terms' \in Seq(Term)
    <3> DEFINE len == Max({0, ReadyCommit(n) - Len(commit_terms)})
               new == [k \in 1 .. len |-> n.term]
    <3>1. ReadyCommit(n) \in Nat /\ n.term \in Term /\ commit_terms \in Seq(Term)
      BY <2>2, NodeFields, ReadyCommitType DEF TypeOK
    <3>2. ReadyCommit(n) - Len(commit_terms) \in Int
      BY SMTT(30), <3>1
    <3>3. len \in Nat
      BY SMTT(30), <3>2, MaxPair
    <3> HIDE DEF len
    <3>4. new \in Seq(Term)
      BY SMTT(30), <3>1, <3>3
    <3>5. commit_terms' = commit_terms \o new
      BY <2>3 DEF len
    <3> HIDE DEF new
    <3> QED BY <3>1, <3>4, <3>5, ConcatProperties
  <2>8. /\ node' \in [Server -> NodeType]
        /\ leaders' \in SUBSET (Term \X Server)
        /\ \A j \in Server : NodeOK(j, node'[j])
    BY <2>1, <2>3, UpdateType
  <2> QED BY <1>1, <2>3, <2>4, <2>5, <2>6, <2>7, <2>8 DEF TypeOK
<1>7. ASSUME NEW i \in Server, Restart(i) PROVE TypeInv'
  <2>1. PICK d \in CrashImages(disk[i], node[i]), a \in {0, node[i].applied} :
          /\ disk' = [disk EXCEPT ![i] = d]
          /\ Update(i, InitNode(d, a))
    BY <1>7 DEF Restart
  <2>2. d \in DiskType /\ a \in Nat
    BY SMTT(30), CrashImagesType, NodeFields DEF TypeOK, NodeOK
  <2>3. /\ node' \in [Server -> NodeType]
        /\ leaders' \in SUBSET (Term \X Server)
        /\ \A j \in Server : NodeOK(j, node'[j])
    BY <2>1, <2>2, InitNodeType, UpdateType
  <2>4. disk' \in [Server -> DiskType]
    BY <2>1, <2>2 DEF TypeOK
  <2>5. restarts' \in 0 .. MaxRestarts
    BY SMTT(30), <1>1, <1>7, BoundsAssumption DEF Restart
  <2> QED BY <1>7, <2>3, <2>4, <2>5 DEF TypeOK, Restart
<1>8. CASE UNCHANGED vars
  BY <1>8 DEF vars, TypeOK
<1> QED BY <1>2, <1>3, <1>4, <1>5, <1>6, <1>7, <1>8 DEF Next, ServerStep

-----------------------------------------------------------------------------
(* What a step of one node does to its vote *)

(* A quiet step that keeps the role is a vote step.                         *)
LEMMA QuietIsVoteStep ==
  ASSUME NEW i, NEW n, NEW r, Bounded(n), Quiet(i, n, r), r.role = n.role
  PROVE  VoteStep(i, n, r)
<1>1. n.term \in Nat
  BY SMTT(30), NodeFields DEF Term
<1> QED BY SMTT(30), <1>1 DEF Quiet, VoteStep

(* Two quiet steps make a quiet step.                                       *)
LEMMA QuietTransitive ==
  ASSUME NEW i, NEW n, NEW r, NEW s, Quiet(i, n, r), Quiet(i, r, s)
  PROVE  Quiet(i, n, s)
BY DEF Quiet

(* Queueing AppendEntries is quiet.                                         *)
LEMMA AppendReqIsQuiet ==
  ASSUME NEW i \in Server, NEW n, Bounded(n), NEW ps \in SUBSET Peers(i),
         NEW r, r = Send(n, {AppendReqTo(i, n, p) : p \in ps})
  PROVE  Quiet(i, n, r) /\ r.role = n.role
<1>1. \A p \in ps : /\ AppendReqTo(i, n, p).from = i
                    /\ AppendReqTo(i, n, p).to # i
                    /\ AppendReqTo(i, n, p).type = "append_req"
  BY DEF AppendReqTo, Peers
<1>2. /\ r.term = n.term /\ r.voted_for = n.voted_for /\ r.hs_dirty = n.hs_dirty
      /\ r.votes = n.votes /\ r.role = n.role
      /\ r.msgs = n.msgs \union {AppendReqTo(i, n, p) : p \in ps}
  BY DEF Send, Bounded, NodeType
<1> QED BY <1>1, <1>2 DEF Quiet

(* sendAppend is quiet.                                                     *)
LEMMA SendAppendIsQuiet ==
  ASSUME NEW i \in Server, NEW n, Bounded(n), NEW p \in Peers(i)
  PROVE  Quiet(i, n, SendAppend(i, n, p)) /\ SendAppend(i, n, p).role = n.role
<1> DEFINE ps == {p}
<1>1. SendAppend(i, n, p) = Send(n, {AppendReqTo(i, n, q) : q \in ps})
  BY DEF SendAppend
<1>2. ps \in SUBSET Peers(i)
  OBVIOUS
<1> HIDE DEF ps
<1> QED BY SMTT(30), <1>1, <1>2, AppendReqIsQuiet

(* bcastAppend is quiet.                                                    *)
LEMMA BcastAppendIsQuiet ==
  ASSUME NEW i \in Server, NEW n, Bounded(n)
  PROVE  Quiet(i, n, BcastAppend(i, n)) /\ BcastAppend(i, n).role = n.role
<1> DEFINE ms == {AppendReqTo(i, n, p) : p \in Peers(i)}
           r  == BcastAppend(i, n)
<1>1. \A p \in Peers(i) : /\ AppendReqTo(i, n, p).from = i
                          /\ AppendReqTo(i, n, p).to # i
                          /\ AppendReqTo(i, n, p).type = "append_req"
  BY DEF AppendReqTo, Peers
<1>2. r = Send([n EXCEPT !.bcast_pending = FALSE], ms)
  BY DEF BcastAppend
<1> HIDE DEF r
<1>3. /\ r.term = n.term /\ r.voted_for = n.voted_for /\ r.hs_dirty = n.hs_dirty
      /\ r.votes = n.votes /\ r.role = n.role
      /\ r.msgs = n.msgs \union ms
  BY <1>2 DEF Send, Bounded, NodeType
<1> QED BY <1>1, <1>3 DEF Quiet, r

(* appendLocal is quiet.                                                    *)
LEMMA AppendLocalIsQuiet ==
  ASSUME NEW i, NEW n, Bounded(n), NEW val
  PROVE  Quiet(i, n, AppendLocal(n, val)) /\ AppendLocal(n, val).role = n.role
BY DEF AppendLocal, Quiet, Bounded, NodeType

(* maybeCommit is quiet.                                                    *)
LEMMA MaybeCommitIsQuiet ==
  ASSUME NEW i, NEW n, Bounded(n)
  PROVE  Quiet(i, n, MaybeCommit(n)) /\ MaybeCommit(n).role = n.role
<1> DEFINE nc == LeaderCommitIndex(n.term, n.commit, n.match, n.log)
           c  == [n EXCEPT !.commit = nc, !.bcast_pending = TRUE]
<1>1. MaybeCommit(n) \in {n, c}
  BY DEF MaybeCommit
<1> HIDE DEF nc
<1>2. Quiet(i, n, n) /\ Quiet(i, n, c) /\ c.role = n.role
  BY DEF Quiet, Bounded, NodeType
<1> QED BY <1>1, <1>2

(* becomeLeader changes the role and casts no vote.                         *)
LEMMA BecomeLeaderIsQuiet ==
  ASSUME NEW i \in Server, NEW n, Bounded(n)
  PROVE  Quiet(i, n, BecomeLeader(i, n)) /\ BecomeLeader(i, n).role = "leader"
<1> DEFINE next  == [s \in Server |-> LastIndex(n.log) + 1]
           match == [s \in Server |-> IF s = i THEN n.stable ELSE 0]
           m     == [n EXCEPT !.role = "leader", !.leader = i,
                              !.next = next, !.match = match]
           a     == AppendLocal(m, Noop)
<1>1. BecomeLeader(i, n) = BcastAppend(i, a)
  BY DEF BecomeLeader
<1>2. next \in [Server -> Nat] /\ match \in [Server -> Nat]
  BY SMTT(30), NodeFields
<1> HIDE DEF next, match
<1>3. Bounded(m) /\ Quiet(i, n, m) /\ m.role = "leader"
  BY <1>2 DEF Quiet, Bounded, NodeType
<1> HIDE DEF m
<1>4. Bounded(a) /\ Quiet(i, m, a) /\ a.role = "leader"
  BY <1>3, AppendLocalType, AppendLocalIsQuiet
<1> HIDE DEF a
<1>5. Quiet(i, a, BcastAppend(i, a)) /\ BcastAppend(i, a).role = "leader"
  BY <1>4, BcastAppendIsQuiet
<1> QED BY <1>1, <1>3, <1>4, <1>5, QuietTransitive

(* becomeFollower forgets the vote only with the term it was cast in.       *)
LEMMA BecomeFollowerVote ==
  ASSUME NEW i, NEW n, Bounded(n), NEW t \in Term, NEW r, r = BecomeFollower(n, t)
  PROVE  /\ r.term = IF t > n.term THEN t ELSE n.term
         /\ r.voted_for = IF t > n.term THEN None ELSE n.voted_for
         /\ r.hs_dirty = IF t > n.term THEN TRUE ELSE n.hs_dirty
         /\ r.role = "follower" /\ r.msgs = n.msgs
         /\ VoteStep(i, n, r)
<1>1. n.term \in Nat /\ t \in Nat
  BY SMTT(30), NodeFields DEF Term
<1>2. /\ r.term = IF t > n.term THEN t ELSE n.term
      /\ r.voted_for = IF t > n.term THEN None ELSE n.voted_for
      /\ r.hs_dirty = IF t > n.term THEN TRUE ELSE n.hs_dirty
      /\ r.role = "follower" /\ r.msgs = n.msgs
  BY DEF BecomeFollower, Bounded, NodeType
<1>3. r.term >= n.term /\ (r.term = n.term => r.voted_for = n.voted_for)
  BY SMTT(30), <1>1, <1>2
<1>4. r.hs_dirty
      \/ (r.term = n.term /\ r.voted_for = n.voted_for /\ r.hs_dirty = n.hs_dirty)
  BY <1>2
<1> QED BY <1>2, <1>3, <1>4 DEF VoteStep

(* campaign opens a new term with a vote for itself and asks for the        *)
(* others'; a single server wins with its own vote.                         *)
LEMMA CampaignVote ==
  ASSUME NEW i \in Server, NEW n, NodeOK(i, n), n.role # "leader"
  PROVE  VoteStep(i, n, Campaign(i, n))
<1>1. Bounded(n) /\ n.term \in Nat
  BY SMTT(30), NodeFields DEF NodeOK, Term
<1>2. CASE n.term >= MaxTerm
  <2>1. Campaign(i, n) = n /\ Quiet(i, n, n)
    BY <1>2 DEF Campaign, Quiet
  <2> QED BY <1>1, <2>1, QuietIsVoteStep
<1>3. CASE ~(n.term >= MaxTerm)
  <2> DEFINE t == n.term + 1
             c == [n EXCEPT !.term = t, !.voted_for = i, !.hs_dirty = TRUE,
                            !.role = "candidate", !.leader = None, !.votes = {i}]
             ms == { [type |-> "vote_req", from |-> i, to |-> p, term |-> c.term,
                      last_log_index |-> LastIndex(c.log),
                      last_log_term  |-> LastTerm(c.log)] : p \in Peers(i) }
  <2>1. t \in Term /\ t > n.term
    BY SMTT(30), <1>1, <1>3, MaxTermAssumption DEF Term
  <2>2. Campaign(i, n) = IF Elected(c) THEN BecomeLeader(i, c) ELSE Send(c, ms)
    BY <1>3 DEF Campaign
  <2> HIDE DEF t
  <2>3. /\ Bounded(c) /\ c.term = t /\ c.voted_for = i /\ c.hs_dirty = TRUE
        /\ c.votes = {i} /\ c.role = "candidate" /\ c.msgs = n.msgs
    BY <1>1, <2>1 DEF Bounded, NodeType
  <2> HIDE DEF c
  <2>4. \A m \in ms : m.from = i /\ m.to # i /\ m.type = "vote_req" /\ m.term = t
    BY SMTT(30), <2>3 DEF Peers
  <2> HIDE DEF ms
  <2>5. CASE Elected(c)
    <3> DEFINE r == BecomeLeader(i, c)
    <3>1. Quiet(i, c, r) /\ r.role = "leader"
      BY <2>3, BecomeLeaderIsQuiet
    <3> HIDE DEF r
    <3>2. VoteStep(i, n, r)
      BY SMTT(30), <1>1, <2>1, <2>3, <2>5, <3>1 DEF VoteStep, Quiet, Elected, Term
    <3> QED BY <2>2, <2>5, <3>2 DEF r
  <2>6. CASE ~Elected(c)
    <3> DEFINE r == Send(c, ms)
    <3>1. /\ r.term = t /\ r.voted_for = i /\ r.hs_dirty = TRUE
          /\ r.votes = {i} /\ r.role = "candidate" /\ r.msgs = n.msgs \union ms
      BY <2>3 DEF Send, Bounded, NodeType
    <3> HIDE DEF r
    <3>2. VoteStep(i, n, r)
      BY SMTT(30), <1>1, <2>1, <2>4, <3>1 DEF VoteStep, Term
    <3> QED BY <2>2, <2>6, <3>2 DEF r
  <2> QED BY <2>5, <2>6
<1> QED BY <1>2, <1>3

(* A tick that fires is a vote step.                                        *)
LEMMA TickFiresVote ==
  ASSUME NEW i \in Server, NEW n, NodeOK(i, n)
  PROVE  VoteStep(i, n, TickFires(i, n))
<1>1. CASE n.role = "leader"
  BY <1>1, BcastAppendIsQuiet, QuietIsVoteStep DEF TickFires, NodeOK
<1>2. CASE n.role # "leader"
  BY <1>2, CampaignVote DEF TickFires
<1> QED BY <1>1, <1>2

(* A proposal is a vote step.                                               *)
LEMMA ProposeVote ==
  ASSUME NEW i \in Server, NEW n, NodeOK(i, n), NEW val \in Value
  PROVE  VoteStep(i, n, Propose(n, val))
<1> DEFINE a == AppendLocal(n, val)
           b == [a EXCEPT !.bcast_pending = TRUE]
<1>1. Bounded(a) /\ Quiet(i, n, a) /\ a.role = n.role
  BY AppendLocalType, AppendLocalIsQuiet DEF NodeOK
<1> HIDE DEF a
<1>2. Quiet(i, a, b) /\ b.role = a.role
  BY <1>1 DEF Quiet, Bounded, NodeType
<1> HIDE DEF b
<1>3. Quiet(i, n, b) /\ b.role = n.role
  BY <1>1, <1>2, QuietTransitive
<1> QED BY <1>3, QuietIsVoteStep DEF Propose, NodeOK, a, b

(* The handler of RequestVote grants only a vote that is free or already    *)
(* the candidate's, and answers a request in flight.                        *)
LEMMA OnVoteReqVote ==
  ASSUME NEW i \in Server, NEW n, NodeOK(i, n), NEW m \in Message,
         m.type = "vote_req", m \in net, m.from \in Peers(i)
  PROVE  VoteStep(i, n, OnVoteReq(i, n, m))
<1> DEFINE d == HandleRequestVote(n.term, n.voted_for, Info(n.log), m)
           f == IF d.term_advanced THEN BecomeFollower(n, d.new_term) ELSE n
           h == [f EXCEPT !.voted_for = m.from, !.hs_dirty = TRUE]
           g == IF d.grant /\ f.voted_for # m.from THEN h ELSE f
           v == [type |-> "vote_resp", from |-> i, to |-> m.from,
                 term |-> g.term, granted |-> d.grant]
           r == Send(g, {v})
<1>1. /\ Bounded(n) /\ m.term \in Term /\ m.term \in Nat /\ n.term \in Nat
      /\ m.from \in Server /\ m.from # i
  BY SMTT(30), NodeFields DEF NodeOK, Message, Peers, Term
<1>2. OnVoteReq(i, n, m) = r
  BY DEF OnVoteReq
<1>3. /\ d.term_advanced => d.new_term = m.term /\ m.term > n.term
      /\ d.grant => \/ d.term_advanced
                    \/ n.term = m.term /\ n.voted_for \in {None, m.from}
  <2>1. CASE m.term < n.term
    BY <2>1 DEF HandleRequestVote
  <2>2. CASE ~(m.term < n.term) /\ m.term > n.term
    BY <2>2 DEF HandleRequestVote
  <2>3. CASE ~(m.term < n.term) /\ ~(m.term > n.term)
    <3>1. m.term = n.term
      BY SMTT(30), <1>1, <2>3
    <3> QED BY <2>3, <3>1 DEF HandleRequestVote
  <2> QED BY <2>1, <2>2, <2>3
<1> HIDE DEF d
<1>4. /\ Bounded(f) /\ f.msgs = n.msgs
      /\ d.grant => f.term = m.term /\ f.voted_for \in {None, m.from}
      /\ VoteStep(i, n, f)
  <2>1. CASE d.term_advanced
    <3>1. f = BecomeFollower(n, m.term)
      BY <2>1, <1>3
    <3> HIDE DEF f
    <3>2. Bounded(f)
      BY <1>1, <3>1, BecomeFollowerType
    <3>3. /\ f.term = IF m.term > n.term THEN m.term ELSE n.term
          /\ f.voted_for = IF m.term > n.term THEN None ELSE n.voted_for
          /\ f.msgs = n.msgs /\ VoteStep(i, n, f)
      BY <1>1, <3>1, BecomeFollowerVote
    <3> QED BY <1>3, <2>1, <3>2, <3>3
  <2>2. CASE ~d.term_advanced
    <3>1. f = n /\ Quiet(i, n, n)
      BY <2>2 DEF Quiet
    <3> HIDE DEF f
    <3> QED BY <1>1, <1>3, <2>2, <3>1, QuietIsVoteStep
  <2> QED BY <2>1, <2>2
<1> HIDE DEF f
<1>5. /\ Bounded(g) /\ g.msgs = n.msgs
      /\ d.grant => g.term = m.term /\ g.voted_for = m.from
      /\ VoteStep(i, n, g)
  <2>1. CASE d.grant /\ f.voted_for # m.from
    <3>1. /\ Bounded(h) /\ h.term = f.term /\ h.voted_for = m.from /\ h.hs_dirty = TRUE
          /\ h.role = f.role /\ h.votes = f.votes /\ h.msgs = f.msgs
      BY <1>1, <1>4 DEF Bounded, NodeType
    <3>2. f.voted_for = None
      BY <1>4, <2>1
    <3>3. g = h
      BY <2>1
    <3> HIDE DEF h, g
    <3>4. n.voted_for = None \/ f.term # n.term
      BY <1>4, <3>2 DEF VoteStep
    <3>5. VoteStep(i, n, h)
      BY SMTT(30), <1>4, <3>1, <3>2, <3>4, NodeFields, NoneAssumption, <1>1 DEF VoteStep
    <3> QED BY <1>4, <2>1, <3>1, <3>3, <3>5
  <2>2. CASE ~(d.grant /\ f.voted_for # m.from)
    <3>1. g = f
      BY <2>2
    <3> HIDE DEF g
    <3> QED BY <1>4, <2>2, <3>1
  <2> QED BY <2>1, <2>2
<1> HIDE DEF g
<1>6. /\ r.term = g.term /\ r.voted_for = g.voted_for /\ r.hs_dirty = g.hs_dirty
      /\ r.role = g.role /\ r.votes = g.votes /\ r.msgs = g.msgs \union {v}
  BY <1>5 DEF Send, Bounded, NodeType
<1>7. /\ v.type = "vote_resp" /\ v.from = i /\ v.to = m.from
      /\ v.term = g.term /\ v.granted = d.grant
  OBVIOUS
<1> HIDE DEF v, r
<1>8. VoteStep(i, n, r)
  BY SMTT(30), <1>1, <1>5, <1>6, <1>7 DEF VoteStep
<1> QED BY <1>2, <1>8

(* The handler of a vote counts it only as a candidate of its term and      *)
(* leads only with a majority.                                              *)
LEMMA OnVoteRespVote ==
  ASSUME NEW i \in Server, NEW n, NodeOK(i, n), NEW m \in Message,
         m.type = "vote_resp", m \in net, m.to = i
  PROVE  VoteStep(i, n, OnVoteResp(i, n, m))
<1> DEFINE obs == ObserveTerm(n.term, m.term)
           v   == [n EXCEPT !.votes = n.votes \union {m.from}]
           b   == BecomeFollower(n, obs.new_term)
<1>1. Bounded(n) /\ m.term \in Term /\ m.from \in Server /\ n.term \in Term
  BY NodeFields DEF NodeOK, Message
<1>2. obs.new_term \in Term
  BY <1>1 DEF ObserveTerm
<1>3. \/ OnVoteResp(i, n, m) \in {b, n}
      \/ /\ n.role = "candidate" /\ m.term = n.term /\ m.granted
         /\ OnVoteResp(i, n, m) = (IF Elected(v) THEN BecomeLeader(i, v) ELSE v)
  BY DEF OnVoteResp
<1> HIDE DEF obs
<1>4. VoteStep(i, n, b)
  BY <1>1, <1>2, BecomeFollowerVote
<1>5. VoteStep(i, n, n)
  <2>1. Quiet(i, n, n)
    BY DEF Quiet
  <2> QED BY <1>1, <2>1, QuietIsVoteStep
<1>6. ASSUME n.role = "candidate", m.term = n.term, m.granted
      PROVE  VoteStep(i, n, IF Elected(v) THEN BecomeLeader(i, v) ELSE v)
  <2>1. IsGrant(m, m.from, n.term, i)
    BY <1>6 DEF IsGrant
  <2>2. /\ Bounded(v) /\ v.term = n.term /\ v.voted_for = n.voted_for
        /\ v.hs_dirty = n.hs_dirty /\ v.role = n.role /\ v.msgs = n.msgs
        /\ v.votes = n.votes \union {m.from}
    BY <1>1 DEF Bounded, NodeType
  <2> HIDE DEF v
  <2>3. CASE Elected(v)
    <3> DEFINE r == BecomeLeader(i, v)
    <3>1. Quiet(i, v, r) /\ r.role = "leader"
      BY <2>2, BecomeLeaderIsQuiet
    <3> HIDE DEF r
    <3>2. VoteStep(i, n, r)
      BY SMTT(30), <1>1, <1>6, <2>1, <2>2, <2>3, <3>1 DEF VoteStep, Quiet, Elected, Term
    <3> QED BY <2>3, <3>2 DEF r
  <2>4. CASE ~Elected(v)
    <3>1. VoteStep(i, n, v)
      BY SMTT(30), <1>1, <1>6, <2>1, <2>2 DEF VoteStep, Term
    <3> QED BY <2>4, <3>1
  <2> QED BY <2>3, <2>4
<1> HIDE DEF v, b
<1> QED BY <1>3, <1>4, <1>5, <1>6

(* truncateAfter touches nothing of the vote.                               *)
LEMMA TruncateAfterVote ==
  ASSUME NEW n, Bounded(n), NEW keep, NEW r, r = TruncateAfter(n, keep)
  PROVE  /\ r.term = n.term /\ r.voted_for = n.voted_for /\ r.hs_dirty = n.hs_dirty
         /\ r.role = n.role /\ r.votes = n.votes /\ r.msgs = n.msgs
         /\ DOMAIN r = DOMAIN n
BY DEF TruncateAfter, Bounded, NodeType

(* The handler of AppendEntries may move to the leader's term, and votes    *)
(* for nobody.                                                              *)
LEMMA OnAppendReqVote ==
  ASSUME NEW i \in Server, NEW n, NodeOK(i, n), NEW m \in Message,
         m.type = "append_req", m.from \in Peers(i)
  PROVE  VoteStep(i, n, OnAppendReq(i, n, m))
<1> DEFINE out == HandleAppendEntries(n.term, n.log, n.commit, m)
           b   == BecomeFollower(n, m.term)
           l   == [b EXCEPT !.leader = m.from]
           f   == IF m.term >= n.term THEN l ELSE n
           cut == TruncateAfter(f, out.truncate_to)
           new == SubSeq(m.entries, out.append_from, Len(m.entries))
           h   == [cut EXCEPT !.log = cut.log \o new,
                              !.commit = Max({cut.commit, out.new_commit_index})]
           g   == IF out.success THEN h ELSE f
           a   == [type |-> "append_resp", from |-> i, to |-> m.from, term |-> g.term,
                   success |-> out.success,
                   index |-> IF out.success THEN out.match_index ELSE LastIndex(g.log)]
           r   == Send(g, {a})
           Same(x, y) == /\ x.term = y.term /\ x.voted_for = y.voted_for
                         /\ x.hs_dirty = y.hs_dirty /\ x.role = y.role
                         /\ x.votes = y.votes
<1>1. OnAppendReq(i, n, m) = r
  BY DEF OnAppendReq
<1>2. Bounded(n) /\ m.term \in Term /\ m.from \in Server /\ m.from # i
  BY DEF NodeOK, Message, Peers
<1> HIDE DEF out
<1>3. Bounded(f) /\ f.msgs = n.msgs /\ VoteStep(i, n, f)
  <2>1. CASE m.term >= n.term
    <3>1. Bounded(b) /\ b.role = "follower" /\ b.msgs = n.msgs /\ VoteStep(i, n, b)
      BY <1>2, BecomeFollowerType, BecomeFollowerVote
    <3> HIDE DEF b
    <3>2. /\ Bounded(l) /\ Same(l, b) /\ l.msgs = b.msgs
      BY <1>2, <3>1 DEF Bounded, NodeType
    <3> HIDE DEF l
    <3>3. VoteStep(i, n, l)
      BY <3>1, <3>2 DEF VoteStep
    <3> QED BY <2>1, <3>1, <3>2, <3>3
  <2>2. CASE ~(m.term >= n.term)
    <3>1. f = n /\ Quiet(i, n, n)
      BY <2>2 DEF Quiet
    <3> HIDE DEF f
    <3> QED BY <1>2, <3>1, QuietIsVoteStep
  <2> QED BY <2>1, <2>2
<1> HIDE DEF f
<1>4. Same(g, f) /\ g.msgs = f.msgs /\ DOMAIN g = DOMAIN f
  <2>1. Same(cut, f) /\ cut.msgs = f.msgs /\ DOMAIN cut = DOMAIN f
    BY SMTT(30), <1>3, TruncateAfterVote
  <2> HIDE DEF cut
  <2>2. Same(h, cut) /\ h.msgs = cut.msgs /\ DOMAIN h = DOMAIN cut
    BY SMTT(30)
  <2> HIDE DEF h
  <2> QED BY <2>1, <2>2
<1> HIDE DEF g
<1>5. Same(r, g) /\ r.msgs = g.msgs \union {a}
  <2>1. "msgs" \in DOMAIN f
    BY <1>3 DEF Bounded, NodeType
  <2> QED BY SMTT(30), <1>4, <2>1 DEF Send
<1>6. a.from = i /\ a.to # i /\ a.type = "append_resp"
  BY <1>2
<1> HIDE DEF a, r
<1>7. VoteStep(i, n, r)
  BY SMTT(30), <1>3, <1>4, <1>5, <1>6 DEF VoteStep
<1> QED BY <1>1, <1>7

(* The handler of an answer may step down to a later term, and votes for    *)
(* nobody.                                                                  *)
LEMMA OnAppendRespVote ==
  ASSUME Counting, NEW i \in Server, NEW n, NodeOK(i, n), NEW m \in Message,
         m.type = "append_resp", m.from \in Peers(i)
  PROVE  VoteStep(i, n, OnAppendResp(i, n, m))
<1> DEFINE obs == ObserveTerm(n.term, m.term)
<1>1. Bounded(n) /\ m.term \in Term /\ m.from \in Server /\ m.index \in Nat /\ n.term \in Term
  BY NodeFields DEF NodeOK, Message
<1>2. /\ obs.new_term \in Term
      /\ n.match[m.from] \in Nat /\ n.next[m.from] \in Nat /\ LastIndex(n.log) \in Nat
  BY <1>1, NodeFields DEF ObserveTerm
<1>3. \/ OnAppendResp(i, n, m) \in {BecomeFollower(n, obs.new_term), n}
      \/ OnAppendResp(i, n, m) \in {OnAppendSuccess(i, n, m), OnAppendFailure(i, n, m)}
  BY DEF OnAppendResp
<1> HIDE DEF obs
<1>4. VoteStep(i, n, BecomeFollower(n, obs.new_term))
  BY <1>1, <1>2, BecomeFollowerVote
<1>5. VoteStep(i, n, n)
  <2>1. Quiet(i, n, n)
    BY DEF Quiet
  <2> QED BY <1>1, <2>1, QuietIsVoteStep
<1>6. VoteStep(i, n, OnAppendSuccess(i, n, m))
  <2> DEFINE match == Max({n.match[m.from], m.index})
             next  == Max({n.next[m.from], match + 1})
             w     == [n EXCEPT !.match[m.from] = match, !.next[m.from] = next]
             c     == MaybeCommit(w)
             q     == [n EXCEPT !.malformed_dropped = @ + 1]
  <2>1. OnAppendSuccess(i, n, m) \in {q, SendAppend(i, c, m.from), c}
    BY DEF OnAppendSuccess
  <2>2. Quiet(i, n, q) /\ q.role = n.role
    BY <1>1 DEF Quiet, Bounded, NodeType
  <2>3. match \in Nat
    BY <1>1, <1>2, MaxNat
  <2> HIDE DEF match
  <2>4. next \in Nat
    <3>1. match + 1 \in Nat
      BY SMTT(30), <2>3
    <3> QED BY <1>2, <3>1, MaxNat
  <2> HIDE DEF next, q
  <2>5. Bounded(w) /\ Quiet(i, n, w) /\ w.role = n.role
    BY <1>1, <2>3, <2>4 DEF Quiet, Bounded, NodeType
  <2> HIDE DEF w
  <2>6. Bounded(c) /\ Quiet(i, w, c) /\ c.role = n.role
    BY <2>5, MaybeCommitType, MaybeCommitIsQuiet
  <2> HIDE DEF c
  <2>7. Quiet(i, c, SendAppend(i, c, m.from)) /\ SendAppend(i, c, m.from).role = n.role
    BY <2>6, SendAppendIsQuiet
  <2>8. Quiet(i, n, c) /\ Quiet(i, n, SendAppend(i, c, m.from))
    BY <2>5, <2>6, <2>7, QuietTransitive
  <2> QED BY <1>1, <2>1, <2>2, <2>6, <2>7, <2>8, QuietIsVoteStep
<1>7. VoteStep(i, n, OnAppendFailure(i, n, m))
  <2> DEFINE next == Max({n.match[m.from] + 1, Min({n.next[m.from] - 1, m.index + 1})})
             w    == [n EXCEPT !.next[m.from] = next]
  <2>1. OnAppendFailure(i, n, m) \in {SendAppend(i, w, m.from), w}
    BY DEF OnAppendFailure
  <2>2. next \in Nat
    <3> DEFINE low == Min({n.next[m.from] - 1, m.index + 1})
    <3>1. n.next[m.from] - 1 \in Int /\ m.index + 1 \in Int /\ n.match[m.from] + 1 \in Nat
      BY SMTT(30), <1>1, <1>2
    <3>2. low \in Int
      BY <3>1, MinPair
    <3> HIDE DEF low
    <3>3. Max({n.match[m.from] + 1, low}) \in Nat
      BY SMTT(30), <3>1, <3>2, MaxPair
    <3> QED BY <3>3 DEF low
  <2> HIDE DEF next
  <2>3. Bounded(w) /\ Quiet(i, n, w) /\ w.role = n.role
    BY <1>1, <2>2 DEF Quiet, Bounded, NodeType
  <2> HIDE DEF w
  <2>4. Quiet(i, w, SendAppend(i, w, m.from)) /\ SendAppend(i, w, m.from).role = n.role
    BY <2>3, SendAppendIsQuiet
  <2>5. Quiet(i, n, SendAppend(i, w, m.from))
    BY <2>3, <2>4, QuietTransitive
  <2> QED BY <1>1, <2>1, <2>3, <2>4, <2>5, QuietIsVoteStep
<1> QED BY <1>3, <1>4, <1>5, <1>6, <1>7

(* stepBytes is a vote step, whatever message arrives.                      *)
LEMMA StepBytesVote ==
  ASSUME Counting, NEW i \in Server, NEW n, NodeOK(i, n), NEW m \in Message, m \in net
  PROVE  VoteStep(i, n, StepBytes(i, n, m))
<1> DEFINE q == [n EXCEPT !.malformed_dropped = n.malformed_dropped + 1]
<1>1. CASE ~Decodes(m) \/ m.to # i \/ m.from \notin Peers(i)
  <2>1. StepBytes(i, n, m) = q
    BY <1>1 DEF StepBytes
  <2>2. Bounded(n) /\ Quiet(i, n, q) /\ q.role = n.role
    BY DEF NodeOK, Quiet, Bounded, NodeType
  <2> HIDE DEF q
  <2> QED BY <2>1, <2>2, QuietIsVoteStep
<1>2. CASE ~(~Decodes(m) \/ m.to # i \/ m.from \notin Peers(i))
  <2>1. m.type \in {"vote_req", "vote_resp", "append_req", "append_resp"}
    BY DEF Message
  <2>2. CASE m.type = "vote_req"
    BY <1>2, <2>2, OnVoteReqVote DEF StepBytes
  <2>3. CASE m.type = "vote_resp"
    BY <1>2, <2>3, OnVoteRespVote DEF StepBytes
  <2>4. CASE m.type = "append_req"
    BY <1>2, <2>4, OnAppendReqVote DEF StepBytes
  <2>5. CASE m.type = "append_resp"
    BY <1>2, <2>5, OnAppendRespVote DEF StepBytes
  <2> QED BY <2>1, <2>2, <2>3, <2>4, <2>5
<1> QED BY <1>1, <1>2

-----------------------------------------------------------------------------
(* The invariant of the election *)

(* ready is quiet.                                                          *)
LEMMA ReadyIsQuiet ==
  ASSUME NEW i \in Server, NEW n, Bounded(n)
  PROVE  Quiet(i, n, Ready(i, n)) /\ Ready(i, n).role = n.role
<1> DEFINE q == [n EXCEPT !.bcast_pending = FALSE]
<1>1. Ready(i, n) \in {n, BcastAppend(i, n), q}
  BY DEF Ready
<1>2. Quiet(i, n, n) /\ Quiet(i, n, q) /\ q.role = n.role
  BY DEF Quiet, Bounded, NodeType
<1> QED BY <1>1, <1>2, BcastAppendIsQuiet

(* advance clears the dirty mark and the queue and keeps the vote.          *)
LEMMA AdvanceVote ==
  ASSUME NEW i \in Server, NEW n, Bounded(n)
  PROVE  /\ Advance(i, n).voted_for = n.voted_for /\ ~Advance(i, n).hs_dirty
         /\ Advance(i, n).votes = n.votes
<1> DEFINE rc == ReadyCommit(n)
           st == LastIndex(n.log)
           a == [n EXCEPT !.hs_dirty = FALSE, !.truncated = None, !.msgs = {},
                          !.stable = st, !.applied = rc]
           b == [a EXCEPT !.match[i] = a.stable]
           nc == LeaderCommitIndex(b.term, b.commit, b.match, b.log)
           c == [b EXCEPT !.commit = nc, !.bcast_pending = TRUE]
<1>1. Advance(i, n) \in {a, b, c}
  BY DEF Advance, MaybeCommit
<1> HIDE DEF rc, st
<1>2. /\ a.voted_for = n.voted_for /\ a.hs_dirty = FALSE /\ a.votes = n.votes
      /\ DOMAIN a = DOMAIN n
  BY DEF Bounded, NodeType
<1> HIDE DEF a
<1>3. b.voted_for = a.voted_for /\ b.hs_dirty = a.hs_dirty /\ b.votes = a.votes
  BY SMTT(30)
<1> HIDE DEF b, nc
<1>4. c.voted_for = b.voted_for /\ c.hs_dirty = b.hs_dirty /\ c.votes = b.votes
  BY SMTT(30)
<1> HIDE DEF c
<1> QED BY <1>1, <1>2, <1>3, <1>4

(* After a turn of the drain loop the disk holds the term and the vote of   *)
(* the node, written before any message of the batch is sent.               *)
LEMMA DrainHardState ==
  ASSUME TypeInv, ElectionInv, NEW i \in Server, Drain(i)
  PROVE  /\ disk'[i].term = node[i].term /\ disk'[i].voted_for = node[i].voted_for
         /\ \A j \in Server \ {i} : disk'[j] = disk[j]
<1> DEFINE n == Ready(i, node[i])
           d == disk[i]
           h == SaveHardState(d, n)
           c == SaveTruncation(h, n)
           e == SaveEntries(c, n)
<1>1. Bounded(n) /\ Quiet(i, node[i], n)
  BY ElectionTypes, ReadyType, ReadyIsQuiet DEF TypeInv, NodeOK
<1>2. disk' = [disk EXCEPT ![i] = Persist(d, n)]
  BY DEF Drain
<1>3. d \in DiskType
  BY ElectionTypes
<1> HIDE DEF n
<1>4. h.term = node[i].term /\ h.voted_for = node[i].voted_for /\ h \in DiskType
  <2>1. CASE n.hs_dirty
    BY <1>1, <1>3, <2>1, SaveHardStateType DEF SaveHardState, DiskType, Quiet
  <2>2. CASE ~n.hs_dirty
    BY <1>1, <1>3, <2>2 DEF SaveHardState, ElectionInv, DiskBehind, Quiet
  <2> QED BY <2>1, <2>2
<1> HIDE DEF h
<1>5. c.term = h.term /\ c.voted_for = h.voted_for /\ c \in DiskType
  BY <1>1, <1>4, SaveTruncationType DEF SaveTruncation, DiskType
<1> HIDE DEF c
<1>6. e.term = c.term /\ e.voted_for = c.voted_for
  BY <1>5 DEF SaveEntries, DiskType
<1>7. Persist(d, n) = e
  BY DEF Persist, c, h
<1> HIDE DEF e, d
<1> QED BY <1>2, <1>4, <1>5, <1>6, <1>7, ElectionTypes DEF d

(* The hard state of a disk left by a crash is the old one or the new one,  *)
(* never a mixture.                                                         *)
LEMMA CrashImagesVote ==
  ASSUME NEW d \in DiskType, NEW n, Bounded(n), NEW e \in CrashImages(d, n)
  PROVE  \/ e.term = d.term /\ e.voted_for = d.voted_for
         \/ n.hs_dirty /\ e.term = n.term /\ e.voted_for = n.voted_for
<1> DEFINE hs  == SaveHardState(d, n)
           cut == SaveTruncation(hs, n)
<1>1. hs \in DiskType /\ cut \in DiskType
  BY SaveHardStateType, SaveTruncationType
<1>2. \/ hs.term = d.term /\ hs.voted_for = d.voted_for
      \/ n.hs_dirty /\ hs.term = n.term /\ hs.voted_for = n.voted_for
  BY DEF SaveHardState, DiskType
<1>3. \/ e = d
      \/ \E k \in Len(cut.log) .. Len(d.log) : e = [hs EXCEPT !.log = Keep(hs.log, k)]
      \/ \E k \in n.stable .. LastIndex(n.log) :
           e = [cut EXCEPT !.log = cut.log \o SubSeq(n.log, n.stable + 1, k)]
  BY DEF CrashImages
<1>4. cut.term = hs.term /\ cut.voted_for = hs.voted_for
  <2> HIDE DEF hs
  <2> QED BY <1>1 DEF SaveTruncation, DiskType
<1> HIDE DEF hs, cut
<1>5. \/ e = d
      \/ e.term = hs.term /\ e.voted_for = hs.voted_for
      \/ e.term = cut.term /\ e.voted_for = cut.voted_for
  BY <1>1, <1>3 DEF DiskType
<1> QED BY <1>2, <1>4, <1>5

=============================================================================
