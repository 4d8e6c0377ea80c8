----------------------------- MODULE RaftPrefix -----------------------------
(*****************************************************************************)
(* What inputs do to a prefix that a majority holds: a server that takes an *)
(* input keeps it, or moves to a later term with a log that has it; a       *)
(* candidate whose log lacks it cannot win; and so a prefix of a leader's   *)
(* log that can still be committed stays with the servers that confirmed    *)
(* it.                                                                      *)
(*****************************************************************************)
EXTENDS RaftLog, RaftCommitInv

(* Zenon proves the steps, unless they name another prover; it gets the     *)
(* time a loaded machine may need.                                          *)
USE ZenonT(30)

-----------------------------------------------------------------------------
(* Prefixes *)

(* Later entries have later terms.                                          *)
LEMMA TermsGrow ==
  ASSUME NEW log \in Seq(Entry), Ordered(log), NEW j \in Nat, NEW k \in Nat,
         1 <= j, j <= k, k <= Len(log)
  PROVE  log[j].term <= log[k].term
<1>1. j \in 1 .. k /\ k \in 1 .. Len(log)
  BY SMTT(30)
<1> QED BY <1>1 DEF Ordered

(* A log with an entry of the top term of p at or after the end of p has p: *)
(* its entries of that term lead back to it.                                *)
LEMMA HoldsBy ==
  ASSUME NEW a \in Seq(Entry), NEW p \in Seq(Entry), NEW S, Tidy(S),
         LogSlots(a) \subseteq S, LogSlots(p) \subseteq S, Len(p) # 0,
         NEW k \in Nat, Len(p) <= k, k <= Len(a), a[k].term = Top(p)
  PROVE  Prefix(p, a)
BY DEF Tidy, Top

(* A candidate whose log is at least as up to date as one that has p has p, *)
(* too: the election restriction.                                           *)
LEMMA UpToDateHolds ==
  ASSUME NEW a \in Seq(Entry), NEW b \in Seq(Entry), NEW p \in Seq(Entry), NEW S, Tidy(S),
         LogSlots(a) \subseteq S, LogSlots(p) \subseteq S, Len(p) # 0,
         Ordered(b), Prefix(p, b), LastTerm(a) > Top(p) => Prefix(p, a),
         LogIsAtLeastAsUpToDate([last_index |-> Len(a), last_term |-> LastTerm(a)], Info(b))
  PROVE  Prefix(p, a)
<1>1. /\ Len(a) \in Nat /\ Len(b) \in Nat /\ Len(p) \in Nat
      /\ LastTerm(a) \in Nat /\ LastTerm(b) \in Nat /\ Top(p) \in Nat
  <2>1. Len(p) \in Nat /\ \A k \in 1 .. Len(p) : p[k].term \in Nat
    BY LogType
  <2>2. Len(p) \in 1 .. Len(p)
    BY SMTT(30), <2>1
  <2> QED BY <2>1, <2>2, LogType DEF Top
<1>2. Len(p) <= Len(b) /\ b[Len(p)].term = Top(p)
  BY SMTT(30), <1>1 DEF Prefix, Top
<1>3. LastTerm(b) = b[Len(b)].term
  <2>1. Len(b) # 0
    BY SMTT(30), <1>1, <1>2
  <2> QED BY <2>1, LogType
<1>4. LastTerm(b) >= Top(p)
  <2>1. b[Len(p)].term <= b[Len(b)].term
    BY SMTT(30), <1>1, <1>2, TermsGrow
  <2> QED BY <1>1, <1>2, <1>3, <2>1
<1>5. IF LastTerm(a) # LastTerm(b) THEN LastTerm(a) > LastTerm(b) ELSE Len(a) >= Len(b)
  BY DEF LogIsAtLeastAsUpToDate, Info, LastIndex
<1>6. CASE LastTerm(a) > Top(p)
  BY <1>6
<1>7. CASE ~(LastTerm(a) > Top(p))
  <2>1. LastTerm(a) = Top(p) /\ Len(p) <= Len(a) /\ Len(a) # 0
    BY SMTT(30), <1>1, <1>2, <1>4, <1>5, <1>7
  <2>2. a[Len(a)].term = Top(p)
    BY <2>1, LogType
  <2> QED BY SMTT(30), <1>1, <2>1, <2>2, HoldsBy
<1> QED BY <1>6, <1>7

(* A slice of a log that has p fits p.                                      *)
LEMMA SliceFits ==
  ASSUME NEW m \in Message, m.type = "append_req", NEW log \in Seq(Entry), SliceOf(m, log),
         NEW p \in Seq(Entry), Len(p) # 0, Prefix(p, log), Ordered(log)
  PROVE  Fits(m, p)
<1>1. /\ m.prev_log_index \in Nat /\ Len(m.entries) \in Nat
      /\ Len(log) \in Nat /\ Len(p) \in Nat /\ Len(p) <= Len(log)
  BY SMTT(30) DEF Message, Prefix
<1>2. /\ m.prev_log_index + Len(m.entries) <= Len(log)
      /\ m.prev_log_term = TermAt(log, m.prev_log_index)
      /\ \A k \in 1 .. Len(m.entries) : m.entries[k] = log[m.prev_log_index + k]
      /\ \A k \in 1 .. Len(p) : p[k] = log[k]
  BY DEF SliceOf, Prefix
<1>3. ASSUME m.prev_log_index <= Len(p) PROVE m.prev_log_term = TermAt(p, m.prev_log_index)
  <2>1. m.prev_log_index = 0 \/ m.prev_log_index \in 1 .. Len(p)
    BY SMTT(30), <1>1, <1>3
  <2> QED BY <1>2, <2>1 DEF TermAt
<1>4. ASSUME m.prev_log_index > Len(p) PROVE m.prev_log_term >= Top(p)
  <2>1. /\ 1 <= Len(p) /\ Len(p) <= m.prev_log_index /\ m.prev_log_index <= Len(log)
        /\ m.prev_log_index # 0 /\ Len(p) \in 1 .. Len(p)
        /\ Len(p) \in 1 .. Len(log) /\ m.prev_log_index \in 1 .. Len(log)
    BY SMTT(30), <1>1, <1>2, <1>4
  <2>2. log[Len(p)].term <= log[m.prev_log_index].term
    BY <1>1, <2>1, TermsGrow
  <2>3. m.prev_log_term = log[m.prev_log_index].term /\ Top(p) = log[Len(p)].term
    BY <1>2, <2>1 DEF TermAt, Top
  <2>4. log[Len(p)].term \in Nat /\ log[m.prev_log_index].term \in Nat
    BY <2>1, LogType
  <2> QED BY <2>2, <2>3, <2>4
<1>5. ASSUME NEW k \in 1 .. Len(m.entries), m.prev_log_index + k <= Len(p)
      PROVE  m.entries[k] = p[m.prev_log_index + k]
  <2>1. m.prev_log_index + k \in 1 .. Len(p)
    BY SMTT(30), <1>1, <1>5
  <2> QED BY <1>2, <2>1
<1> QED BY <1>3, <1>4, <1>5 DEF Fits

(* A batch that fits p takes away nothing a log shares with p: there is no  *)
(* conflict there.                                                          *)
LEMMA MergeFits ==
  ASSUME NEW log \in Seq(Entry), NEW q \in Message, q.type = "append_req",
         NEW new \in Seq(Entry), NEW c \in Nat, MergedAt(log, q, new, c),
         NEW p \in Seq(Entry), Fits(q, p), NEW v \in Nat, Agrees(p, log, v)
  PROVE  v <= c /\ Agrees(p, new, v)
<1>1. /\ q.prev_log_index \in Nat /\ Len(q.entries) \in Nat
      /\ Len(log) \in Nat /\ Len(p) \in Nat /\ Len(new) \in Nat
  BY SMTT(30) DEF Message
<1>2. v <= Len(p) /\ v <= Len(log) /\ \A j \in 1 .. v : p[j] = log[j]
  BY DEF Agrees
<1>3. v <= c
  <2> SUFFICES ASSUME c < v PROVE FALSE
    BY SMTT(30), <1>1
  <2> DEFINE k == c + 1 - q.prev_log_index
  <2>1. c < Len(log)
    BY SMTT(30), <1>1, <1>2
  <2>2. k \in 1 .. Len(q.entries) /\ log[c + 1].term # q.entries[k].term
    BY <2>1 DEF MergedAt
  <2>3. q.prev_log_index + k = c + 1 /\ c + 1 <= Len(p) /\ c + 1 \in 1 .. v
    BY SMTT(30), <1>1, <1>2
  <2> HIDE DEF k
  <2>4. q.entries[k] = p[c + 1]
    BY <2>2, <2>3 DEF Fits
  <2> QED BY <1>2, <2>2, <2>3, <2>4
<1>4. c <= Len(new) /\ \A j \in 1 .. c : new[j] = log[j]
  BY DEF MergedAt
<1>5. v <= Len(new) /\ \A j \in 1 .. v : j \in 1 .. c
  BY SMTT(30), <1>1, <1>3, <1>4
<1> QED BY <1>2, <1>3, <1>4, <1>5 DEF Agrees

(* What handleAppendEntries and the log around it tell of p: a log that has *)
(* p once it is past the term of p, and that takes a batch that fits p.     *)
Takeable(log, q, new, c, p, S) ==
  /\ MergedAt(log, q, new, c) /\ Fits(q, p) /\ Len(p) # 0
  /\ Tidy(S) /\ LogSlots(log) \subseteq S /\ LogSlots(p) \subseteq S
  /\ Ordered(log) /\ (LastTerm(log) > Top(p) => Prefix(p, log))

(* It has the entries of p up to the end of the batch.                      *)
LEMMA MergeMatches ==
  ASSUME NEW log \in Seq(Entry), NEW q \in Message, q.type = "append_req",
         NEW new \in Seq(Entry), NEW c \in Nat, NEW p \in Seq(Entry), NEW S,
         Takeable(log, q, new, c, p, S),
         NEW j \in 1 .. Len(p), j <= q.prev_log_index + Len(q.entries)
  PROVE  new[j] = p[j]
<1> DEFINE prev == q.prev_log_index
<1>1. /\ prev \in Nat /\ Len(q.entries) \in Nat
      /\ Len(log) \in Nat /\ Len(p) \in Nat /\ Len(new) \in Nat
  BY SMTT(30) DEF Message
<1>2. /\ Tidy(S) /\ LogSlots(log) \subseteq S /\ LogSlots(p) \subseteq S
      /\ Ordered(log) /\ (LastTerm(log) > Top(p) => Prefix(p, log)) /\ Len(p) # 0
  BY DEF Takeable
<1>3. /\ prev <= Len(p) => q.prev_log_term = TermAt(p, prev)
      /\ prev > Len(p) => q.prev_log_term >= Top(p)
      /\ \A k \in 1 .. Len(q.entries) : prev + k <= Len(p) => q.entries[k] = p[prev + k]
  BY DEF Takeable, Fits
<1>4. /\ c \in prev .. Len(log) /\ c <= Len(new) /\ prev + Len(q.entries) <= Len(new)
      /\ TermAt(log, prev) = q.prev_log_term
      /\ \A k \in 1 .. c : new[k] = log[k]
      /\ \A k \in c + 1 .. Len(new) : new[k] = q.entries[k - prev]
      /\ \A k \in 1 .. Len(q.entries) : prev + k <= c => log[prev + k].term = q.entries[k].term
  BY DEF Takeable, MergedAt
<1> HIDE DEF prev
<1>5. CASE j > prev
  <2> DEFINE k == j - prev
  <2>1. k \in 1 .. Len(q.entries) /\ prev + k = j /\ j <= Len(p) /\ j \in Nat /\ j # 0
    BY SMTT(30), <1>1, <1>5 DEF prev
  <2> HIDE DEF k
  <2>2. q.entries[k] = p[j]
    BY <1>3, <2>1
  <2>3. CASE j <= c
    <3>1. log[j].term = p[j].term /\ j <= Len(log) /\ j \in 1 .. c
      BY SMTT(30), <1>1, <1>4, <2>1, <2>2, <2>3
    <3>2. TermAt(log, j) = TermAt(p, j)
      BY <2>1, <3>1 DEF TermAt
    <3>3. \A x \in 1 .. j : log[x] = p[x]
      BY <1>2, <2>1, <3>1, <3>2, PrefixAgree
    <3>4. j \in 1 .. j
      BY SMTT(30), <2>1
    <3> QED BY <1>4, <3>1, <3>3, <3>4
  <2>4. CASE j > c
    <3>1. j \in c + 1 .. Len(new) /\ k = j - prev
      BY SMTT(30), <1>1, <1>4, <1>5, <2>1, <2>4 DEF prev, k
    <3> QED BY <1>4, <2>2, <3>1
  <2> QED BY SMTT(30), <1>1, <2>1, <2>3, <2>4
<1>6. CASE j <= prev
  <2>1. j \in 1 .. c /\ j \in 1 .. prev /\ prev <= Len(log) /\ prev # 0
    BY SMTT(30), <1>1, <1>4, <1>6
  <2>2. CASE prev <= Len(p)
    <3>1. \A x \in 1 .. prev : log[x] = p[x]
      BY SMTT(30), <1>1, <1>2, <1>3, <1>4, <2>1, <2>2, PrefixAgree
    <3> QED BY <1>4, <2>1, <3>1
  <2>3. CASE prev > Len(p)
    <3>1. log[prev].term >= Top(p)
      BY <1>3, <1>4, <2>1, <2>3 DEF TermAt
    <3>2. log[prev].term \in Nat /\ LastTerm(log) \in Nat /\ Top(p) \in Nat
      <4>1. prev \in 1 .. Len(log) /\ Len(p) \in 1 .. Len(p)
        BY SMTT(30), <1>1, <1>2, <2>1
      <4> QED BY <4>1, LogType DEF Top
    <3>3. Prefix(p, log)
      <4>1. CASE log[prev].term = Top(p)
        BY SMTT(30), <1>1, <1>2, <2>1, <2>3, <4>1, HoldsBy
      <4>2. CASE log[prev].term # Top(p)
        <5>1. log[prev].term <= log[Len(log)].term
          BY SMTT(30), <1>1, <1>2, <2>1, TermsGrow
        <5>2. LastTerm(log) = log[Len(log)].term
          <6>1. Len(log) # 0
            BY SMTT(30), <1>1, <2>1
          <6> QED BY <6>1, LogType
        <5>3. LastTerm(log) > Top(p)
          BY SMTT(30), <3>1, <3>2, <4>2, <5>1, <5>2
        <5> QED BY <1>2, <5>3
      <4> QED BY <4>1, <4>2
    <3>4. log[j] = p[j]
      BY <3>3 DEF Prefix
    <3> QED BY <1>4, <2>1, <3>4
  <2> QED BY SMTT(30), <1>1, <2>2, <2>3
<1> QED BY SMTT(30), <1>1, <1>5, <1>6

(* If it is past the term of p afterwards, it has p.                        *)
LEMMA MergeTop ==
  ASSUME NEW log \in Seq(Entry), NEW q \in Message, q.type = "append_req",
         NEW new \in Seq(Entry), NEW c \in Nat, NEW p \in Seq(Entry), NEW S,
         Takeable(log, q, new, c, p, S), Ordered(p), LastTerm(new) > Top(p)
  PROVE  Prefix(p, new)
<1> DEFINE end == q.prev_log_index + Len(q.entries)
           L   == Len(new)
<1>1. /\ q.prev_log_index \in Nat /\ Len(q.entries) \in Nat /\ end \in Nat
      /\ Len(log) \in Nat /\ Len(p) \in Nat /\ L \in Nat /\ Len(p) # 0
  BY SMTT(30) DEF Message, Takeable
<1>2. /\ c \in q.prev_log_index .. Len(log) /\ c <= L /\ end <= L
      /\ \A k \in 1 .. c : new[k] = log[k]
      /\ \A k \in c + 1 .. L : k - q.prev_log_index \in 1 .. Len(q.entries)
      /\ c < Len(log) => c + 1 - q.prev_log_index \in 1 .. Len(q.entries)
  BY DEF Takeable, MergedAt
<1>3. /\ Top(p) \in Nat /\ LastTerm(new) \in Nat /\ LastTerm(log) \in Nat
      /\ L # 0 => LastTerm(new) = new[L].term
      /\ L = 0 => LastTerm(new) = 0
      /\ Len(log) # 0 => LastTerm(log) = log[Len(log)].term
  <2>1. Len(p) \in 1 .. Len(p)
    BY SMTT(30), <1>1
  <2> QED BY <2>1, LogType DEF Top
<1>4. \A j \in 1 .. Len(p) : j <= end => new[j] = p[j]
  BY SMTT(30), MergeMatches
<1>5. L # 0 /\ new[L].term > Top(p)
  BY SMTT(30), <1>3
<1> HIDE DEF end, L
<1>6. CASE Len(p) <= end
  BY SMTT(30), <1>1, <1>2, <1>4, <1>6 DEF Prefix, L
<1>7. CASE end < Len(p) /\ c < L
  <2>1. L \in c + 1 .. L
    BY SMTT(30), <1>1, <1>2, <1>7
  <2>2. L - q.prev_log_index \in 1 .. Len(q.entries)
    BY <1>2, <2>1
  <2>3. L <= end
    BY SMTT(30), <1>1, <2>2 DEF end
  <2>4. L \in 1 .. Len(p) /\ 1 <= L /\ L <= Len(p) /\ Len(p) \in 1 .. Len(p)
    BY SMTT(30), <1>1, <1>5, <1>7, <2>3
  <2>5. new[L] = p[L]
    BY <1>4, <2>3, <2>4
  <2>6. p[L].term <= Top(p) /\ p[L].term \in Nat
    BY SMTT(30), <1>1, <2>4, TermsGrow, LogType DEF Top
  <2> QED BY SMTT(30), <1>3, <1>5, <2>5, <2>6
<1>8. CASE end < Len(p) /\ ~(c < L)
  <2>1. c = L /\ c \in Nat
    BY SMTT(30), <1>1, <1>2, <1>8
  <2>2. c = Len(log)
    BY SMTT(30), <1>1, <1>2, <2>1 DEF end
  <2>3. Len(log) = L /\ \A k \in 1 .. L : new[k] = log[k]
    BY <1>2, <2>1, <2>2
  <2>4. LastTerm(log) > Top(p)
    BY SMTT(30), <1>1, <1>3, <1>5, <2>3
  <2>5. Prefix(p, log)
    BY <2>4 DEF Takeable
  <2> QED BY SMTT(30), <1>1, <2>3, <2>5 DEF Prefix, L
<1> QED BY SMTT(30), <1>1, <1>2, <1>6, <1>7, <1>8

(* A prefix of a log, cut by a crash, has p if it is past the term of p.    *)
LEMMA CutTop ==
  ASSUME NEW a \in Seq(Entry), NEW b \in Seq(Entry), NEW p \in Seq(Entry), Len(p) # 0,
         Prefix(a, b), Ordered(b), LastTerm(b) > Top(p) => Prefix(p, b), LastTerm(a) > Top(p)
  PROVE  Prefix(p, a)
<1> DEFINE L == Len(a)
<1>1. L \in Nat /\ Len(b) \in Nat /\ Len(p) \in Nat /\ Len(p) \in 1 .. Len(p)
  BY SMTT(30)
<1>2. L <= Len(b) /\ \A k \in 1 .. L : a[k] = b[k]
  BY DEF Prefix
<1>3. /\ Top(p) \in Nat /\ LastTerm(a) \in Nat /\ LastTerm(b) \in Nat
      /\ L # 0 => LastTerm(a) = a[L].term
      /\ L = 0 => LastTerm(a) = 0
      /\ Len(b) # 0 => LastTerm(b) = b[Len(b)].term
  BY <1>1, LogType DEF Top
<1> HIDE DEF L
<1>4. L # 0 /\ L \in 1 .. L /\ 1 <= L /\ Len(b) # 0 /\ b[L].term > Top(p)
  BY SMTT(30), <1>1, <1>2, <1>3
<1>5. b[L].term \in Nat /\ \A k \in 1 .. Len(b) : b[k].term \in Nat
  BY SMTT(30), <1>1, <1>2, <1>4, LogType
<1>6. b[L].term <= b[Len(b)].term
  BY SMTT(30), <1>1, <1>2, <1>4, TermsGrow
<1>7. LastTerm(b) > Top(p)
  BY SMTT(30), <1>3, <1>4, <1>5, <1>6
<1>8. Len(p) <= Len(b) /\ \A k \in 1 .. Len(p) : p[k] = b[k]
  BY <1>7 DEF Prefix
<1>9. Len(p) <= L
  <2> SUFFICES ASSUME L < Len(p) PROVE FALSE
    BY SMTT(30), <1>1
  <2>1. b[L].term <= b[Len(p)].term
    BY SMTT(30), <1>1, <1>4, <1>8, TermsGrow
  <2>2. b[Len(p)].term = Top(p)
    BY <1>1, <1>8 DEF Top
  <2> QED BY SMTT(30), <1>3, <1>4, <1>5, <2>1, <2>2
<1>10. \A k \in 1 .. Len(p) : p[k] = a[k]
  BY SMTT(30), <1>1, <1>2, <1>8, <1>9
<1> QED BY <1>9, <1>10 DEF Prefix, L

(* The types of a prefix that is not empty.                                 *)
LEMMA TopType ==
  ASSUME NEW p \in Seq(Entry), Len(p) # 0
  PROVE  /\ Len(p) \in Nat /\ 1 <= Len(p) /\ Len(p) \in 1 .. Len(p)
         /\ Top(p) \in Nat /\ LastTerm(p) = Top(p)
<1>1. Len(p) \in Nat /\ 1 <= Len(p) /\ Len(p) \in 1 .. Len(p)
  BY SMTT(30)
<1> QED BY <1>1, LogType DEF Top

(* Logs and disks are ordered.                                              *)
LEMMA LogsOrdered ==
  ASSUME Safe
  PROVE  \A x \in Server : Ordered(node[x].log) /\ Ordered(disk[x].log)
<1>1. \A x \in Server : node[x].log \in Seq(Entry) /\ disk[x].log \in Seq(Entry)
  BY LogTyped DEF Safe, LogTypes
<1> QED BY <1>1, SlotsOf DEF Safe, Tidy

(* Who holds every slot of a term t, the last one at the end, and has p if  *)
(* it is past the term of p, has p if t is not before the term of p.        *)
LEMMA OwnerHolds ==
  ASSUME NEW log \in Seq(Entry), NEW p \in Seq(Entry), NEW S, Tidy(S),
         LogSlots(log) \subseteq S, LogSlots(p) \subseteq S, Len(p) # 0,
         NEW t, LastTerm(log) = t, \A a \in S : a.entry.term = t => a \in LogSlots(log),
         Top(p) <= t, LastTerm(log) > Top(p) => Prefix(p, log)
  PROVE  Prefix(p, log)
<1>1. /\ Len(p) \in Nat /\ Len(p) \in 1 .. Len(p) /\ Top(p) \in Nat
      /\ Len(log) \in Nat /\ LastTerm(log) \in Nat
  BY TopType, LogType
<1>2. CASE LastTerm(log) > Top(p)
  BY <1>2
<1>3. CASE ~(LastTerm(log) > Top(p))
  <2>1. t = Top(p)
    BY SMTT(30), <1>1, <1>3
  <2> DEFINE s == SlotOf(p, Len(p))
  <2>2. s \in S /\ s.index = Len(p) /\ s.entry = p[Len(p)] /\ s.entry.term = t
    BY SMTT(30), <1>1, <2>1, SlotFields DEF LogSlots, Top
  <2> HIDE DEF s
  <2>3. PICK k \in 1 .. Len(log) : s = SlotOf(log, k)
    BY <2>2 DEF LogSlots
  <2>4. k = Len(p) /\ log[k].term = Top(p)
    BY SMTT(30), <2>1, <2>2, <2>3, SlotFields
  <2>5. k \in Nat /\ Len(p) <= k /\ k <= Len(log)
    BY SMTT(30), <1>1, <2>4
  <2> QED BY <2>4, <2>5, HoldsBy
<1> QED BY <1>2, <1>3

-----------------------------------------------------------------------------
(* Inputs *)

(* What a log shares with p it keeps under an input, also the persisted     *)
(* part of it: a request of the term of p or a later one fits p.            *)
LEMMA TakesAgrees ==
  ASSUME Safe, NEW i \in Server, NEW r, Takes(i, r), NEW p \in Seq(Entry), Len(p) # 0,
         \A m \in Requests : m.term >= Top(p) => Fits(m, p), Top(p) <= node[i].term,
         NEW v \in Nat, Agrees(p, node[i].log, v)
  PROVE  /\ Agrees(p, r.log, v)
         /\ v <= node[i].stable => v <= r.stable
<1> DEFINE n == node[i]
<1>1. /\ r.log \in Seq(Entry) /\ n.log \in Seq(Entry) /\ n.term \in Nat /\ Top(p) \in Nat
      /\ n.stable \in Nat /\ Len(n.log) \in Nat /\ Len(r.log) \in Nat
      /\ net \in SUBSET Message /\ \A m \in Message : m.term \in Nat
  BY LogTyped, TakesNodes, TopType, ClusterTypes DEF Safe, LogTypes
<1>2. Rests(i, n, r) \/ Grows(i, n, r) \/ Learns(i, n, r) \/ \E q \in net : Receives(i, n, r, q)
  BY DEF Takes, LogStep
<1>3. v <= Len(n.log) /\ v <= Len(p) /\ \A j \in 1 .. v : p[j] = n.log[j]
  BY DEF Agrees
<1> HIDE DEF n
<1>4. CASE Rests(i, n, r)
  BY <1>3, <1>4 DEF Rests, Agrees, n
<1>5. CASE Learns(i, n, r)
  BY <1>3, <1>5 DEF Learns, Agrees, n
<1>6. CASE Grows(i, n, r)
  <2>1. /\ Len(r.log) = Len(n.log) + 1 /\ \A k \in 1 .. Len(n.log) : r.log[k] = n.log[k]
        /\ r.stable = n.stable
    BY <1>6 DEF Grows
  <2>2. v <= Len(r.log) /\ \A j \in 1 .. v : p[j] = r.log[j]
    BY SMTT(30), <1>1, <1>3, <2>1
  <2> QED BY <1>3, <2>1, <2>2 DEF Agrees, n
<1>7. CASE \E q \in net : Receives(i, n, r, q)
  <2>1. PICK q \in net : Receives(i, n, r, q)
    BY <1>7
  <2>2. q \in Message /\ q.type = "append_req" /\ n.term <= q.term
    BY <1>1, <2>1 DEF Receives
  <2>3. PICK c \in Nat : /\ MergedAt(n.log, q, r.log, c)
                         /\ r.stable = IF c < n.stable THEN c ELSE n.stable
    BY <2>1 DEF Receives
  <2>4. Fits(q, p)
    <3>1. q \in Requests
      BY <2>1, <2>2, SlotsOf DEF Requests
    <3>2. q.term >= Top(p)
      BY SMTT(30), <1>1, <2>2 DEF n
    <3> QED BY <3>1, <3>2
  <2>5. v <= c /\ Agrees(p, r.log, v)
    BY <1>1, <2>2, <2>3, <2>4, MergeFits DEF n
  <2> QED BY <1>1, <2>3, <2>5 DEF n
<1> QED BY <1>2, <1>4, <1>5, <1>6, <1>7

(* Whoever becomes leader past the term of p has p.                         *)
NewLeaderHas(i, r, p) ==
  (r.role = "leader" /\ node[i].role # "leader" /\ r.term > Top(p)) => Prefix(p, node[i].log)

(* A log that an input moves past the term of p has p.                      *)
LEMMA TakesPast ==
  ASSUME Safe, DiskInv', NEW i \in Server, NEW r, Takes(i, r),
         NEW W, NEW D, NEW p, Keeps(W, D, p), LogSlots(p) \subseteq Slots, NewLeaderHas(i, r, p),
         LastTerm(r.log) > Top(p)
  PROVE  Prefix(p, r.log)
<1> DEFINE n == node[i]
<1>0. p \in Seq(Entry) /\ Len(p) # 0
  BY DEF Keeps
<1>1. /\ r.log \in Seq(Entry) /\ n.log \in Seq(Entry) /\ r.term \in Nat /\ Top(p) \in Nat
      /\ Len(n.log) \in Nat /\ Len(r.log) \in Nat /\ Len(p) \in Nat
      /\ LastTerm(r.log) \in Nat /\ LastTerm(n.log) \in Nat
      /\ net \in SUBSET Message /\ \A m \in Message : m.term \in Nat
  BY SMTT(30), <1>0, LogTyped, TakesNodes, TopType, ClusterTypes, LogType DEF Safe, LogTypes
<1>2. Rests(i, n, r) \/ Grows(i, n, r) \/ Learns(i, n, r) \/ \E q \in net : Receives(i, n, r, q)
  BY DEF Takes, LogStep
<1>3. LastTerm(n.log) > Top(p) => Prefix(p, n.log)
  BY DEF Keeps
<1>4. LastTerm(r.log) <= r.term
  <2>1. Aged(r)
    BY SMTT(30), TakesNodes DEF DiskInv
  <2>2. Len(r.log) # 0 /\ LastTerm(r.log) = r.log[Len(r.log)].term
    BY SMTT(30), <1>1, LogType
  <2>3. Len(r.log) \in 1 .. Len(r.log)
    BY SMTT(30), <1>1, <2>2
  <2> QED BY <2>1, <2>2, <2>3 DEF Aged
<1>5. CASE r.log = n.log
  BY <1>3, <1>5
<1>6. CASE Grows(i, n, r)
  <2>1. /\ Len(r.log) = Len(n.log) + 1 /\ \A k \in 1 .. Len(n.log) : r.log[k] = n.log[k]
        /\ r.role = "leader"
        /\ (n.role = "leader" /\ r.term = n.term) \/ n.role # "leader"
    BY <1>6 DEF Grows
  <2>2. Prefix(p, n.log)
    <3>1. CASE n.role = "leader" /\ r.term = n.term
      <4>1. LastTerm(n.log) = n.term
        BY <3>1 DEF Safe, LogInv, OwnInv
      <4>2. LastTerm(n.log) > Top(p)
        BY SMTT(30), <1>1, <1>4, <3>1, <4>1
      <4> QED BY <1>3, <4>2
    <3>2. CASE n.role # "leader"
      <4>1. r.term > Top(p)
        BY SMTT(30), <1>1, <1>4
      <4> QED BY <2>1, <3>2, <4>1 DEF NewLeaderHas
    <3> QED BY <2>1, <3>1, <3>2
  <2>3. Len(p) <= Len(n.log) /\ \A k \in 1 .. Len(p) : p[k] = n.log[k]
    BY <2>2 DEF Prefix
  <2> HIDE DEF n
  <2>4. Len(p) <= Len(r.log) /\ \A k \in 1 .. Len(p) : p[k] = r.log[k]
    BY SMTT(30), <1>1, <2>1, <2>3
  <2> QED BY <2>4 DEF Prefix
<1>7. CASE \E q \in net : Receives(i, n, r, q)
  <2>1. PICK q \in net : Receives(i, n, r, q)
    BY <1>7
  <2>2. q \in Message /\ q.type = "append_req" /\ r.term = q.term
    BY <1>1, <2>1 DEF Receives
  <2>3. PICK c \in Nat : MergedAt(n.log, q, r.log, c)
    BY <2>1 DEF Receives
  <2>4. Fits(q, p)
    <3>1. q \in Requests
      BY <2>1, <2>2, SlotsOf DEF Requests
    <3>2. q.term >= Top(p)
      BY SMTT(30), <1>1, <1>4, <2>2
    <3> QED BY <3>1, <3>2 DEF Keeps
  <2>5. LogSlots(n.log) \subseteq Slots /\ Ordered(n.log) /\ Tidy(Slots)
    BY SlotsOf, LogsOrdered DEF Safe
  <2>6. Takeable(n.log, q, r.log, c, p, Slots)
    BY <1>0, <1>3, <2>3, <2>4, <2>5 DEF Takeable
  <2>7. Ordered(p)
    BY <1>0, <2>5 DEF Tidy
  <2> QED BY <1>0, <1>1, <2>2, <2>6, <2>7, MergeTop
<1> QED BY <1>2, <1>5, <1>6, <1>7 DEF Rests, Learns

(* A leader of the term of p or a later one has p after an input.           *)
LEMMA TakesLeaderHolds ==
  ASSUME Safe, DiskInv', OwnInv', Tidy(Slots'), NEW i \in Server, NEW r, Takes(i, r),
         NEW W, NEW D, NEW p, Keeps(W, D, p), LogSlots(p) \subseteq Slots, NewLeaderHas(i, r, p),
         LogSlots(p) \subseteq Slots', r.role = "leader", r.term >= Top(p)
  PROVE  Prefix(p, r.log)
<1>1. p \in Seq(Entry) /\ Len(p) # 0
  BY DEF Keeps
<1>2. LastTerm(r.log) > Top(p) => Prefix(p, r.log)
  BY TakesPast
<1>3. node'[i] = r /\ r.log \in Seq(Entry) /\ r.term \in Nat
  BY TakesNodes
<1>4. LogSlots(r.log) \subseteq Slots'
  BY <1>3, SlotsOfNext
<1>5. LastTerm(r.log) = r.term /\ \A a \in Slots' : a.entry.term = r.term => a \in LogSlots(r.log)
  BY <1>3 DEF OwnInv
<1>6. Top(p) \in Nat
  BY <1>1, TopType
<1> DEFINE S == Slots'
<1>7. /\ Tidy(S) /\ LogSlots(r.log) \subseteq S /\ LogSlots(p) \subseteq S
      /\ \A a \in S : a.entry.term = r.term => a \in LogSlots(r.log)
  BY <1>4, <1>5
<1> HIDE DEF S
<1>8. Top(p) <= r.term
  BY <1>3, <1>6
<1> QED BY <1>1, <1>2, <1>3, <1>5, <1>7, <1>8, OwnerHolds

(* A trace of a vote after an input, for a candidate that was one of that   *)
(* term before, is an old one or a vote just granted.                       *)
LEMMA TakesVoted ==
  ASSUME Safe, NEW i \in Server, NEW r, Takes(i, r), NEW c \in Server, NEW w \in Server,
         NEW t, t = node'[c].term, c # i \/ node[i].term = r.term, Voted(w, t, c)'
  PROVE  \/ Voted(w, t, c)
         \/ w = i /\ \E m \in r.msgs \ node[i].msgs : IsGrant(m, w, t, c)
<1>1. /\ node'[i] = r /\ \A j \in Server : j # i => node'[j] = node[j]
      /\ net' \subseteq net
  BY TakesNodes DEF Takes
<1>2. (\E m \in net' \union node'[w].msgs : IsGrant(m, w, t, c)) \/ Counted(w, t, c)'
  BY DEF Voted
<1>3. CASE \E m \in net' \union node'[w].msgs : IsGrant(m, w, t, c)
  BY <1>1, <1>3 DEF Voted
<1>4. CASE Counted(w, t, c)'
  <2>1. node'[c].role # "follower" /\ node'[c].term = t /\ w \in node'[c].votes
    BY <1>4 DEF Counted
  <2>2. CASE c # i
    BY <1>1, <2>1, <2>2 DEF Voted, Counted
  <2>3. CASE c = i
    <3>1. node[i].term = r.term /\ r.role # "follower" /\ r.term \in Nat
      BY <1>1, <2>1, <2>3, TakesNodes
    <3>2. VoteStep(i, node[i], r)
      BY DEF Takes
    <3>3. node[i].role # "follower" /\ \A x \in r.votes \ node[i].votes : \E q \in net : IsGrant(q, x, r.term, i)
      BY SMTT(30), <3>1, <3>2 DEF VoteStep
    <3> QED BY <1>1, <2>1, <2>3, <3>1, <3>3 DEF Voted, Counted
  <2> QED BY <2>2, <2>3
<1> QED BY <1>2, <1>3, <1>4

(* A candidate past the term of p that one of W votes for has p: whoever    *)
(* has p grants its vote only to a log that is as up to date.               *)
LEMMA TakesCandidates ==
  ASSUME Safe, VoteReqInv, NEW i \in Server, NEW r, Takes(i, r),
         NEW W \in SUBSET Server, NEW D, NEW p, Keeps(W, D, p), LogSlots(p) \subseteq Slots,
         NEW c \in Server, NEW w \in W, NEW t, t = node'[c].term, t > Top(p),
         node'[c].role = "candidate", Voted(w, t, c)'
  PROVE  Prefix(p, node'[c].log)
<1> DEFINE n == node[i]
<1>0. p \in Seq(Entry) /\ Len(p) # 0 /\ w \in Server
  BY DEF Keeps
<1>1. /\ node'[i] = r /\ \A j \in Server : j # i => node'[j] = node[j]
      /\ net' \subseteq net /\ n.term <= r.term /\ r.term \in Nat /\ n.term \in Nat
  BY TakesNodes, ClusterTypes DEF Takes, Safe
<1>2. \A x \in Server : (node[x].role = "candidate" /\ node[x].term > Top(p) /\ Voted(w, node[x].term, x))
                           => Prefix(p, node[x].log)
  BY DEF Keeps
<1>3. ASSUME c = i PROVE /\ r.log = n.log
                         /\ (n.role = "candidate" /\ r.term = n.term) \/ n.term < r.term
  <2>1. r.role = "candidate"
    BY <1>1, <1>3
  <2>2. Rests(i, n, r) \/ Grows(i, n, r) \/ Learns(i, n, r) \/ \E q \in net : Receives(i, n, r, q)
    BY DEF Takes, LogStep
  <2>3. Rests(i, n, r)
    BY <2>1, <2>2 DEF Grows, Learns, Receives
  <2> QED BY <2>1, <2>3 DEF Rests
<1>4. CASE c = i /\ n.term < r.term
  <2>1. r.log = n.log /\ t = r.term
    BY <1>1, <1>3, <1>4
  <2>2. CASE w = i
    BY <1>1, <1>4, <2>1, <2>2 DEF Keeps
  <2>3. CASE w # i
    <3>1. r.votes = {i}
      <4>1. VoteStep(i, n, r) /\ r.role # "follower"
        BY <1>1, <1>4 DEF Takes
      <4> QED BY SMTT(30), <1>1, <1>4, <4>1 DEF VoteStep
    <3>2. \E m \in net \union node[w].msgs : IsGrant(m, w, t, i)
      <4>1. (\E m \in net' \union node'[w].msgs : IsGrant(m, w, t, i)) \/ Counted(w, t, i)'
        BY <1>4 DEF Voted
      <4>2. ~Counted(w, t, i)'
        BY <1>1, <2>3, <3>1 DEF Counted
      <4> QED BY <1>0, <1>1, <2>3, <4>1, <4>2
    <3>3. Voted(w, t, i)
      BY <3>2 DEF Voted
    <3>4. t \in Term
      BY SMTT(30), <2>1, TakesNodes
    <3>5. Reached(disk[i], t, i)
      BY <1>0, <2>3, <3>3, <3>4 DEF Safe, ElectionInv, VoteInv
    <3>6. disk[i].term \in Nat /\ (disk[i].term < n.term \/ disk[i].term = n.term)
      BY ClusterTypes DEF Safe, ElectionInv, DiskBehind, Follows
    <3>7. disk[i].term >= r.term
      BY SMTT(30), <1>1, <2>1, <3>5, <3>6 DEF Reached
    <3> QED BY SMTT(30), <1>1, <1>4, <3>6, <3>7
  <2> QED BY <2>2, <2>3
<1>5. CASE ~(c = i /\ n.term < r.term)
  <2>1. /\ node[c].role = "candidate" /\ node[c].term = t /\ node'[c].log = node[c].log
        /\ c # i \/ n.term = r.term
    BY <1>1, <1>3, <1>5
  <2>2. Voted(w, t, c) \/ (w = i /\ \E m \in r.msgs \ n.msgs : IsGrant(m, w, t, c))
    BY SMTT(30), <1>0, <2>1, TakesVoted
  <2>3. CASE Voted(w, t, c)
    BY <1>2, <2>1, <2>3
  <2>4. CASE w = i /\ \E m \in r.msgs \ n.msgs : IsGrant(m, w, t, c)
    <3>1. PICK m \in r.msgs \ n.msgs : IsGrant(m, w, t, c)
      BY <2>4
    <3>2. r.log = n.log /\ GrantsUpToDate(m, r.log)
      BY <3>1 DEF Takes, LogStep, IsGrant
    <3>3. PICK q \in net :
            /\ q.type = "vote_req" /\ q.from = m.to /\ q.term = m.term
            /\ LogIsAtLeastAsUpToDate([last_index |-> q.last_log_index,
                                       last_term  |-> q.last_log_term], Info(n.log))
      BY <3>2 DEF GrantsUpToDate
    <3>4. q.from = c /\ q.term = node[c].term /\ q \in Mail
      BY <2>1, <3>1, <3>3, SlotsOf DEF IsGrant
    <3>5. q.last_log_index = Len(node[c].log) /\ q.last_log_term = LastTerm(node[c].log)
      BY <2>1, <3>3, <3>4 DEF VoteReqInv
    <3> DEFINE a == node[c].log
               b == n.log
    <3>6. LogIsAtLeastAsUpToDate([last_index |-> Len(a), last_term |-> LastTerm(a)], Info(b))
      BY <3>3, <3>5
    <3>7. /\ a \in Seq(Entry) /\ b \in Seq(Entry) /\ LogSlots(a) \subseteq Slots
          /\ Ordered(b) /\ Tidy(Slots)
      BY LogTyped, SlotsOf, LogsOrdered DEF Safe, LogTypes
    <3>8. Prefix(p, b) /\ (LastTerm(a) > Top(p) => Prefix(p, a))
      BY <2>4 DEF Keeps
    <3> HIDE DEF a, b
    <3>9. Prefix(p, a)
      BY <1>0, <3>6, <3>7, <3>8, UpToDateHolds
    <3> QED BY <2>1, <3>9 DEF a
  <2> QED BY <2>2, <2>3, <2>4
<1> QED BY <1>4, <1>5

(* An input leaves p where it was kept.                                     *)
LEMMA KeepsTakes ==
  ASSUME Safe, Safe', VoteReqInv, NEW i \in Server, NEW r, Takes(i, r),
         NEW W \in SUBSET Server, NEW D \in SUBSET W, NEW p, Keeps(W, D, p),
         LogSlots(p) \subseteq Slots, LogSlots(p) \subseteq Slots', NewLeaderHas(i, r, p)
  PROVE  Keeps(W, D, p)'
<1> DEFINE n == node[i]
<1>1. /\ p \in Seq(Entry) /\ Len(p) # 0 /\ Len(p) \in Nat /\ Top(p) \in Nat
      /\ \A w \in W : Prefix(p, node[w].log) /\ Top(p) <= node[w].term
      /\ \A w \in D : Len(p) <= node[w].stable /\ Top(p) <= disk[w].term
      /\ \A x \in Server :
           /\ LastTerm(node[x].log) > Top(p) => Prefix(p, node[x].log)
           /\ LastTerm(disk[x].log) > Top(p) => Prefix(p, disk[x].log)
      /\ \A m \in Requests : m.term >= Top(p) => Fits(m, p)
  BY TopType DEF Keeps
<1>2. /\ node'[i] = r /\ \A j \in Server : j # i => node'[j] = node[j]
      /\ disk' = disk /\ n.term \in Nat /\ r.term \in Nat /\ n.term <= r.term
      /\ r.log \in Seq(Entry) /\ r.msgs \in SUBSET Message
  BY TakesNodes, ClusterTypes DEF Takes, Safe
<1>3. DiskInv' /\ OwnInv' /\ Tidy(Slots')
  BY DEF Safe, LogInv
<1>4. i \in W => /\ Prefix(p, r.log) /\ Top(p) <= r.term
                 /\ Len(p) <= n.stable => Len(p) <= r.stable
  <2> SUFFICES ASSUME i \in W
               PROVE  /\ Prefix(p, r.log) /\ Top(p) <= r.term
                      /\ Len(p) <= n.stable => Len(p) <= r.stable
    OBVIOUS
  <2>1. Agrees(p, n.log, Len(p)) /\ Top(p) <= n.term
    BY SMTT(30), <1>1 DEF Prefix, Agrees
  <2>2. Agrees(p, r.log, Len(p)) /\ (Len(p) <= n.stable => Len(p) <= r.stable)
    BY <1>1, <2>1, TakesAgrees
  <2> QED BY SMTT(30), <1>1, <1>2, <2>1, <2>2 DEF Prefix, Agrees
<1>5. \A w \in W : Prefix(p, node'[w].log) /\ Top(p) <= node'[w].term
  BY <1>1, <1>2, <1>4
<1>6. \A w \in D : Len(p) <= node'[w].stable /\ Top(p) <= disk'[w].term
  BY <1>1, <1>2, <1>4
<1>7. \A x \in Server :
        /\ LastTerm(node'[x].log) > Top(p) => Prefix(p, node'[x].log)
        /\ LastTerm(disk'[x].log) > Top(p) => Prefix(p, disk'[x].log)
  <2>1. LastTerm(r.log) > Top(p) => Prefix(p, r.log)
    BY <1>3, TakesPast
  <2> QED BY <1>1, <1>2, <2>1
<1>8. ASSUME NEW m \in Requests', m.term >= Top(p) PROVE Fits(m, p)
  <2>1. m \in Mail' /\ m.type = "append_req"
    BY DEF Requests
  <2>2. m \in Mail \/ m \in r.msgs \ n.msgs
    BY <2>1, TakesMail
  <2>3. CASE m \in Mail
    BY <1>1, <1>8, <2>1, <2>3 DEF Requests
  <2>4. CASE m \in r.msgs \ n.msgs
    <3>1. Says(i, r, m)
      BY <2>4 DEF Takes, LogStep
    <3>2. r.role = "leader" /\ SliceOf(m, r.log) /\ m.term = r.term /\ m \in Message
      BY <1>2, <2>1, <2>4, <3>1 DEF Says
    <3>3. Prefix(p, r.log)
      BY <1>3, <1>8, <3>2, TakesLeaderHolds
    <3>4. Ordered(r.log)
      BY <1>2, <1>3, SlotsOfNext DEF Tidy
    <3> QED BY <1>1, <1>2, <2>1, <3>2, <3>3, <3>4, SliceFits
  <2> QED BY <2>2, <2>3, <2>4
<1>9. ASSUME NEW c \in Server, NEW w \in W, node'[c].role = "candidate", node'[c].term > Top(p),
             Voted(w, node[c].term, c)'
      PROVE  Prefix(p, node'[c].log)
  <2>1. PICK t : t = node'[c].term
    OBVIOUS
  <2>2. Voted(w, t, c)'
    BY <1>9, <2>1 DEF Voted, Counted
  <2> QED BY <1>9, <2>1, <2>2, TakesCandidates
<1> QED BY <1>1, <1>5, <1>6, <1>7, <1>8, <1>9 DEF Keeps

(* Fewer servers keep p as well.                                            *)
LEMMA KeepsLess ==
  ASSUME NEW W, NEW D, NEW p, Keeps(W, D, p), NEW V \in SUBSET W, NEW E \in SUBSET D
  PROVE  Keeps(V, E, p)
BY DEF Keeps

(* Who becomes leader was a candidate of the term, with a trace of each     *)
(* vote, or needs no other vote than its own; its votes are a majority.     *)
LEMMA TakesVotes ==
  ASSUME Safe, NEW i \in Server, NEW r, Takes(i, r), r.role = "leader", node[i].role # "leader"
  PROVE  /\ r.votes \in SUBSET Server /\ HasMajority(Server, r.votes)
         /\ \/ /\ node[i].role = "candidate" /\ r.term = node[i].term
               /\ \A w \in r.votes : /\ Voted(w, r.term, i)
                                     /\ w # i => Cast(w, r.term, i)
            \/ r.votes = {i}
<1>1. VoteStep(i, node[i], r) /\ r.votes \in SUBSET Server
  BY TakesNodes, NodeTypes DEF Takes
<1>2. Cardinality(r.votes) >= Needed(Server)
  BY <1>1 DEF VoteStep
<1>3. HasMajority(Server, r.votes)
  <2>1. Server \cap r.votes = r.votes
    BY <1>1
  <2> QED BY <1>2, <2>1 DEF HasMajority
<1>4. \/ /\ node[i].role # "follower" /\ r.term = node[i].term
         /\ \A w \in r.votes \ node[i].votes : \E q \in net : IsGrant(q, w, r.term, i)
      \/ r.votes = {i}
  BY <1>1 DEF VoteStep
<1>5. CASE /\ node[i].role # "follower" /\ r.term = node[i].term
           /\ \A w \in r.votes \ node[i].votes : \E q \in net : IsGrant(q, w, r.term, i)
  <2>1. node[i].role = "candidate"
    <3>1. node[i] \in NodeType
      BY ClusterTypes DEF Safe
    <3>2. node[i].role \in {"follower", "candidate", "leader"}
      BY <3>1 DEF NodeType
    <3> QED BY <1>5, <3>2
  <2>2. ASSUME NEW w \in r.votes PROVE Voted(w, r.term, i) /\ (w # i => Cast(w, r.term, i))
    <3>1. CASE w \in node[i].votes
      BY <1>5, <3>1 DEF Voted, Cast, Counted
    <3>2. CASE w \notin node[i].votes
      BY <1>5, <3>2 DEF Voted, Cast
    <3> QED BY <3>1, <3>2
  <2> QED BY <1>1, <1>3, <1>5, <2>1, <2>2
<1> QED BY <1>1, <1>3, <1>4, <1>5

(* Every server of a majority that keeps p holds slots of p, before and     *)
(* after an input.                                                          *)
LEMMA HolderSlots ==
  ASSUME Safe, NEW W \in SUBSET Server, NEW D, NEW p, Keeps(W, D, p), NEW w \in W
  PROVE  /\ LogSlots(p) \subseteq Slots
         /\ \A i \in Server : \A r : Takes(i, r) => LogSlots(p) \subseteq Slots'
<1>1. /\ p \in Seq(Entry) /\ Len(p) # 0 /\ Len(p) \in Nat /\ w \in Server
      /\ Prefix(p, node[w].log) /\ Top(p) <= node[w].term
      /\ \A m \in Requests : m.term >= Top(p) => Fits(m, p)
      /\ node[w].log \in Seq(Entry)
  BY SMTT(30), LogTyped DEF Keeps, Safe, LogTypes
<1>2. LogSlots(p) \subseteq Slots
  BY <1>1, PrefixSlots, SlotsOf
<1>3. ASSUME NEW i \in Server, NEW r, Takes(i, r) PROVE LogSlots(p) \subseteq Slots'
  <2>1. Prefix(p, node'[w].log) /\ node'[w].log \in Seq(Entry)
    <3>1. CASE w # i
      BY <1>1, <1>3, <3>1, TakesNodes
    <3>2. CASE w = i
      <4>1. Agrees(p, node[i].log, Len(p))
        BY SMTT(30), <1>1, <3>2 DEF Prefix, Agrees
      <4>2. Agrees(p, r.log, Len(p))
        BY <1>1, <1>3, <3>2, <4>1, TakesAgrees
      <4>3. node'[i] = r /\ r.log \in Seq(Entry)
        BY <1>3, TakesNodes
      <4> QED BY <3>2, <4>2, <4>3 DEF Prefix, Agrees
    <3> QED BY <3>1, <3>2
  <2>2. LogSlots(p) \subseteq LogSlots(node'[w].log)
    BY <1>1, <2>1, PrefixSlots
  <2> QED BY <1>1, <2>2, SlotsOfNext
<1> QED BY <1>2, <1>3

(* What is committed stays committed under an input: no new leader is       *)
(* without it, for one of its voters has it.                                *)
LEMMA ComTakes ==
  ASSUME Safe, Safe', VoteReqInv, NEW i \in Server, NEW r, Takes(i, r),
         NEW Q \in SUBSET Server, NEW p, Com(Q, p)
  PROVE  Com(Q, p)'
<1>1. HasMajority(Server, Q) /\ Keeps(Q, Q, p)
  BY DEF Com
<1>2. PICK w \in Q : TRUE
  BY SMTT(30), <1>1 DEF Safe, Majorities
<1>3. LogSlots(p) \subseteq Slots /\ LogSlots(p) \subseteq Slots'
  BY <1>1, <1>2, HolderSlots
<1>4. NewLeaderHas(i, r, p)
  <2> SUFFICES ASSUME r.role = "leader", node[i].role # "leader", r.term > Top(p)
               PROVE  Prefix(p, node[i].log)
    BY DEF NewLeaderHas
  <2>1. PICK x \in Server : x \in Q /\ x \in r.votes
    BY SMTT(30), <1>1, TakesVotes DEF Safe, Majorities
  <2>2. CASE r.votes = {i}
    BY <1>1, <2>1, <2>2 DEF Keeps
  <2>3. CASE node[i].role = "candidate" /\ r.term = node[i].term /\ Voted(x, r.term, i)
    BY <1>1, <2>1, <2>3 DEF Keeps
  <2> QED BY <2>1, <2>2, <2>3, TakesVotes
<1>5. Q \in SUBSET Q
  OBVIOUS
<1>6. Keeps(Q, Q, p)'
  BY <1>1, <1>3, <1>4, <1>5, KeepsTakes
<1> QED BY <1>1, <1>6 DEF Com

(* Two committed prefixes are prefixes of one log.                          *)
LEMMA ComsAgree ==
  ASSUME Safe, NEW Q \in SUBSET Server, NEW p, Com(Q, p), NEW P \in SUBSET Server, NEW q, Com(P, q)
  PROVE  \A k \in Nat : (1 <= k /\ k <= Len(p) /\ k <= Len(q)) => p[k] = q[k]
<1>1. /\ HasMajority(Server, Q) /\ Keeps(Q, Q, p) /\ HasMajority(Server, P) /\ Keeps(P, P, q)
  BY DEF Com
<1>2. PICK w \in Server : w \in Q /\ w \in P
  BY SMTT(30), <1>1 DEF Safe, Majorities
<1>3. /\ \A k \in 1 .. Len(p) : p[k] = node[w].log[k]
      /\ \A k \in 1 .. Len(q) : q[k] = node[w].log[k]
      /\ Len(p) \in Nat /\ Len(q) \in Nat
  BY SMTT(30), <1>1, <1>2 DEF Keeps, Prefix
<1> QED BY SMTT(30), <1>3

(* What an input confirms to a leader: only the server that takes it can    *)
(* have a new answer queued, and then it holds what it confirms, in the     *)
(* leader's term.                                                           *)
LEMMA TakesAckers ==
  ASSUME Safe, Safe', NEW i \in Server, NEW r, Takes(i, r), NEW l \in Server,
         node[l].role = "leader", node'[l].role = "leader", node'[l].term = node[l].term,
         NEW k \in Nat
  PROVE  /\ Durable(l, k)' \subseteq Durable(l, k)
         /\ \A w \in Ackers(l, k)' :
              \/ w \in Ackers(l, k)
              \/ /\ w = i /\ l # i /\ r.term = node[l].term
                 /\ Agrees(r.log, node'[l].log, k)
<1>1. /\ node'[i] = r /\ \A j \in Server : j # i => node'[j] = node[j]
      /\ net' \subseteq net
  BY TakesNodes DEF Takes
<1>2. Durable(l, k)' \subseteq Durable(l, k)
  <2> SUFFICES ASSUME NEW w \in Server, k <= node'[l].match[w] PROVE w \in Durable(l, k)
    BY <1>1 DEF Durable, AckFor
  <2>1. CASE l # i
    BY <1>1, <2>1 DEF Durable
  <2>2. CASE l = i
    <3> DEFINE n == node[i]
    <3>1. Rests(i, n, r) \/ Grows(i, n, r) \/ Learns(i, n, r) \/ \E q \in net : Receives(i, n, r, q)
      BY DEF Takes, LogStep
    <3>2. n.role = "leader" /\ r.role = "leader" /\ n.term = r.term /\ k <= r.match[w]
      BY <1>1, <2>2
    <3>3. CASE r.match = n.match
      BY <2>2, <3>2, <3>3 DEF Durable
    <3>4. CASE Learns(i, n, r)
      <4>1. \/ r.match[w] = n.match[w]
            \/ \E q \in net : /\ IsAck(q) /\ q.from = w /\ q.to = i /\ q.term = r.term
                              /\ r.match[w] = q.index
        BY <3>4 DEF Learns
      <4> QED BY <2>2, <3>2, <4>1 DEF Durable, AckFor
    <3> QED BY <3>1, <3>2, <3>3, <3>4 DEF Rests, Grows, Receives
  <2> QED BY <2>1, <2>2
<1>3. ASSUME NEW w \in Ackers(l, k)'
      PROVE  \/ w \in Ackers(l, k)
             \/ w = i /\ l # i /\ r.term = node[l].term /\ Agrees(r.log, node'[l].log, k)
  <2>1. CASE w \in Durable(l, k)'
    BY <1>2, <2>1 DEF Ackers
  <2>2. CASE w \notin Durable(l, k)'
    <3>1. w \in Server /\ \E m \in node'[w].msgs : AckFor(m, l)' /\ k <= m.index
      BY <2>2 DEF Ackers
    <3>2. PICK m \in node'[w].msgs : AckFor(m, l)' /\ k <= m.index
      BY <3>1
    <3>3. AckFor(m, l)
      BY <3>2 DEF AckFor
    <3>4. CASE m \in node[w].msgs
      BY <3>1, <3>2, <3>3, <3>4 DEF Ackers
    <3>5. CASE m \notin node[w].msgs
      <4>1. w = i /\ m \in r.msgs \ node[i].msgs
        BY <1>1, <3>1, <3>2, <3>5
      <4>2. m.to # i /\ m.term = r.term
        BY <4>1 DEF Takes, LogStep, Says
      <4>3. l # i /\ r.term = node[l].term
        BY <3>3, <4>2 DEF AckFor
      <4>4. Queued(l, i, m.index)'
        BY <3>2, <4>1 DEF Safe, LogInv, AckInv
      <4>5. Agrees(r.log, node'[l].log, m.index)
        BY <1>1, <4>3, <4>4 DEF Queued
      <4>6. m.index \in Nat
        <5>1. m \in Message
          BY <1>1, <4>1, TakesNodes
        <5> QED BY <3>3, <5>1 DEF Message, AckFor, IsAck
      <4>7. Agrees(r.log, node'[l].log, k)
        BY SMTT(30), <3>2, <4>5, <4>6 DEF Agrees
      <4> QED BY <4>1, <4>3, <4>7
    <3> QED BY <3>4, <3>5
  <2> QED BY <2>1, <2>2
<1> QED BY <1>2, <1>3

(* Whom a majority has passed by stays passed by.                           *)
LEMMA TakesExcluded ==
  ASSUME Safe, Safe', NEW i \in Server, NEW r, Takes(i, r), NEW l \in Server,
         node[l].role = "leader", node'[l].role = "leader", node'[l].term = node[l].term,
         NEW k \in Nat, Excluded(l, k)
  PROVE  Excluded(l, k)'
<1>1. PICK Q \in SUBSET Server :
        HasMajority(Server, Q) /\ \A w \in Q : w \notin Ackers(l, k) /\ disk[w].term > node[l].term
  BY DEF Excluded
<1>2. ASSUME NEW w \in Q, w \in Ackers(l, k)' PROVE FALSE
  <2>1. w = i /\ r.term = node[l].term
    BY SMTT(30), <1>1, <1>2, TakesAckers
  <2>2. disk[i].term > r.term
    BY <1>1, <1>2, <2>1
  <2>3. disk[i].term \in Nat /\ node[i].term \in Nat /\ r.term \in Nat /\ node[i].term <= r.term
    BY ClusterTypes, TakesNodes DEF Safe
  <2>4. disk[i].term <= node[i].term
    BY SMTT(30), <2>3 DEF Safe, ElectionInv, DiskBehind, Follows
  <2> QED BY SMTT(30), <2>2, <2>3, <2>4
<1>3. disk' = disk
  BY DEF Takes
<1> QED BY <1>1, <1>2, <1>3 DEF Excluded

(* Whoever a leader's prefix p does not hold back elects a leader without   *)
(* it: then a majority has moved on, and p is out of the leader's reach.    *)
LEMMA TakesPassedBy ==
  ASSUME Safe, Safe', NEW i \in Server, NEW r, Takes(i, r), NEW l \in Server,
         node[l].role = "leader", node'[l].role = "leader", node'[l].term = node[l].term,
         NEW k \in Nat, NEW p, Top(p) = node[l].term,
         Keeps(Ackers(l, k), Durable(l, k), p), ~NewLeaderHas(i, r, p)
  PROVE  Excluded(l, k)'
<1>1. r.role = "leader" /\ node[i].role # "leader" /\ r.term > node[l].term /\ ~Prefix(p, node[i].log)
  BY DEF NewLeaderHas
<1>2. l # i /\ Server # {i}
  BY <1>1
<1>3. /\ r.votes \in SUBSET Server /\ HasMajority(Server, r.votes)
      /\ \/ /\ node[i].role = "candidate" /\ r.term = node[i].term
            /\ \A w \in r.votes : /\ Voted(w, r.term, i)
                                  /\ w # i => Cast(w, r.term, i)
         \/ r.votes = {i}
  BY <1>1, TakesVotes
<1>4. PICK v \in r.votes : v # i
  BY <1>2, <1>3 DEF Safe, Majorities
<1>5. /\ node[i].role = "candidate" /\ r.term = node[i].term
      /\ \A w \in r.votes : Voted(w, r.term, i) /\ (w # i => Cast(w, r.term, i))
  BY SMTT(30), <1>3, <1>4
<1>6. /\ r.term \in Term /\ r.term \in Nat /\ node[l].term \in Nat
      /\ \A w \in Server : disk[w].term \in Nat
  BY ClusterTypes, TakesNodes DEF Safe
<1>7. ASSUME NEW w \in r.votes PROVE w \notin Ackers(l, k)'
  <2>1. w \notin Ackers(l, k)
    BY <1>1, <1>5, <1>7 DEF Keeps
  <2> QED BY SMTT(30), <1>1, <1>6, <2>1, TakesAckers
<1>8. ASSUME NEW w \in r.votes PROVE disk[w].term > node[l].term
  <2>1. Reached(disk[w], r.term, i)
    <3>1. CASE w # i
      BY <1>3, <1>5, <1>6, <3>1 DEF Safe, ElectionInv, VoteInv
    <3>2. CASE w = i
      BY <1>3, <1>4, <1>5, <1>6, <3>2 DEF Safe, ElectionInv, VoteInv
    <3> QED BY <3>1, <3>2
  <2>2. disk[w].term >= r.term /\ w \in Server
    BY SMTT(30), <1>3, <1>6, <2>1 DEF Reached
  <2> QED BY SMTT(30), <1>1, <1>6, <2>2
<1>9. disk' = disk
  BY DEF Takes
<1> QED BY <1>3, <1>7, <1>8, <1>9 DEF Excluded

(* A prefix of a leader's log that ends in its term.                        *)
LEMMA OwnPrefix ==
  ASSUME NEW log \in Seq(Entry), NEW k \in 1 .. Len(log)
  PROVE  /\ SubSeq(log, 1, k) \in Seq(Entry) /\ Len(SubSeq(log, 1, k)) = k
         /\ k \in Nat /\ k # 0
         /\ Prefix(SubSeq(log, 1, k), log) /\ Top(SubSeq(log, 1, k)) = log[k].term
<1>1. k \in Nat /\ k # 0 /\ Len(log) \in Nat /\ k <= Len(log)
  BY SMTT(30)
<1>2. SubSeq(log, 1, k) \in Seq(Entry) /\ Len(SubSeq(log, 1, k)) = k
  BY SMTT(30), <1>1
<1>3. \A j \in 1 .. k : SubSeq(log, 1, k)[j] = log[j]
  BY SMTT(30), <1>1
<1>4. k \in 1 .. k
  BY SMTT(30), <1>1
<1> QED BY <1>1, <1>2, <1>3, <1>4 DEF Prefix, Top

(* A prefix of its log that a leader may yet commit stays safe under an     *)
(* input.                                                                   *)
LEMMA TakesPre ==
  ASSUME Safe, Safe', VoteReqInv, NEW i \in Server, NEW r, Takes(i, r), NEW l \in Server,
         node[l].role = "leader", node'[l].role = "leader", node'[l].term = node[l].term,
         Prefix(node[l].log, node'[l].log), NEW k \in 1 .. Len(node[l].log),
         node[l].log[k].term = node[l].term, PreInv
  PROVE  \/ Excluded(l, k)'
         \/ Keeps(Ackers(l, k), Durable(l, k), SubSeq(node[l].log, 1, k))'
<1>1. /\ node[l].log \in Seq(Entry) /\ node'[l].log \in Seq(Entry) /\ k \in Nat
      /\ Len(node[l].log) \in Nat /\ Len(node'[l].log) \in Nat
  BY SMTT(30), LogTyped, LogTypedNext DEF Safe, LogTypes
<1>2. PICK p : p = SubSeq(node[l].log, 1, k)
  OBVIOUS
<1>3. /\ p \in Seq(Entry) /\ Len(p) = k /\ k # 0 /\ Prefix(p, node[l].log)
      /\ Top(p) = node[l].term
  BY <1>1, <1>2, OwnPrefix
<1>4. Prefix(p, node'[l].log) /\ SubSeq(node'[l].log, 1, k) = p
  <2>1. k \in 1 .. Len(node'[l].log) /\ \A j \in 1 .. k : node'[l].log[j] = node[l].log[j]
    BY SMTT(30), <1>1 DEF Prefix
  <2>2. SubSeq(node'[l].log, 1, k) = p
    BY SMTT(30), <1>1, <1>2, <2>1
  <2> QED BY <1>1, <2>1, <2>2, OwnPrefix
<1>5. Excluded(l, k) \/ Keeps(Ackers(l, k), Durable(l, k), p)
  BY <1>2 DEF PreInv
<1>6. CASE Excluded(l, k)
  BY <1>1, <1>6, TakesExcluded
<1>7. CASE Keeps(Ackers(l, k), Durable(l, k), p)
  <2>1. CASE ~NewLeaderHas(i, r, p)
    BY <1>1, <1>3, <1>7, <2>1, TakesPassedBy
  <2>2. CASE NewLeaderHas(i, r, p)
    <3>1. LogSlots(p) \subseteq Slots /\ LogSlots(p) \subseteq Slots'
      BY <1>1, <1>3, <1>4, PrefixSlots, SlotsOf, SlotsOfNext
    <3>2. PICK W, D : W = Ackers(l, k) /\ D = Durable(l, k)
      OBVIOUS
    <3>3. W \in SUBSET Server /\ D \in SUBSET W
      BY <3>2 DEF Ackers, Durable
    <3>4. Keeps(W, D, p)
      BY <1>7, <3>2
    <3>5. Keeps(W, D, p)'
      BY <2>2, <3>1, <3>3, <3>4, KeepsTakes
    <3>6. /\ Durable(l, k)' \subseteq D
          /\ \A w \in Ackers(l, k)' :
               w \in W \/ (w = i /\ r.term = node[l].term /\ Agrees(r.log, node'[l].log, k))
      BY SMTT(30), <1>1, <3>2, TakesAckers
    <3>7. ASSUME NEW w \in Ackers(l, k)', w \notin W
          PROVE  /\ Prefix(p, node'[w].log) /\ Top(p) <= node'[w].term /\ w \in Server
                 /\ \A c \in Server : node'[c].term > Top(p) => ~Voted(w, node[c].term, c)'
      <4>1. w = i /\ r.term = node[l].term /\ Agrees(r.log, node'[l].log, k) /\ node'[w] = r
        BY SMTT(30), <3>6, <3>7, TakesNodes
      <4>2. Prefix(p, r.log)
        BY <1>1, <1>3, <1>4, <4>1 DEF Prefix, Agrees
      <4>3. r.term \in Nat
        BY TakesNodes
      <4>4. ASSUME NEW c \in Server, node'[c].term > r.term, Voted(w, node[c].term, c)' PROVE FALSE
        <5>1. PICK t : t = node'[c].term
          OBVIOUS
        <5>2. Voted(w, t, c)'
          BY <4>4, <5>1 DEF Voted, Counted
        <5>3. t \in Term /\ t \in Nat
          BY <5>1, LogTypedNext DEF Safe, LogTypes
        <5>4. Reached(node[w], t, c)'
          BY <4>1, <5>2, <5>3 DEF Safe, ElectionInv, VoteInv
        <5> QED BY SMTT(30), <4>1, <4>3, <4>4, <5>1, <5>3, <5>4 DEF Reached
      <4> QED BY SMTT(30), <1>3, <4>1, <4>2, <4>3, <4>4
    <3>8. Keeps(Ackers(l, k), Durable(l, k), p)'
      BY <3>5, <3>6, <3>7 DEF Keeps
    <3> QED BY <1>4, <3>8
  <2> QED BY <2>1, <2>2
<1> QED BY <1>5, <1>6, <1>7

(* Who leads at all is ahead of every slot and every request, or a majority *)
(* is past it.                                                              *)
LEMMA NothingLater ==
  ASSUME Safe, NEW i \in Server, NEW k, Ackers(i, k) = {}, ~Excluded(i, k)
  PROVE  /\ \A x \in Server : ~(LastTerm(node[x].log) > node[i].term)
         /\ \A x \in Server : ~(LastTerm(disk[x].log) > node[i].term)
         /\ \A m \in Requests : ~(m.term > node[i].term)
<1>1. /\ \A x \in Server : /\ node[x].log \in Seq(Entry) /\ disk[x].log \in Seq(Entry)
                           /\ node[x].term \in Nat /\ disk[x].term \in Nat
      /\ \A m \in Mail : m \in Message
  BY LogTyped DEF Safe, LogTypes
<1>2. ASSUME NEW log \in Seq(Entry), LogSlots(log) \subseteq Slots, LastTerm(log) # 0
      PROVE  \E x \in Server : <<LastTerm(log), x>> \in leaders
  <2>1. LastTerm(log) = log[Len(log)].term /\ Len(log) \in 1 .. Len(log)
    BY SMTT(30), <1>2, LogType
  <2>2. PICK s \in Slots : s = SlotOf(log, Len(log))
    BY <1>2, <2>1 DEF LogSlots
  <2>3. s.entry.term = LastTerm(log)
    BY SMTT(30), <2>1, <2>2, SlotFields
  <2>4. \E x \in Server : <<s.entry.term, x>> \in leaders
    BY DEF Safe, LogInv, SlotInv
  <2> QED BY <2>3, <2>4
<1>3. CASE Server # {i}
  <2>1. ASSUME NEW t, NEW x \in Server, <<t, x>> \in leaders, t > node[i].term PROVE FALSE
    <3>1. Server # {x}
      BY <1>3
    <3>2. t \in Nat
      BY <2>1, ClusterTypes DEF Safe
    <3>3. PICK Q \in SUBSET Server : Quorum(Q, t, x)
      BY <2>1, <3>1 DEF Safe, ElectionInv, LeaderInv
    <3>4. HasMajority(Server, Q) /\ \A w \in Q : Reached(disk[w], t, x)
      BY <3>3 DEF Quorum
    <3>5. \A w \in Q : disk[w].term > node[i].term
      BY SMTT(30), <1>1, <2>1, <3>2, <3>4 DEF Reached
    <3> QED BY <3>4, <3>5 DEF Excluded
  <2>2. ASSUME NEW log \in Seq(Entry), LogSlots(log) \subseteq Slots PROVE ~(LastTerm(log) > node[i].term)
    <3>1. LastTerm(log) \in Nat
      BY <2>2, LogType
    <3> SUFFICES ASSUME LastTerm(log) > node[i].term PROVE FALSE
      OBVIOUS
    <3>2. LastTerm(log) # 0
      BY SMTT(30), <1>1, <3>1
    <3>3. \E x \in Server : <<LastTerm(log), x>> \in leaders
      BY <1>2, <2>2, <3>2
    <3> QED BY <2>1, <3>3
  <2>3. ASSUME NEW m \in Requests PROVE ~(m.term > node[i].term)
    <3>1. m \in Mail /\ m.type = "append_req"
      BY DEF Requests
    <3>2. <<m.term, m.from>> \in leaders /\ m.from \in Server
      BY <1>1, <3>1, ClusterTypes DEF Safe, LogInv, MailInv
    <3> QED BY <2>1, <3>2
  <2> QED BY <1>1, <2>2, <2>3, SlotsOf
<1>4. CASE Server = {i}
  <2>1. ASSUME NEW log \in Seq(Entry), NEW t \in Nat, t <= node[i].term,
               \A j \in 1 .. Len(log) : log[j].term <= t
        PROVE  ~(LastTerm(log) > node[i].term)
    <3>1. Len(log) \in Nat /\ LastTerm(log) \in Nat
      BY <2>1, LogType
    <3>2. CASE Len(log) = 0
      <4>1. LastTerm(log) = 0
        BY <2>1, <3>2, LogType
      <4> QED BY SMTT(30), <1>1, <4>1
    <3>3. CASE Len(log) # 0
      <4>1. Len(log) \in 1 .. Len(log) /\ LastTerm(log) = log[Len(log)].term
        BY SMTT(30), <2>1, <3>1, <3>3, LogType
      <4> QED BY SMTT(30), <1>1, <2>1, <3>1, <4>1
    <3> QED BY <3>2, <3>3
  <2>2. Aged(node[i]) /\ Aged(disk[i]) /\ disk[i].term <= node[i].term
    BY SMTT(30), <1>1 DEF Safe, LogInv, DiskInv, ElectionInv, DiskBehind, Follows
  <2>3. ~(LastTerm(node[i].log) > node[i].term)
    <3>1. node[i].term <= node[i].term
      BY SMTT(30), <1>1
    <3>2. \A j \in 1 .. Len(node[i].log) : node[i].log[j].term <= node[i].term
      BY <2>2 DEF Aged
    <3> QED BY <1>1, <2>1, <3>1, <3>2
  <2>5. ~(LastTerm(disk[i].log) > node[i].term)
    <3>1. \A j \in 1 .. Len(disk[i].log) : disk[i].log[j].term <= disk[i].term
      BY <2>2 DEF Aged
    <3> QED BY <1>1, <2>1, <2>2, <3>1
  <2>4. Requests = {}
    <3>1. ASSUME NEW m \in Requests PROVE FALSE
      <4>1. m \in Mail /\ m \in Message
        BY <1>1 DEF Requests
      <4>2. m.from # m.to /\ m.from \in Server /\ m.to \in Server
        BY <4>1, ClusterTypes DEF Safe, LogInv, MailInv
      <4> QED BY <1>4, <4>2
    <3> QED BY <3>1
  <2> QED BY <1>4, <2>3, <2>4, <2>5
<1> QED BY <1>3, <1>4

(* An entry of its term that nobody confirmed to the leader is safe as it   *)
(* is, or out of its reach.                                                 *)
UnackedInv ==
  \A i \in Server : node[i].role = "leader" =>
    \A k \in 1 .. Len(node[i].log) : (node[i].log[k].term = node[i].term /\ Ackers(i, k) = {}) =>
      Excluded(i, k) \/ Keeps({}, {}, SubSeq(node[i].log, 1, k))

(* That follows from the invariant of the log.                              *)
LEMMA NobodyAcked == Safe => UnackedInv
<1> SUFFICES ASSUME Safe, NEW i \in Server, node[i].role = "leader", NEW k \in 1 .. Len(node[i].log),
                    node[i].log[k].term = node[i].term, Ackers(i, k) = {}, ~Excluded(i, k)
             PROVE  Keeps({}, {}, SubSeq(node[i].log, 1, k))
  BY DEF UnackedInv
<1> DEFINE p == SubSeq(node[i].log, 1, k)
<1>1. node[i].log \in Seq(Entry) /\ node[i].term \in Nat
  BY LogTyped DEF Safe, LogTypes
<1>2. p \in Seq(Entry) /\ Len(p) # 0 /\ Prefix(p, node[i].log) /\ Top(p) = node[i].term
  BY <1>1, OwnPrefix
<1> HIDE DEF p
<1>3. ASSUME NEW m \in Requests, m.term >= Top(p) PROVE Fits(m, p)
  <2>1. m \in Mail /\ m.type = "append_req" /\ m \in Message /\ m.term \in Nat
    BY LogTyped, ClusterTypes DEF Requests, Safe
  <2>2. m.term = node[i].term
    BY SMTT(30), <1>1, <1>2, <1>3, <2>1, NothingLater
  <2>3. SliceOf(m, node[i].log)
    BY <2>1, <2>2, RequestOfLeader
  <2> QED BY <1>1, <1>2, <2>1, <2>3, LogsOrdered, SliceFits
<1>4. Keeps({}, {}, p)
  BY <1>2, <1>3, NothingLater DEF Keeps
<1> QED BY <1>4 DEF p

(* The same after a step.                                                   *)
LEMMA NobodyAckedNext == Safe' => UnackedInv'
BY NobodyAcked, PTL

(* Nobody has confirmed more than the leader has.                           *)
LEMMA AckersInside ==
  ASSUME Safe, NEW l \in Server, node[l].role = "leader", NEW k \in Nat, k > Len(node[l].log)
  PROVE  Ackers(l, k) = {}
<1>1. /\ Len(node[l].log) \in Nat /\ node[l].stable \in Nat /\ node[l].stable <= Len(node[l].log)
      /\ node[l].match \in [Server -> Nat] /\ net \in SUBSET Message
      /\ \A w \in Server : node[w].msgs \in SUBSET Message
  BY LogTyped DEF Safe, LogTypes
<1>2. /\ node[l].match[l] <= node[l].stable
      /\ \A w \in Peers(l) : Confirmed(l, w, node[l].match[w])
      /\ \A m \in net : AckFor(m, l) => Confirmed(l, m.from, m.index)
      /\ \A w \in Server : \A m \in node[w].msgs : AckFor(m, l) => Queued(l, w, m.index)
  BY DEF Safe, LogInv, AckInv
<1>3. ASSUME NEW m \in Message, AckFor(m, l) PROVE m.index \in Nat
  BY <1>3 DEF Message, AckFor, IsAck
<1>4. ASSUME NEW w \in Server PROVE node[l].match[w] <= Len(node[l].log)
  <2>1. CASE w = l
    BY SMTT(30), <1>1, <1>2, <2>1
  <2>2. CASE w # l
    <3>1. Confirmed(l, w, node[l].match[w])
      BY <1>2, <2>2 DEF Peers
    <3> QED BY SMTT(30), <1>1, <3>1 DEF Confirmed
  <2> QED BY <2>1, <2>2
<1>5. ASSUME NEW m \in net, AckFor(m, l) PROVE m.index <= Len(node[l].log)
  <2>1. Confirmed(l, m.from, m.index) /\ m.index \in Nat
    BY <1>1, <1>2, <1>3, <1>5
  <2> QED BY SMTT(30), <1>1, <2>1 DEF Confirmed
<1>6. ASSUME NEW w \in Server, NEW m \in node[w].msgs, AckFor(m, l) PROVE m.index <= Len(node[l].log)
  BY <1>2, <1>6 DEF Queued
<1>7. ASSUME NEW w \in Ackers(l, k) PROVE FALSE
  <2>1. CASE k <= node[l].match[w] /\ w \in Server
    BY SMTT(30), <1>1, <1>4, <2>1
  <2>2. CASE \E m \in net : AckFor(m, l) /\ k <= m.index
    BY SMTT(30), <1>1, <1>3, <1>5, <2>2
  <2>3. CASE w \in Server /\ \E m \in node[w].msgs : AckFor(m, l) /\ k <= m.index
    <3>1. PICK m \in node[w].msgs : AckFor(m, l) /\ k <= m.index
      BY <2>3
    <3>2. m.index \in Nat /\ m.index <= Len(node[l].log)
      BY <1>1, <1>3, <1>6, <2>3, <3>1
    <3> QED BY SMTT(30), <1>1, <3>1, <3>2
  <2> QED BY <1>7, <2>1, <2>2, <2>3 DEF Ackers, Durable
<1> QED BY <1>7

(* Nobody has confirmed anything of its new term to a new leader.           *)
LEMMA FreshUnacked ==
  ASSUME Safe, Safe', NEW i \in Server, NEW r, Takes(i, r), r.role = "leader", Fresh(i, r.term),
         r.match = [s \in Server |-> IF s = i THEN r.stable ELSE 0],
         NEW k \in 1 .. Len(r.log), r.log[k].term = r.term
  PROVE  Ackers(i, k)' = {}
<1> DEFINE n == node[i]
<1>1. /\ node'[i] = r /\ \A j \in Server : j # i => node'[j] = node[j]
      /\ net' \subseteq net /\ Len(r.log) \in Nat /\ r.stable \in Nat
      /\ Len(n.log) \in Nat /\ n.stable \in Nat /\ n.stable <= Len(n.log)
  BY TakesNodes, LogTyped DEF Takes, Safe, LogTypes
<1>2. Rests(i, n, r) \/ Grows(i, n, r) \/ Learns(i, n, r) \/ \E q \in net : Receives(i, n, r, q)
  BY DEF Takes, LogStep
<1>3. ASSUME NEW j \in 1 .. Len(n.log) PROVE n.log[j].term # r.term
  <2>1. PICK s \in Slots : s = SlotOf(n.log, j)
    BY SlotsOf DEF LogSlots
  <2>2. s.entry = n.log[j]
    BY SMTT(30), <2>1, SlotFields
  <2> QED BY <2>2 DEF Fresh
<1>4. Grows(i, n, r)
  <2>1. r.log # n.log
    BY <1>3
  <2> QED BY <1>2, <2>1 DEF Rests, Learns, Receives
<1>5. r.stable = n.stable /\ Len(r.log) = Len(n.log) + 1 /\ \A j \in 1 .. Len(n.log) : r.log[j] = n.log[j]
  BY <1>4 DEF Grows
<1> HIDE DEF n
<1>6. k > Len(n.log)
  BY SMTT(30), <1>1, <1>3, <1>5
<1>7. \A w \in Server : ~(k <= r.match[w])
  BY SMTT(30), <1>1, <1>5, <1>6
<1>8. ASSUME NEW m \in Mail' PROVE ~AckFor(m, i)'
  <2> SUFFICES ASSUME IsAck(m), m.to = i, m.term = r.term PROVE FALSE
    BY <1>1 DEF AckFor
  <2>1. m \in Mail \/ m \in r.msgs \ node[i].msgs
    BY <1>8, TakesMail
  <2>2. CASE m \in Mail
    BY <2>2 DEF Fresh
  <2>3. CASE m \in r.msgs \ node[i].msgs
    BY <2>3 DEF Takes, LogStep, Says
  <2> QED BY <2>1, <2>2, <2>3
<1>9. net' \subseteq Mail' /\ \A w \in Server : node'[w].msgs \subseteq Mail'
  BY DEF Mail
<1> QED BY <1>1, <1>7, <1>8, <1>9 DEF Ackers, Durable

(* An input keeps the entries safe that a leader may yet commit.            *)
LEMMA TakesPreInv ==
  ASSUME Safe, Safe', VoteReqInv, PreInv, NEW i \in Server, NEW r, Takes(i, r)
  PROVE  PreInv'
<1> SUFFICES ASSUME NEW l \in Server, node'[l].role = "leader", NEW k \in 1 .. Len(node'[l].log),
                    node'[l].log[k].term = node'[l].term
             PROVE  \/ Excluded(l, k)'
                    \/ Keeps(Ackers(l, k), Durable(l, k), SubSeq(node[l].log, 1, k))'
  BY DEF PreInv
<1>1. /\ node'[i] = r /\ \A j \in Server : j # i => node'[j] = node[j]
      /\ Len(node[l].log) \in Nat /\ Len(node'[l].log) \in Nat /\ k \in Nat
  BY SMTT(30), TakesNodes, LogTyped, LogTypedNext DEF Safe, LogTypes
<1>2. ASSUME Ackers(l, k)' = {}
      PROVE  \/ Excluded(l, k)'
             \/ Keeps(Ackers(l, k), Durable(l, k), SubSeq(node[l].log, 1, k))'
  <2>1. Durable(l, k)' = {}
    BY <1>2 DEF Ackers
  <2>2. UnackedInv'
    BY NobodyAckedNext
  <2>3. Excluded(l, k)' \/ Keeps({}, {}, SubSeq(node[l].log, 1, k))'
    BY <1>2, <2>2 DEF UnackedInv
  <2> QED BY <1>2, <2>1, <2>3 DEF Keeps
<1>3. CASE /\ node[l].role = "leader" /\ node'[l].term = node[l].term
           /\ Prefix(node[l].log, node'[l].log)
  <2>1. CASE k <= Len(node[l].log)
    <3>1. k \in 1 .. Len(node[l].log) /\ node[l].log[k].term = node[l].term
      BY SMTT(30), <1>1, <1>3, <2>1 DEF Prefix
    <3> QED BY <1>3, <3>1, TakesPre
  <2>2. CASE k > Len(node[l].log)
    <3>1. Ackers(l, k) = {}
      BY <1>1, <1>3, <2>2, AckersInside
    <3>2. l = i
      BY SMTT(30), <1>1, <2>2
    <3>3. Ackers(l, k)' = {}
      BY SMTT(30), <1>1, <1>3, <3>1, <3>2, TakesAckers
    <3> QED BY <1>2, <3>3
  <2> QED BY SMTT(30), <1>1, <2>1, <2>2
<1>4. CASE /\ l = i /\ Fresh(i, r.term)
           /\ r.match = [s \in Server |-> IF s = i THEN r.stable ELSE 0]
  <2>1. Ackers(l, k)' = {}
    BY <1>1, <1>4, FreshUnacked
  <2> QED BY <1>2, <2>1
<1>5. ElectionInv'
  BY DEF Safe
<1> QED BY SMTT(30), <1>3, <1>4, <1>5, TakesLeaders

=============================================================================
