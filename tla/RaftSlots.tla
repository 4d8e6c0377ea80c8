----------------------------- MODULE RaftSlots ------------------------------
(*****************************************************************************)
(* Inputs and the invariant of the log: whatever a server receives,         *)
(* proposes or starts, slots of a term stay in order, its leader keeps all  *)
(* of them, disk and node stay together, no server claims what is not so,   *)
(* and what a server has acknowledged it still has.  The invariant then     *)
(* implies what the log promises: matching logs, durable acknowledgements,  *)
(* leaders that only append, and disks that can be restored.                *)
(*****************************************************************************)
EXTENDS RaftLog

(* Zenon proves the steps, unless they name another prover; it gets the     *)
(* time a loaded machine may need.                                          *)
USE ZenonT(30)

(* The slots of a log with a batch merged in are slots of the log or of the *)
(* batch.                                                                   *)
LEMMA MergeSlots ==
  ASSUME NEW log \in Seq(Entry), NEW q \in Message, q.type = "append_req",
         NEW new \in Seq(Entry), NEW c \in Nat, MergedAt(log, q, new, c)
  PROVE  LogSlots(new) \subseteq LogSlots(log) \union ReqSlots(q)
<1> DEFINE prev == q.prev_log_index
           es   == q.entries
<1>1. es \in Seq(Entry) /\ prev \in Nat /\ Len(es) \in Nat /\ Len(log) \in Nat /\ Len(new) \in Nat
  BY SMTT(30) DEF Message
<1>2. /\ prev <= c /\ c <= Len(log) /\ TermAt(log, prev) = q.prev_log_term
      /\ \A k \in 1 .. c : new[k] = log[k]
      /\ \A k \in c + 1 .. Len(new) : k - prev \in 1 .. Len(es) /\ new[k] = es[k - prev]
      /\ \A k \in 1 .. Len(es) : prev + k <= c => log[prev + k].term = es[k].term
  BY SMTT(30), <1>1 DEF MergedAt
<1>3. q.prev_log_term = TermAt(log, prev)
  BY <1>2
<1> SUFFICES ASSUME NEW k \in 1 .. Len(new)
             PROVE  SlotOf(new, k) \in LogSlots(log) \union ReqSlots(q)
  BY DEF LogSlots
<1> HIDE DEF es, prev
<1>4. CASE k <= c
  <2>1. k \in 1 .. Len(log) /\ new[k] = log[k]
    BY SMTT(30), <1>1, <1>2, <1>4
  <2>2. TermAt(new, k - 1) = TermAt(log, k - 1)
    <3>1. k - 1 = 0 \/ k - 1 \in 1 .. c
      BY SMTT(30), <1>1, <1>4
    <3> QED BY <1>2, <3>1 DEF TermAt
  <2> QED BY <2>1, <2>2 DEF SlotOf, LogSlots
<1>5. CASE ~(k <= c)
  <2> DEFINE j == k - prev
  <2>1. k \in c + 1 .. Len(new)
    BY SMTT(30), <1>1, <1>5
  <2>2. j \in 1 .. Len(es) /\ new[k] = es[j] /\ k = prev + j
    BY SMTT(30), <1>1, <1>2, <2>1
  <2>3. TermAt(new, k - 1) = IF j = 1 THEN q.prev_log_term ELSE es[j - 1].term
    <3>1. CASE k - 1 > c
      <4>1. k - 1 \in c + 1 .. Len(new) /\ k - 1 # 0 /\ j # 1 /\ (k - 1) - prev = j - 1
        BY SMTT(30), <1>1, <1>2, <2>1, <3>1
      <4>2. new[k - 1] = es[j - 1]
        BY <1>2, <4>1
      <4> QED BY <4>1, <4>2 DEF TermAt
    <3>2. CASE ~(k - 1 > c) /\ c = prev
      <4>1. k - 1 = prev /\ j = 1
        BY SMTT(30), <1>1, <2>1, <3>2
      <4>2. TermAt(new, prev) = TermAt(log, prev)
        <5>1. prev = 0 \/ prev \in 1 .. c
          BY SMTT(30), <1>1, <3>2
        <5> QED BY <1>2, <5>1 DEF TermAt
      <4> QED BY <1>3, <4>1, <4>2
    <3>3. CASE ~(k - 1 > c) /\ c # prev
      <4>1. k - 1 = c /\ j # 1 /\ j - 1 \in 1 .. Len(es) /\ prev + (j - 1) = c /\ c # 0 /\ c \in 1 .. c
        BY SMTT(30), <1>1, <1>2, <2>1, <2>2, <3>3
      <4>2. log[c].term = es[j - 1].term
        BY SMTT(30), <1>1, <1>2, <4>1
      <4>3. new[c] = log[c]
        BY <1>2, <4>1
      <4> QED BY <4>1, <4>2, <4>3 DEF TermAt
    <3> QED BY <3>1, <3>2, <3>3
  <2> HIDE DEF j
  <2>4. SlotOf(new, k) = ReqSlot(q, j)
    BY <2>2, <2>3 DEF SlotOf, ReqSlot, es, prev
  <2> QED BY <2>2, <2>4 DEF ReqSlots, es
<1> QED BY <1>4, <1>5

(* One more slot of a term after the others.                                *)
LEMMA AddSlot ==
  ASSUME NEW S, SlotsAgree(S), NEW s, NEW len \in Nat, s.index = len + 1,
         \A a \in S : a.entry.term = s.entry.term =>
                        a.index \in 1 .. len /\ s.prev = s.entry.term
  PROVE  SlotsAgree(S \union {s})
<1> SUFFICES ASSUME NEW a \in S \union {s}, NEW b \in S \union {s}, a.entry.term = b.entry.term
             PROVE  /\ a.index = b.index => a = b
                    /\ a.index < b.index => b.prev = b.entry.term
  BY DEF SlotsAgree
<1>1. CASE a \in S /\ b \in S
  BY <1>1 DEF SlotsAgree
<1>2. CASE a \in S /\ b = s
  <2>1. a.index \in 1 .. len /\ s.prev = s.entry.term
    BY <1>2
  <2> QED BY SMTT(30), <1>2, <2>1
<1>3. CASE a = s /\ b \in S
  <2>1. b.index \in 1 .. len
    BY <1>3
  <2> QED BY SMTT(30), <1>3, <2>1
<1>4. CASE a = s /\ b = s
  <2>1. s.index \in Nat
    BY SMTT(30)
  <2> QED BY SMTT(30), <1>4, <2>1
<1> QED BY <1>1, <1>2, <1>3, <1>4

(* Where the slots of the log of the node come from that took an input.     *)
LEMMA TakesSlots ==
  ASSUME Safe, NEW i \in Server, NEW r, Takes(i, r)
  PROVE  /\ Grows(i, node[i], r) \/ LogSlots(r.log) \subseteq Slots
         /\ Grows(i, node[i], r) =>
              LogSlots(r.log) \subseteq Slots \union {SlotOf(r.log, Len(r.log))}
         /\ Slots' \subseteq Slots \union LogSlots(r.log)
<1> DEFINE n == node[i]
<1>1. /\ n.log \in Seq(Entry) /\ Len(n.log) \in Nat /\ Mail \in SUBSET Message
      /\ r.log \in Seq(Entry) /\ Len(r.log) \in Nat /\ r.msgs \in SUBSET Message
  BY LogTyped, TakesNodes DEF Safe, LogTypes
<1>2. LogSlots(n.log) \subseteq Slots
  BY SlotsOf
<1>3. Rests(i, n, r) \/ Grows(i, n, r) \/ Learns(i, n, r) \/ \E q \in net : Receives(i, n, r, q)
  BY DEF Takes, LogStep
<1>4. Grows(i, n, r) \/ LogSlots(r.log) \subseteq Slots
  <2>1. CASE Rests(i, n, r) \/ Learns(i, n, r)
    <3>1. r.log = n.log
      BY <2>1 DEF Rests, Learns
    <3> QED BY <1>2, <3>1
  <2>2. ASSUME NEW q \in net, Receives(i, n, r, q) PROVE LogSlots(r.log) \subseteq Slots
    <3>1. q \in Mail /\ q \in Message /\ q.type = "append_req"
      BY <1>1, <2>2, SlotsOf DEF Receives
    <3>2. PICK c \in Nat : MergedAt(n.log, q, r.log, c)
      BY <2>2 DEF Receives
    <3>3. LogSlots(r.log) \subseteq LogSlots(n.log) \union ReqSlots(q)
      BY <1>1, <3>1, <3>2, MergeSlots
    <3> QED BY <1>2, <3>1, <3>3, SlotsOf
  <2> QED BY <1>3, <2>1, <2>2
<1>5. ASSUME Grows(i, n, r)
      PROVE  LogSlots(r.log) \subseteq Slots \union {SlotOf(r.log, Len(r.log))}
  <2>1. Len(r.log) = Len(n.log) + 1 /\ \A k \in 1 .. Len(n.log) : r.log[k] = n.log[k]
    BY <1>5 DEF Grows
  <2> SUFFICES ASSUME NEW k \in 1 .. Len(r.log), k # Len(r.log)
               PROVE  SlotOf(r.log, k) \in LogSlots(n.log)
    BY <1>2 DEF LogSlots
  <2>2. k \in 1 .. Len(n.log) /\ r.log[k] = n.log[k]
    BY SMTT(30), <1>1, <2>1
  <2>3. TermAt(r.log, k - 1) = TermAt(n.log, k - 1)
    <3>1. k - 1 = 0 \/ k - 1 \in 1 .. Len(n.log)
      BY SMTT(30), <1>1, <2>2
    <3> QED BY <2>1, <3>1 DEF TermAt
  <2> QED BY <2>2, <2>3 DEF SlotOf, LogSlots
<1>6. Slots' \subseteq Slots \union LogSlots(r.log)
  <2> DEFINE S == Slots \union LogSlots(r.log)
  <2>1. \A j \in Server : LogSlots(node'[j].log) \subseteq S /\ LogSlots(disk'[j].log) \subseteq S
    BY TakesNodes, SlotsOf DEF Takes
  <2>2. ASSUME NEW m \in Mail', m.type = "append_req" PROVE ReqSlots(m) \subseteq S
    <3>1. CASE m \in Mail
      BY <2>2, <3>1, SlotsOf
    <3>2. CASE m \in r.msgs \ n.msgs
      <4>1. Says(i, r, m)
        BY <3>2 DEF Takes, LogStep
      <4>2. SliceOf(m, r.log) /\ m \in Message
        BY <1>1, <2>2, <3>2, <4>1 DEF Says
      <4> QED BY <1>1, <2>2, <4>2, SliceSlots
    <3> QED BY <3>1, <3>2, TakesMail
  <2> HIDE DEF S
  <2>3. Slots' \subseteq S
    BY <2>1, <2>2, SlotsFromNext
  <2> QED BY <2>3 DEF S
<1> QED BY <1>4, <1>5, <1>6

(* The slots a leader adds follow the others of its term.                   *)
LEMMA NewSlot ==
  ASSUME Safe, ElectionInv', NEW i \in Server, NEW r, Takes(i, r), Grows(i, node[i], r),
         NEW s, s = SlotOf(r.log, Len(r.log))
  PROVE  /\ s.index = Len(node[i].log) + 1 /\ s.entry.term = r.term /\ s.prev <= r.term
         /\ r.term # 0
         /\ \A a \in Slots : a.entry.term = r.term =>
               /\ a.index \in 1 .. Len(node[i].log) /\ s.prev = r.term
               /\ node[i].role = "leader" /\ node[i].term = r.term
<1> DEFINE n == node[i]
<1>1. /\ n.log \in Seq(Entry) /\ Len(n.log) \in Nat /\ n.term \in Nat /\ n.term \in Term
      /\ r.log \in Seq(Entry) /\ Len(r.log) \in Nat /\ r.term \in Nat /\ n.term <= r.term
  BY LogTyped, TakesNodes DEF Safe, LogTypes
<1>2. /\ Len(r.log) = Len(n.log) + 1 /\ r.log[Len(n.log) + 1].term = r.term
      /\ \A k \in 1 .. Len(n.log) : r.log[k] = n.log[k]
      /\ r.role = "leader"
  BY DEF Grows
<1>3. s.index = Len(n.log) + 1 /\ s.entry.term = r.term /\ s.prev = TermAt(r.log, Len(n.log))
  BY SMTT(30), <1>1, <1>2, SlotFields
<1>4. s.prev = LastTerm(n.log)
  <2>1. CASE n.log = <<>>
    BY <1>3, <2>1 DEF LastTerm, TermAt
  <2>2. CASE n.log # <<>>
    <3>1. Len(n.log) # 0 /\ Len(n.log) \in 1 .. Len(n.log)
      BY SMTT(30), <1>1, <2>2
    <3> QED BY <1>2, <1>3, <2>2, <3>1 DEF LastTerm, TermAt
  <2> QED BY <2>1, <2>2
<1>5. s.prev <= r.term
  <2>1. CASE n.log = <<>>
    BY SMTT(30), <1>1, <1>4, <2>1 DEF LastTerm
  <2>2. CASE n.log # <<>>
    <3>1. Len(n.log) \in 1 .. Len(n.log)
      BY SMTT(30), <1>1, <2>2
    <3>2. n.log[Len(n.log)].term <= n.term /\ n.log[Len(n.log)].term \in Nat
      BY <1>1, <3>1, EntryType, ClusterTypes DEF Safe, LogInv, DiskInv, Aged
    <3>3. s.prev = n.log[Len(n.log)].term
      BY <1>4, <2>2 DEF LastTerm
    <3> HIDE DEF n
    <3> QED BY SMTT(30), <1>1, <3>2, <3>3
  <2> QED BY <2>1, <2>2
<1>6. CASE n.role = "leader" /\ n.term = r.term
  <2>1. <<n.term, i>> \in leaders
    BY <1>6 DEF Safe, ElectionInv, LeaderInv
  <2>2. r.term # 0
    BY <1>1, <1>6, <2>1 DEF Safe, LogInv, RoleInv
  <2>3. LastTerm(n.log) = n.term /\ \A a \in Slots : a.entry.term = n.term => a \in LogSlots(n.log)
    BY <1>6 DEF Safe, LogInv, OwnInv
  <2>4. \A a \in LogSlots(n.log) : a.index \in 1 .. Len(n.log)
    BY SMTT(30) DEF LogSlots, SlotOf
  <2> HIDE DEF n
  <2>5. \A a \in Slots : a.entry.term = r.term => a.index \in 1 .. Len(n.log) /\ s.prev = r.term
    BY <1>4, <1>6, <2>3, <2>4
  <2> QED BY <1>3, <1>5, <1>6, <2>2, <2>5 DEF n
<1>7. CASE ~(n.role = "leader" /\ n.term = r.term)
  <2>1. Fresh(i, r.term)
    BY <1>2, <1>7, NewLeaderIsFresh
  <2> QED BY <1>3, <1>5, <2>1 DEF Fresh
<1> QED BY <1>6, <1>7

(* An input keeps the slots in order.                                       *)
LEMMA TakesSlotInv ==
  ASSUME Safe, ElectionInv', NEW i \in Server, NEW r, Takes(i, r)
  PROVE  SlotInv'
<1>1. /\ SlotsAgree(Slots)
      /\ \A a \in Slots : /\ a.entry.term # 0 /\ a.prev <= a.entry.term
                          /\ \E x \in Server : <<a.entry.term, x>> \in leaders
  BY DEF Safe, LogInv, SlotInv
<1>2. leaders \subseteq leaders' /\ r.term \in Term
  BY TakesNodes
<1>3. CASE ~Grows(i, node[i], r)
  <2>1. Slots' \subseteq Slots
    BY <1>3, TakesSlots
  <2>2. SlotsAgree(Slots')
    BY <1>1, <2>1 DEF SlotsAgree
  <2> QED BY <1>1, <1>2, <2>1, <2>2 DEF SlotInv
<1>4. CASE Grows(i, node[i], r)
  <2> DEFINE s == SlotOf(r.log, Len(r.log))
             len == Len(node[i].log)
  <2>1. Slots' \subseteq Slots \union {s}
    BY <1>4, TakesSlots
  <2>2. /\ s.index = len + 1 /\ s.entry.term = r.term /\ s.prev <= r.term
        /\ r.term # 0
        /\ \A a \in Slots : a.entry.term = r.term => a.index \in 1 .. len /\ s.prev = r.term
    BY SMTT(30), <1>4, NewSlot
  <2>3. len \in Nat
    BY LogTyped DEF Safe, LogTypes
  <2>4. <<r.term, i>> \in leaders'
    BY <1>2, <1>4, TakesNodes DEF Grows
  <2> HIDE DEF s, len
  <2>5. SlotsAgree(Slots \union {s})
    BY <1>1, <2>2, <2>3, AddSlot
  <2>6. SlotsAgree(Slots')
    BY <2>1, <2>5 DEF SlotsAgree
  <2> QED BY <1>1, <1>2, <2>1, <2>2, <2>4, <2>6 DEF SlotInv
<1> QED BY <1>3, <1>4

(* An input leaves every leader with the slots of its term.                 *)
LEMMA TakesOwnInv ==
  ASSUME Safe, ElectionInv', NEW i \in Server, NEW r, Takes(i, r)
  PROVE  OwnInv'
<1> DEFINE n == node[i]
           s == SlotOf(r.log, Len(r.log))
<1>1. /\ node'[i] = r /\ \A j \in Server : j # i => node'[j] = node[j]
      /\ leaders \subseteq leaders' /\ r.term \in Term
      /\ r.log \in Seq(Entry) /\ Len(r.log) \in Nat
      /\ r.role = "leader" => <<r.term, i>> \in leaders'
  BY TakesNodes
<1>2. n.log \in Seq(Entry) /\ Len(n.log) \in Nat
  BY LogTyped DEF Safe, LogTypes
<1>3. \A a \in Slots' : a \in Slots \/ (Grows(i, n, r) /\ a = s)
  BY TakesSlots
<1>4. \A j \in Server : node[j].role = "leader" =>
         /\ LastTerm(node[j].log) = node[j].term
         /\ \A a \in Slots : a.entry.term = node[j].term => a \in LogSlots(node[j].log)
         /\ <<node[j].term, j>> \in leaders
  BY DEF Safe, LogInv, OwnInv, ElectionInv, LeaderInv
<1>5. ASSUME NEW j \in Server, j # i, node'[j].role = "leader"
      PROVE  /\ LastTerm(node'[j].log) = node'[j].term
             /\ \A a \in Slots' : a.entry.term = node'[j].term => a \in LogSlots(node'[j].log)
  <2>1. node'[j] = node[j]
    BY <1>1, <1>5
  <2>2. ASSUME Grows(i, n, r), s.entry.term = node[j].term PROVE FALSE
    <3>1. s.entry.term = r.term /\ r.role = "leader"
      BY SMTT(30), <2>2, SlotFields, <1>1, <1>2 DEF Grows
    <3>2. <<r.term, j>> \in leaders' /\ <<r.term, i>> \in leaders'
      BY <1>1, <1>4, <1>5, <2>1, <2>2, <3>1
    <3> QED BY <1>5, <3>2, OneLeaderNext
  <2> HIDE DEF s, n
  <2> QED BY <1>3, <1>4, <1>5, <2>1, <2>2
<1>6. ASSUME r.role = "leader"
      PROVE  /\ LastTerm(r.log) = r.term
             /\ \A a \in Slots' : a.entry.term = r.term => a \in LogSlots(r.log)
  <2>1. CASE ~Grows(i, n, r)
    <3>1. Rests(i, n, r) \/ Learns(i, n, r) \/ \E q \in net : Receives(i, n, r, q)
      BY <2>1 DEF Takes, LogStep
    <3>2. r.log = n.log /\ n.role = "leader" /\ r.term = n.term
      BY <1>6, <3>1 DEF Rests, Learns, Receives
    <3> HIDE DEF n
    <3> QED BY <1>3, <1>4, <2>1, <3>2 DEF n
  <2>2. CASE Grows(i, n, r)
    <3>1. Len(r.log) = Len(n.log) + 1 /\ r.log[Len(n.log) + 1].term = r.term
      BY <2>2 DEF Grows
    <3>2. LastTerm(r.log) = r.term
      <4>1. r.log # <<>>
        BY SMTT(30), <1>1, <1>2, <3>1
      <4> QED BY <3>1, <4>1 DEF LastTerm
    <3>3. s \in LogSlots(r.log)
      <4>1. Len(r.log) \in 1 .. Len(r.log)
        BY SMTT(30), <1>1, <1>2, <3>1
      <4> QED BY <4>1 DEF LogSlots
    <3>4. ASSUME NEW a \in Slots, a.entry.term = r.term PROVE a \in LogSlots(r.log)
      <4>1. n.role = "leader" /\ n.term = r.term
        BY SMTT(30), <2>2, <3>4, NewSlot
      <4>2. a \in LogSlots(n.log)
        BY <1>4, <3>4, <4>1
      <4>3. Prefix(n.log, r.log)
        BY SMTT(30), <1>1, <1>2, <2>2 DEF Prefix, Grows
      <4> QED BY <1>1, <1>2, <4>2, <4>3, PrefixSlots
    <3> QED BY <1>3, <3>2, <3>3, <3>4
  <2> QED BY <2>1, <2>2
<1> QED BY <1>1, <1>5, <1>6 DEF OwnInv

(* An input keeps disk and node together: what it appends is not persisted  *)
(* yet, what it cuts is remembered.                                         *)
LEMMA TakesDiskInv ==
  ASSUME Safe, NEW i \in Server, NEW r, Takes(i, r)
  PROVE  DiskInv'
<1> DEFINE n == node[i]
           d == disk[i]
<1>1. /\ node'[i] = r /\ \A j \in Server : j # i => node'[j] = node[j]
      /\ r.log \in Seq(Entry) /\ Len(r.log) \in Nat /\ r.term \in Nat /\ n.term <= r.term
  BY TakesNodes
<1>2. /\ n.log \in Seq(Entry) /\ Len(n.log) \in Nat /\ d \in DiskType /\ n.term \in Nat
      /\ n.stable \in Nat /\ n.stable <= Len(n.log) /\ net \in SUBSET Message
  BY LogTyped DEF Safe, LogTypes
<1>3. disk' = disk
  BY DEF Takes
<1>4. Mirrors(d, n) /\ Aged(n)
  BY DEF Safe, LogInv, DiskInv
<1>5. Rests(i, n, r) \/ Grows(i, n, r) \/ Learns(i, n, r) \/ \E q \in net : Receives(i, n, r, q)
  BY DEF Takes, LogStep
<1>6. Mirrors(d, r)
  <2>1. CASE Rests(i, n, r) \/ Learns(i, n, r)
    BY SMTT(30), <1>4, <2>1 DEF Rests, Learns, Mirrors
  <2>2. CASE Grows(i, n, r)
    <3>1. \A k \in 1 .. n.stable : r.log[k] = n.log[k]
      BY SMTT(30), <1>2, <2>2 DEF Grows
    <3>2. r.stable = n.stable /\ r.truncated = n.truncated
      BY <2>2 DEF Grows
    <3> HIDE DEF n, d
    <3> QED BY <1>4, <3>1, <3>2 DEF Mirrors
  <2>3. CASE \E q \in net : Receives(i, n, r, q)
    BY <1>2, <1>4, <2>3 DEF Receives
  <2> QED BY <1>5, <2>1, <2>2, <2>3
<1>7. Aged(r)
  <2> SUFFICES ASSUME NEW k \in 1 .. Len(r.log) PROVE r.log[k].term <= r.term
    BY DEF Aged
  <2>1. CASE k \in 1 .. Len(n.log) /\ r.log[k] = n.log[k]
    <3>1. n.log[k].term \in Nat /\ n.log[k].term <= n.term
      BY <1>2, <1>4, <2>1, EntryType, ClusterTypes DEF Safe, Aged
    <3> HIDE DEF n
    <3> QED BY SMTT(30), <1>1, <1>2, <2>1, <3>1
  <2>2. CASE Rests(i, n, r) \/ Learns(i, n, r)
    BY <2>1, <2>2 DEF Rests, Learns
  <2>3. CASE Grows(i, n, r)
    <3>1. k = Len(n.log) + 1 \/ k \in 1 .. Len(n.log)
      BY SMTT(30), <1>1, <1>2, <2>3 DEF Grows
    <3>2. \A j \in 1 .. Len(n.log) : r.log[j] = n.log[j]
      BY <2>3 DEF Grows
    <3>3. r.log[Len(n.log) + 1].term = r.term
      BY <2>3 DEF Grows
    <3> HIDE DEF n
    <3> QED BY SMTT(30), <1>1, <2>1, <3>1, <3>2, <3>3
  <2>4. ASSUME NEW q \in net, Receives(i, n, r, q) PROVE r.log[k].term <= r.term
    <3>1. PICK c \in Nat : MergedAt(n.log, q, r.log, c)
      BY <2>4 DEF Receives
    <3>2. q.type = "append_req" /\ r.term = q.term
      BY <2>4 DEF Receives
    <3>3. CASE k <= c
      <4>1. k \in 1 .. Len(n.log) /\ r.log[k] = n.log[k]
        BY SMTT(30), <1>1, <1>2, <3>1, <3>3 DEF MergedAt
      <4> QED BY <2>1, <4>1
    <3>4. CASE ~(k <= c)
      <4>1. k \in c + 1 .. Len(r.log)
        BY SMTT(30), <1>1, <3>4
      <4>2. k - q.prev_log_index \in 1 .. Len(q.entries) /\ r.log[k] = q.entries[k - q.prev_log_index]
        BY <3>1, <4>1 DEF MergedAt
      <4>3. Decodes(q)
        BY SlotsOf DEF Safe, LogInv, MailInv
      <4> QED BY <3>2, <4>2, <4>3 DEF Decodes
    <3> QED BY <3>3, <3>4
  <2> QED BY <1>5, <2>2, <2>3, <2>4
<1> HIDE DEF n, d
<1> QED BY <1>1, <1>3, <1>6, <1>7 DEF DiskInv, Safe, LogInv, d

(* An input leaves candidates and recorded leaders what they were.          *)
LEMMA TakesRoleInv ==
  ASSUME Safe, ElectionInv', NEW i \in Server, NEW r, Takes(i, r)
  PROVE  RoleInv'
<1> DEFINE n == node[i]
<1>1. /\ node'[i] = r /\ \A j \in Server : j # i => node'[j] = node[j]
      /\ \A j \in Server, t \in Term :
           <<t, j>> \in leaders' <=>
             (<<t, j>> \in leaders \/ (j = i /\ t = r.term /\ r.role = "leader"))
      /\ r.term \in Term /\ r.term \in Nat
  BY TakesNodes
<1>2. \A j \in Server : node[j].term \in Term /\ node[j].term \in Nat /\ disk[j].term \in Nat
  BY LogTyped DEF Safe, LogTypes
<1>3. disk' = disk
  BY DEF Takes
<1>4. /\ \A j \in Server : node[j].role = "candidate" =>
           node[j].term # 0 /\ Server # {j} /\ <<node[j].term, j>> \notin leaders
      /\ \A j \in Server, t \in Term : <<t, j>> \in leaders =>
           t # 0 /\ (Server = {j} \/ t <= disk[j].term)
  BY DEF Safe, LogInv, RoleInv
<1>5. ASSUME NEW j \in Server, node'[j].role = "candidate"
      PROVE  node'[j].term # 0 /\ Server # {j} /\ <<node'[j].term, j>> \notin leaders'
  <2>1. CASE j # i
    BY <1>1, <1>2, <1>4, <1>5, <2>1
  <2>2. CASE j = i
    <3>1. r.role = "candidate"
      BY <1>1, <1>5, <2>2
    <3>2. Rests(i, n, r) \/ Grows(i, n, r) \/ Learns(i, n, r) \/ \E q \in net : Receives(i, n, r, q)
      BY DEF Takes, LogStep
    <3>3. (n.role = "candidate" /\ r.term = n.term) \/ (n.term < r.term /\ Server # {i})
      BY <3>1, <3>2 DEF Rests, Grows, Learns, Receives
    <3>4. CASE n.role = "candidate" /\ r.term = n.term
      BY <1>1, <1>4, <2>2, <3>1, <3>4
    <3>5. CASE n.term < r.term /\ Server # {i}
      <4>1. Follows(disk[i], n)
        BY DEF Safe, ElectionInv, DiskBehind
      <4>2. disk[i].term <= n.term
        BY SMTT(30), <1>2, <4>1 DEF Follows
      <4>3. ~(r.term <= disk[i].term) /\ r.term # 0
        BY SMTT(30), <1>1, <1>2, <3>5, <4>2
      <4> QED BY <1>1, <1>4, <2>2, <3>1, <3>5, <4>3
    <3> QED BY <3>3, <3>4, <3>5
  <2> QED BY <2>1, <2>2
<1>6. ASSUME NEW j \in Server, NEW t \in Term, <<t, j>> \in leaders'
      PROVE  t # 0 /\ (Server = {j} \/ t <= disk'[j].term)
  <2>1. CASE <<t, j>> \in leaders
    BY <1>3, <1>4, <2>1
  <2>2. CASE <<t, j>> \notin leaders
    <3>1. j = i /\ t = r.term /\ r.role = "leader"
      BY <1>1, <1>6, <2>2
    <3>2. ~(n.role = "leader" /\ n.term = r.term)
      BY <2>2, <3>1 DEF Safe, ElectionInv, LeaderInv
    <3>3. Fresh(i, r.term)
      BY <3>1, <3>2, NewLeaderIsFresh
    <3> QED BY <1>3, <3>1, <3>3 DEF Fresh
  <2> QED BY <2>1, <2>2
<1> QED BY <1>5, <1>6 DEF RoleInv

(* After an input a node still claims nothing that is not so.               *)
LEMMA TakesClaimInv ==
  ASSUME Safe, NEW i \in Server, NEW r, Takes(i, r)
  PROVE  ClaimInv'
<1> DEFINE n == node[i]
<1>1. /\ node'[i] = r /\ \A j \in Server : j # i => node'[j] = node[j]
      /\ leaders \subseteq leaders' /\ r.term \in Term
      /\ r.role = "leader" => <<r.term, i>> \in leaders'
  BY TakesNodes
<1>2. \A j \in Server :
        /\ node[j].leader # None => <<node[j].term, node[j].leader>> \in leaders
        /\ node[j].bcast_pending => node[j].role = "leader"
        /\ node[j].malformed_dropped = 0
  BY DEF Safe, LogInv, ClaimInv
<1>3. r.leader = None \/ (r.leader = n.leader /\ r.term = n.term)
      \/ (r.leader = i /\ r.role = "leader")
      \/ \E q \in net : q.type = "append_req" /\ q.from = r.leader /\ q.term = r.term
  BY DEF Takes, LogStep
<1>4. /\ r.bcast_pending => r.role = "leader" \/ (n.bcast_pending /\ n.role # "leader")
      /\ r.malformed_dropped = n.malformed_dropped
  BY DEF Takes, LogStep
<1>5. ASSUME r.leader # None PROVE <<r.term, r.leader>> \in leaders'
  <2>1. CASE \E q \in net : q.type = "append_req" /\ q.from = r.leader /\ q.term = r.term
    <3>1. <<r.term, r.leader>> \in leaders
      BY <2>1, SlotsOf DEF Safe, LogInv, MailInv
    <3> QED BY <1>1, <3>1
  <2> QED BY <1>1, <1>2, <1>3, <1>5, <2>1
<1>6. (r.bcast_pending => r.role = "leader") /\ r.malformed_dropped = 0
  BY <1>2, <1>4
<1> HIDE DEF n
<1> QED BY <1>1, <1>2, <1>5, <1>6 DEF ClaimInv

(* The same of a node after a step.                                         *)
LEMMA SaysDecodesNext ==
  (TypeInv' /\ ElectionInv' /\ DiskInv' /\ RoleInv' /\ SlotInv') =>
     \A i \in Server : \A m \in Message : Says(i, node'[i], m) => Decodes(m)
<1>1. (TypeInv' /\ ElectionInv' /\ DiskInv' /\ RoleInv' /\ SlotInv') =>
        (\A i \in Server : \A m \in Message : Says(i, node[i], m) => Decodes(m))'
  BY SaysDecodes, PTL
<1> QED BY <1>1

(* A slice of a log is a slice of what the log grows to.                    *)
LEMMA SliceGrows ==
  ASSUME NEW m \in Message, m.type = "append_req", NEW a \in Seq(Entry), NEW b \in Seq(Entry),
         SliceOf(m, a), Prefix(a, b)
  PROVE  SliceOf(m, b)
<1> DEFINE p == m.prev_log_index
<1>1. p \in Nat /\ Len(m.entries) \in Nat /\ Len(a) \in Nat /\ Len(b) \in Nat
  BY SMTT(30) DEF Message
<1>2. /\ p + Len(m.entries) <= Len(a) /\ m.prev_log_term = TermAt(a, p)
      /\ \A k \in 1 .. Len(m.entries) : m.entries[k] = a[p + k]
  BY DEF SliceOf
<1>3. Len(a) <= Len(b) /\ \A k \in 1 .. Len(a) : a[k] = b[k]
  BY DEF Prefix
<1> HIDE DEF p
<1>4. p + Len(m.entries) <= Len(b)
  BY SMTT(30), <1>1, <1>2, <1>3
<1>5. TermAt(b, p) = TermAt(a, p)
  <2>1. p = 0 \/ p \in 1 .. Len(a)
    BY SMTT(30), <1>1, <1>2
  <2> QED BY <1>3, <2>1 DEF TermAt
<1>6. \A k \in 1 .. Len(m.entries) : p + k \in 1 .. Len(a)
  BY SMTT(30), <1>1, <1>2
<1>7. \A k \in 1 .. Len(m.entries) : m.entries[k] = b[p + k]
  BY <1>2, <1>3, <1>6
<1> QED BY <1>2, <1>4, <1>5, <1>7 DEF SliceOf, p

(* An input sends only what passes the decoder, as leader only slices of    *)
(* its log, and acknowledges only to leaders.                               *)
LEMMA TakesMailInv ==
  ASSUME Safe, TypeInv', ElectionInv', DiskInv', RoleInv', SlotInv',
         NEW i \in Server, NEW r, Takes(i, r)
  PROVE  MailInv'
<1> DEFINE n == node[i]
<1>1. /\ node'[i] = r /\ \A j \in Server : j # i => node'[j] = node[j]
      /\ leaders \subseteq leaders' /\ r.term \in Term
      /\ r.role = "leader" => <<r.term, i>> \in leaders'
      /\ r.log \in Seq(Entry) /\ r.msgs \in SUBSET Message
  BY TakesNodes
<1>2. n.log \in Seq(Entry) /\ Mail \in SUBSET Message /\ net \in SUBSET Message
  BY LogTyped DEF Safe, LogTypes
<1> SUFFICES ASSUME NEW m \in Mail'
             PROVE  /\ Decodes(m) /\ m.from # m.to
                    /\ m.type = "append_req" =>
                         /\ <<m.term, m.from>> \in leaders'
                         /\ (node'[m.from].role = "leader" /\ node'[m.from].term = m.term)
                              => SliceOf(m, node'[m.from].log)
                    /\ IsAck(m) => <<m.term, m.to>> \in leaders'
  BY DEF MailInv
<1>3. CASE m \in Mail
  <2>1. /\ Decodes(m) /\ m.from # m.to /\ m \in Message
        /\ m.type = "append_req" =>
             /\ <<m.term, m.from>> \in leaders
             /\ (node[m.from].role = "leader" /\ node[m.from].term = m.term)
                   => SliceOf(m, node[m.from].log)
        /\ IsAck(m) => <<m.term, m.to>> \in leaders
    BY <1>2, <1>3 DEF Safe, LogInv, MailInv
  <2>2. m.from \in Server
    BY <2>1, ClusterTypes DEF Safe
  <2>3. ASSUME m.type = "append_req", node'[m.from].role = "leader", node'[m.from].term = m.term
        PROVE  SliceOf(m, node'[m.from].log)
    <3>1. CASE m.from # i
      BY <1>1, <2>1, <2>2, <2>3, <3>1
    <3>2. CASE m.from = i
      <4>1. r.role = "leader" /\ r.term = m.term
        BY <1>1, <2>3, <3>2
      <4>2. n.role = "leader" /\ n.term = r.term
        <5> SUFFICES ASSUME ~(n.role = "leader" /\ n.term = r.term) PROVE FALSE
          OBVIOUS
        <5>1. Fresh(i, r.term)
          BY <4>1, NewLeaderIsFresh
        <5> QED BY <1>3, <2>3, <3>2, <4>1, <5>1 DEF Fresh
      <4>3. SliceOf(m, n.log) /\ Prefix(n.log, r.log)
        BY <2>1, <2>3, <3>2, <4>1, <4>2, LeaderKeeps
      <4>4. SliceOf(m, r.log)
        BY <1>1, <1>2, <2>1, <2>3, <4>3, SliceGrows
      <4> QED BY <1>1, <3>2, <4>4
    <3> QED BY <3>1, <3>2
  <2> QED BY <1>1, <2>1, <2>3
<1>4. CASE m \in r.msgs \ n.msgs
  <2>1. /\ Says(i, r, m) /\ m \in Message
        /\ IsAck(m) => \E q \in net : Receives(i, n, r, q) /\ m.to = q.from
    <3>1. Says(i, r, m)
      BY <1>4 DEF Takes, LogStep
    <3>2. IsAck(m) => \E q \in net : Receives(i, n, r, q) /\ m.to = q.from
      BY <1>4 DEF Takes, LogStep
    <3> QED BY <1>1, <1>4, <3>1, <3>2
  <2>2. Decodes(m)
    BY <1>1, <2>1, SaysDecodesNext
  <2>3. m.from = i /\ m.to # i /\ m.term = r.term
    BY <2>1 DEF Says
  <2>4. m.type = "append_req" => r.role = "leader" /\ SliceOf(m, r.log)
    BY <2>1 DEF Says
  <2>5. IsAck(m) => <<m.term, m.to>> \in leaders
    <3> SUFFICES ASSUME IsAck(m) PROVE <<m.term, m.to>> \in leaders
      OBVIOUS
    <3>1. PICK q \in net : Receives(i, n, r, q) /\ m.to = q.from
      BY <2>1
    <3>2. q.type = "append_req" /\ r.term = q.term
      BY <3>1 DEF Receives
    <3>3. <<q.term, q.from>> \in leaders
      BY <3>2, SlotsOf DEF Safe, LogInv, MailInv
    <3> QED BY <2>3, <3>1, <3>2, <3>3
  <2> QED BY <1>1, <2>2, <2>3, <2>4, <2>5
<1> QED BY <1>3, <1>4, TakesMail

(* Logs that agree go on agreeing when one of them grows.                   *)
LEMMA AgreesGrows ==
  ASSUME NEW a, NEW b \in Seq(Entry), NEW c \in Seq(Entry), NEW v \in Nat,
         Agrees(a, b, v), Prefix(b, c)
  PROVE  Agrees(a, c, v)
<1>1. Len(b) \in Nat /\ Len(c) \in Nat
  BY SMTT(30)
<1>2. Len(b) <= Len(c) /\ \A k \in 1 .. Len(b) : b[k] = c[k]
  BY DEF Prefix
<1>3. v <= Len(a) /\ v <= Len(b) /\ \A k \in 1 .. v : a[k] = b[k]
  BY DEF Agrees
<1>4. v <= Len(c) /\ \A k \in 1 .. v : k \in 1 .. Len(b)
  BY SMTT(30), <1>1, <1>2, <1>3
<1>5. \A k \in 1 .. v : a[k] = c[k]
  BY <1>2, <1>3, <1>4
<1> QED BY <1>3, <1>4, <1>5 DEF Agrees

(* A batch from the leader leaves what a follower shares with the leader:   *)
(* there is no conflict there.                                              *)
LEMMA MergeKeeps ==
  ASSUME NEW log \in Seq(Entry), NEW ll \in Seq(Entry), NEW q \in Message, q.type = "append_req",
         NEW new \in Seq(Entry), NEW c \in Nat, MergedAt(log, q, new, c), SliceOf(q, ll),
         NEW v \in Nat, Agrees(log, ll, v)
  PROVE  v <= c /\ Agrees(new, ll, v)
<1> DEFINE p == q.prev_log_index
<1>1. p \in Nat /\ Len(q.entries) \in Nat /\ Len(log) \in Nat /\ Len(ll) \in Nat /\ Len(new) \in Nat
  BY SMTT(30) DEF Message
<1>2. v <= Len(log) /\ v <= Len(ll) /\ \A k \in 1 .. v : log[k] = ll[k]
  BY DEF Agrees
<1>3. /\ p <= c /\ c <= Len(log) /\ c <= Len(new)
      /\ \A k \in 1 .. c : new[k] = log[k]
      /\ c < Len(log) => /\ c + 1 - p \in 1 .. Len(q.entries)
                         /\ log[c + 1].term # q.entries[c + 1 - p].term
  BY SMTT(30), <1>1 DEF MergedAt
<1>4. \A k \in 1 .. Len(q.entries) : q.entries[k] = ll[p + k]
  BY DEF SliceOf
<1> HIDE DEF p
<1>5. v <= c
  <2> SUFFICES ASSUME ~(v <= c) PROVE FALSE
    OBVIOUS
  <2>1. c < Len(log) /\ c + 1 \in 1 .. v /\ p + (c + 1 - p) = c + 1
    BY SMTT(30), <1>1, <1>2
  <2>2. c + 1 - p \in 1 .. Len(q.entries) /\ log[c + 1].term # q.entries[c + 1 - p].term
    BY <1>3, <2>1
  <2>3. q.entries[c + 1 - p] = ll[p + (c + 1 - p)]
    BY <1>4, <2>2
  <2>4. q.entries[c + 1 - p] = log[c + 1]
    BY <1>2, <2>1, <2>3
  <2> QED BY <2>2, <2>4
<1>6. v <= Len(new) /\ \A k \in 1 .. v : k \in 1 .. c
  BY SMTT(30), <1>1, <1>3, <1>5
<1> QED BY <1>2, <1>3, <1>5, <1>6 DEF Agrees

(* A batch from the leader leaves the follower with the leader's term at    *)
(* the end of the batch.                                                    *)
LEMMA MergedTerm ==
  ASSUME NEW log \in Seq(Entry), NEW ll \in Seq(Entry), NEW q \in Message, q.type = "append_req",
         NEW new \in Seq(Entry), NEW c \in Nat, MergedAt(log, q, new, c), SliceOf(q, ll),
         NEW k \in Nat, k = q.prev_log_index + Len(q.entries)
  PROVE  k <= Len(new) /\ k <= Len(ll) /\ TermAt(new, k) = TermAt(ll, k)
<1> DEFINE p == q.prev_log_index
           e == Len(q.entries)
<1>1. p \in Nat /\ e \in Nat /\ Len(log) \in Nat /\ Len(ll) \in Nat /\ Len(new) \in Nat /\ k = p + e
  BY SMTT(30) DEF Message
<1>2. /\ p <= c /\ c <= Len(log) /\ k <= Len(new) /\ TermAt(log, p) = q.prev_log_term
      /\ \A j \in 1 .. c : new[j] = log[j]
      /\ \A j \in c + 1 .. Len(new) : j - p \in 1 .. e /\ new[j] = q.entries[j - p]
      /\ \A j \in 1 .. e : p + j <= c => log[p + j].term = q.entries[j].term
  BY SMTT(30), <1>1 DEF MergedAt
<1>3. /\ k <= Len(ll) /\ q.prev_log_term = TermAt(ll, p)
      /\ \A j \in 1 .. e : q.entries[j] = ll[p + j]
  BY DEF SliceOf
<1> HIDE DEF p, e
<1>4. CASE e = 0
  <2>1. k = p /\ (k = 0 \/ k \in 1 .. c)
    BY SMTT(30), <1>1, <1>2, <1>4
  <2>2. TermAt(new, k) = TermAt(log, k)
    BY <1>2, <2>1 DEF TermAt
  <2> QED BY <1>2, <1>3, <2>1, <2>2
<1>5. CASE e # 0 /\ k <= c
  <2>1. e \in 1 .. e /\ k \in 1 .. c /\ k # 0
    BY SMTT(30), <1>1, <1>5
  <2>2. log[k].term = q.entries[e].term /\ q.entries[e] = ll[k] /\ new[k] = log[k]
    BY <1>1, <1>2, <1>3, <1>5, <2>1
  <2> QED BY <1>2, <1>3, <2>1, <2>2 DEF TermAt
<1>6. CASE e # 0 /\ ~(k <= c)
  <2>1. e \in 1 .. e /\ k \in c + 1 .. Len(new) /\ k # 0 /\ k - p = e
    BY SMTT(30), <1>1, <1>2, <1>6
  <2>2. new[k] = q.entries[e] /\ q.entries[e] = ll[k]
    BY <1>1, <1>2, <1>3, <2>1
  <2> QED BY <1>2, <1>3, <2>1, <2>2 DEF TermAt
<1> QED BY <1>4, <1>5, <1>6

(* What a server shares with the leader of its term it keeps, also the      *)
(* persisted part of it, whatever input it takes.                           *)
LEMMA TakesKeeps ==
  ASSUME Safe, ElectionInv', NEW i \in Server, NEW r, Takes(i, r),
         NEW l \in Server, l # i, node[l].role = "leader",
         node[i].term = node[l].term, r.term = node[l].term,
         NEW v \in Nat, Agrees(node[i].log, node[l].log, v)
  PROVE  /\ Agrees(r.log, node[l].log, v)
         /\ v <= node[i].stable => v <= r.stable
<1> DEFINE n == node[i]
           ll == node[l].log
<1>1. Rests(i, n, r) \/ Grows(i, n, r) \/ Learns(i, n, r) \/ \E q \in net : Receives(i, n, r, q)
  BY DEF Takes, LogStep
<1>2. CASE Rests(i, n, r) \/ Learns(i, n, r)
  BY <1>2 DEF Rests, Learns
<1>3. CASE Grows(i, n, r)
  <2>1. r.role = "leader"
    BY <1>3 DEF Grows
  <2>2. <<r.term, i>> \in leaders' /\ leaders \subseteq leaders'
    BY <2>1, TakesNodes
  <2>3. <<r.term, l>> \in leaders
    BY DEF Safe, ElectionInv, LeaderInv
  <2> QED BY <2>2, <2>3, OneLeaderNext
<1>4. ASSUME NEW q \in net, Receives(i, n, r, q)
      PROVE  Agrees(r.log, ll, v) /\ (v <= n.stable => v <= r.stable)
  <2>1. q.type = "append_req" /\ r.term = q.term
    BY <1>4 DEF Receives
  <2>2. PICK c \in Nat : /\ MergedAt(n.log, q, r.log, c)
                         /\ r.stable = IF c < n.stable THEN c ELSE n.stable
    BY <1>4 DEF Receives
  <2>3. SliceOf(q, ll)
    BY <2>1, RequestOfLeader, SlotsOf
  <2>4. n.log \in Seq(Entry) /\ ll \in Seq(Entry) /\ r.log \in Seq(Entry) /\ q \in Message
        /\ n.stable \in Nat
    BY LogTyped, TakesNodes DEF Safe, LogTypes
  <2>5. v <= c /\ Agrees(r.log, ll, v)
    <3> HIDE DEF n, ll
    <3>1. Agrees(n.log, ll, v)
      BY DEF n, ll
    <3> QED BY <2>1, <2>2, <2>3, <2>4, <3>1, MergeKeeps
  <2> HIDE DEF n, ll
  <2>6. r.stable = c \/ r.stable = n.stable
    BY <2>2
  <2> QED BY <2>5, <2>6
<1> HIDE DEF n, ll
<1> QED BY <1>1, <1>2, <1>3, <1>4 DEF n, ll

(* An input leaves a confirmation true.                                     *)
LEMMA TakesConfirmed ==
  ASSUME Safe, ElectionInv', NEW i \in Server, NEW r, Takes(i, r),
         NEW l \in Server, NEW w \in Server, w # l, node[l].role = "leader",
         node'[l].term = node[l].term, Prefix(node[l].log, node'[l].log),
         NEW v \in Nat, Confirmed(l, w, v)
  PROVE  Confirmed(l, w, v)'
<1> DEFINE ll == node[l].log
           lm == node'[l].log
           t  == node[l].term
<1>1. /\ node'[i] = r /\ \A j \in Server : j # i => node'[j] = node[j]
      /\ r.term \in Nat /\ node[i].term <= r.term /\ r.log \in Seq(Entry)
  BY TakesNodes
<1>2. /\ ll \in Seq(Entry) /\ t \in Nat /\ node[w].term \in Nat /\ disk[w].term \in Nat
      /\ disk[w].term <= node[w].term /\ node[w].log \in Seq(Entry)
  <2>1. Follows(disk[w], node[w])
    BY DEF Safe, ElectionInv, DiskBehind
  <2>2. ll \in Seq(Entry) /\ t \in Nat /\ node[w].term \in Nat /\ disk[w].term \in Nat
        /\ node[w].log \in Seq(Entry)
    BY LogTyped DEF Safe, LogTypes
  <2> QED BY SMTT(30), <2>1, <2>2 DEF Follows
<1>3. lm \in Seq(Entry)
  BY <1>1, LogTyped DEF Safe, LogTypes
<1>4. disk' = disk
  BY DEF Takes
<1> SUFFICES ASSUME v # 0
             PROVE  /\ v <= Len(lm) /\ disk[w].term >= t
                    /\ disk[w].term = t => Agrees(disk[w].log, lm, v)
                    /\ node'[w].term = t => v <= node'[w].stable /\ Agrees(node'[w].log, lm, v)
  BY <1>4 DEF Confirmed
<1>5. /\ v <= Len(ll) /\ disk[w].term >= t
      /\ disk[w].term = t => Agrees(disk[w].log, ll, v)
      /\ node[w].term = t => v <= node[w].stable /\ Agrees(node[w].log, ll, v)
  BY DEF Confirmed
<1>6. v <= Len(lm)
  <2>1. Len(ll) <= Len(lm) /\ Len(ll) \in Nat /\ Len(lm) \in Nat
    BY SMTT(30), <1>2, <1>3 DEF Prefix
  <2> HIDE DEF ll, lm
  <2> QED BY SMTT(30), <1>5, <2>1
<1>7. disk[w].term = t => Agrees(disk[w].log, lm, v)
  BY <1>2, <1>3, <1>5, AgreesGrows
<1>8. ASSUME node'[w].term = t PROVE v <= node'[w].stable /\ Agrees(node'[w].log, lm, v)
  <2>1. CASE w # i
    <3>1. node'[w] = node[w]
      BY <1>1, <2>1
    <3>2. v <= node[w].stable /\ Agrees(node[w].log, ll, v)
      BY <1>5, <1>8, <3>1
    <3> QED BY <1>2, <1>3, <3>1, <3>2, AgreesGrows
  <2>2. CASE w = i
    <3>1. node'[l] = node[l] /\ l # i
      BY <1>1, <2>2
    <3>2. node[i].term = t /\ r.term = t
      <4> HIDE DEF t
      <4> QED BY SMTT(30), <1>1, <1>2, <1>5, <1>8, <2>2
    <3>3. v <= node[i].stable /\ Agrees(node[i].log, ll, v)
      BY <1>5, <2>2, <3>2
    <3>4. Agrees(r.log, ll, v) /\ v <= r.stable
      BY <3>1, <3>2, <3>3, TakesKeeps
    <3> QED BY <1>1, <2>2, <3>1, <3>4
  <2> QED BY <2>1, <2>2
<1> QED BY <1>5, <1>6, <1>7, <1>8

(* It leaves a queued acknowledgement true.                                 *)
LEMMA TakesQueued ==
  ASSUME Safe, ElectionInv', NEW i \in Server, NEW r, Takes(i, r),
         NEW l \in Server, NEW w \in Server, w # l, node[l].role = "leader",
         node'[l].term = node[l].term, Prefix(node[l].log, node'[l].log),
         NEW v \in Nat, Queued(l, w, v)
  PROVE  Queued(l, w, v)'
<1> DEFINE ll == node[l].log
           lm == node'[l].log
           t  == node[l].term
<1>1. /\ node'[i] = r /\ \A j \in Server : j # i => node'[j] = node[j]
      /\ r.term \in Nat /\ node[i].term <= r.term /\ r.log \in Seq(Entry)
  BY TakesNodes
<1>2. /\ ll \in Seq(Entry) /\ t \in Nat /\ node[w].term \in Nat /\ node[w].log \in Seq(Entry)
  BY LogTyped DEF Safe, LogTypes
<1>3. lm \in Seq(Entry)
  BY <1>1, LogTyped DEF Safe, LogTypes
<1>4. v <= Len(ll) /\ node[w].term >= t /\ (node[w].term = t => Agrees(node[w].log, ll, v))
  BY DEF Queued
<1>5. v <= Len(lm)
  <2>1. Len(ll) <= Len(lm) /\ Len(ll) \in Nat /\ Len(lm) \in Nat
    BY SMTT(30), <1>2, <1>3 DEF Prefix
  <2> HIDE DEF ll, lm
  <2> QED BY SMTT(30), <1>4, <2>1
<1>6. node'[w].term >= t /\ (node'[w].term = t => Agrees(node'[w].log, lm, v))
  <2>1. CASE w # i
    <3>1. node'[w] = node[w]
      BY <1>1, <2>1
    <3> QED BY <1>2, <1>3, <1>4, <3>1, AgreesGrows
  <2>2. CASE w = i
    <3>1. node'[l] = node[l] /\ l # i
      BY <1>1, <2>2
    <3>2. r.term >= t /\ (r.term = t => node[i].term = t)
      <4> HIDE DEF t
      <4> QED BY SMTT(30), <1>1, <1>2, <1>4, <2>2
    <3>3. r.term = t => Agrees(r.log, ll, v)
      BY <1>4, <2>2, <3>1, <3>2, TakesKeeps
    <3> QED BY <1>1, <2>2, <3>1, <3>2, <3>3
  <2> QED BY <2>1, <2>2
<1> HIDE DEF ll
<1> QED BY <1>5, <1>6 DEF Queued

(* What a server acknowledges it shares with the leader.                    *)
LEMMA TakesAcks ==
  ASSUME Safe, TypeInv', ElectionInv', Tidy(Slots'), NEW i \in Server, NEW r, Takes(i, r),
         NEW l \in Server, node[l].role = "leader", l # i,
         NEW m \in r.msgs \ node[i].msgs, IsAck(m), m.to = l, m.term = node[l].term
  PROVE  Queued(l, i, m.index)'
<1> DEFINE n == node[i]
           ll == node[l].log
<1>1. /\ node'[i] = r /\ node'[l] = node[l]
      /\ r.log \in Seq(Entry) /\ r.msgs \in SUBSET Message
  BY SMTT(30), TakesNodes
<1>2. n.log \in Seq(Entry) /\ ll \in Seq(Entry) /\ net \in SUBSET Message
      /\ node[l].term \in Nat
  BY LogTyped DEF Safe, LogTypes
<1>3. PICK q \in net : /\ Receives(i, n, r, q) /\ m.to = q.from
                       /\ m.index = q.prev_log_index + Len(q.entries)
  BY DEF Takes, LogStep
<1>4. Says(i, r, m)
  BY DEF Takes, LogStep
<1>5. q \in Message /\ q.type = "append_req" /\ r.term = q.term /\ m.term = r.term
  BY <1>2, <1>3, <1>4 DEF Receives, Says
<1>6. SliceOf(q, ll)
  BY <1>5, RequestOfLeader, SlotsOf
<1>7. PICK c \in Nat : MergedAt(n.log, q, r.log, c)
  BY <1>3 DEF Receives
<1>8. m.index \in Nat
  <2>1. m \in Message /\ m.type = "append_resp"
    BY <1>1 DEF IsAck
  <2> QED BY <2>1 DEF Message
<1> HIDE DEF n, ll
<1>9. m.index <= Len(r.log) /\ m.index <= Len(ll) /\ TermAt(r.log, m.index) = TermAt(ll, m.index)
  BY SMTT(30), <1>1, <1>2, <1>3, <1>5, <1>6, <1>7, <1>8, MergedTerm
<1>10. LogSlots(r.log) \subseteq Slots' /\ LogSlots(ll) \subseteq Slots'
  <2>1. \A j \in Server : LogSlots(node'[j].log) \subseteq Slots'
    BY SlotsOfNext
  <2> QED BY <1>1, <2>1 DEF ll
<1>11. \A j \in 1 .. m.index : r.log[j] = ll[j]
  <2> DEFINE S == Slots'
  <2>1. LogSlots(r.log) \subseteq S /\ LogSlots(ll) \subseteq S /\ Tidy(S)
    BY <1>10
  <2> HIDE DEF S
  <2> QED BY SMTT(30), <1>1, <1>2, <1>8, <1>9, <2>1, PrefixAgree
<1>12. Agrees(r.log, ll, m.index)
  BY <1>9, <1>11 DEF Agrees
<1>13. r.term >= node[l].term
  BY SMTT(30), <1>2, <1>5
<1> QED BY <1>1, <1>9, <1>12, <1>13 DEF Queued, ll

(* An input keeps acknowledgements honest.                                  *)
LEMMA TakesAckInv ==
  ASSUME Safe, TypeInv', ElectionInv', Tidy(Slots'), NEW i \in Server, NEW r, Takes(i, r)
  PROVE  AckInv'
<1> DEFINE n == node[i]
<1>1. /\ node'[i] = r /\ \A j \in Server : j # i => node'[j] = node[j]
      /\ r.match \in [Server -> Nat] /\ r.msgs \in SUBSET Message
  BY TakesNodes
<1>2. /\ \A j \in Server : node[j].match \in [Server -> Nat] /\ node[j].msgs \in SUBSET Message
      /\ net \in SUBSET Message /\ Mail \in SUBSET Message
  BY LogTyped DEF Safe, LogTypes
<1>3. net' \subseteq net
  BY DEF Takes
<1>4. \A m \in Message : IsAck(m) => m.index \in Nat
  BY DEF IsAck, Message
<1>5. \A m \in Mail : m.from # m.to /\ m.from \in Server /\ m.to \in Server
  <2>1. \A m \in Message : m.from \in Server /\ m.to \in Server
    BY ClusterTypes DEF Safe
  <2> QED BY <1>2, <2>1 DEF Safe, LogInv, MailInv
<1>6. \A w \in Server : \A m \in node[w].msgs : m.from = w
  BY DEF Safe, ElectionInv, VoteRequests
<1> SUFFICES ASSUME NEW l \in Server, node'[l].role = "leader"
             PROVE  /\ node'[l].match[l] <= node'[l].stable
                    /\ \A w \in Peers(l) : Confirmed(l, w, node[l].match[w])'
                    /\ \A m \in net' : AckFor(m, l)' => Confirmed(l, m.from, m.index)'
                    /\ \A w \in Server : \A m \in node'[w].msgs :
                          AckFor(m, l)' => Queued(l, w, m.index)'
  BY DEF AckInv
<1>7. CASE /\ node[l].role = "leader" /\ node'[l].term = node[l].term
           /\ Prefix(node[l].log, node'[l].log)
  <2>1. /\ node[l].match[l] <= node[l].stable
        /\ \A w \in Peers(l) : Confirmed(l, w, node[l].match[w])
        /\ \A m \in net : AckFor(m, l) => Confirmed(l, m.from, m.index)
        /\ \A w \in Server : \A m \in node[w].msgs : AckFor(m, l) => Queued(l, w, m.index)
    BY <1>7 DEF Safe, LogInv, AckInv
  <2>2. \A m : AckFor(m, l)' <=> AckFor(m, l)
    BY <1>7 DEF AckFor
  <2>3. \A w \in Peers(l) : \A v \in Nat : Confirmed(l, w, v) => Confirmed(l, w, v)'
    <3>1. ASSUME NEW w \in Peers(l), NEW v \in Nat, Confirmed(l, w, v) PROVE Confirmed(l, w, v)'
      <4>1. w \in Server /\ w # l
        BY DEF Peers
      <4> QED BY <1>7, <3>1, <4>1, TakesConfirmed
    <3> QED BY <3>1
  <2>4. \A m \in net' : AckFor(m, l)' => Confirmed(l, m.from, m.index)'
    <3> SUFFICES ASSUME NEW m \in net', AckFor(m, l) PROVE Confirmed(l, m.from, m.index)'
      BY <2>2
    <3>1. m \in net /\ m \in Mail /\ m.index \in Nat
      BY <1>2, <1>3, <1>4, SlotsOf DEF AckFor
    <3>2. m.from \in Peers(l)
      BY <1>5, <3>1 DEF AckFor, Peers
    <3>3. Confirmed(l, m.from, m.index)
      BY <2>1, <3>1
    <3> QED BY <2>3, <3>1, <3>2, <3>3
  <2>5. ASSUME NEW w \in Server, NEW m \in node'[w].msgs, AckFor(m, l)'
        PROVE  Queued(l, w, m.index)'
    <3>1. AckFor(m, l) /\ IsAck(m)
      BY <2>2, <2>5 DEF AckFor
    <3>2. CASE m \in node[w].msgs
      <4>1. m \in Mail /\ m.index \in Nat /\ m.from = w
        BY <1>2, <1>4, <1>6, <3>1, <3>2, SlotsOf
      <4>2. w # l
        BY <1>5, <3>1, <4>1 DEF AckFor
      <4>3. Queued(l, w, m.index)
        BY <2>1, <3>1, <3>2
      <4> QED BY <1>7, <4>1, <4>2, <4>3, TakesQueued
    <3>3. CASE w = i /\ m \in r.msgs \ n.msgs
      <4>1. Says(i, r, m)
        BY <3>3 DEF Takes, LogStep
      <4>2. m.to = l /\ m.term = node[l].term /\ l # i
        BY <3>1, <4>1 DEF AckFor, Says
      <4> QED BY <1>7, <3>1, <3>3, <4>2, TakesAcks
    <3> QED BY <3>2, <3>3, TakesMail
  <2>6. ASSUME l = i
        PROVE  /\ r.match[i] <= r.stable
               /\ \A w \in Peers(i) : Confirmed(i, w, r.match[w])'
    <3>1. Rests(i, n, r) \/ Grows(i, n, r) \/ Learns(i, n, r) \/ \E q \in net : Receives(i, n, r, q)
      BY DEF Takes, LogStep
    <3>2. CASE r.match = n.match /\ r.stable = n.stable
      <4>1. \A w \in Peers(i) : n.match[w] \in Nat
        BY <1>2 DEF Peers
      <4> QED BY <2>1, <2>3, <2>6, <3>2, <4>1
    <3>3. CASE Learns(i, n, r)
      <4>1. \A w \in Server :
              \/ r.match[w] = n.match[w]
              \/ \E q \in net : /\ IsAck(q) /\ q.from = w /\ q.to = i /\ q.term = r.term
                                /\ r.match[w] = q.index
        BY <3>3 DEF Learns
      <4>2. r.match[i] = n.match[i] /\ r.stable = n.stable
        <5>1. \A q \in net : ~(q.from = i /\ q.to = i)
          BY <1>5, SlotsOf
        <5> QED BY <3>3, <4>1, <5>1 DEF Learns
      <4>3. ASSUME NEW w \in Peers(i) PROVE Confirmed(i, w, r.match[w])
        <5>1. w \in Server
          BY DEF Peers
        <5>2. ASSUME NEW q \in net, IsAck(q), q.from = w, q.to = i, q.term = r.term, r.match[w] = q.index
              PROVE  Confirmed(i, w, r.match[w])
          <6>1. AckFor(q, i)
            BY <1>1, <1>7, <2>6, <5>2 DEF AckFor
          <6> QED BY <2>1, <2>6, <5>2, <6>1
        <5> QED BY SMTT(30), <2>1, <2>6, <4>1, <5>1, <5>2
      <4>4. \A w \in Peers(i) : r.match[w] \in Nat
        BY <1>1 DEF Peers
      <4> QED BY <2>1, <2>3, <2>6, <4>2, <4>3, <4>4
    <3>4. CASE Rests(i, n, r) \/ Grows(i, n, r)
      BY <1>1, <1>7, <2>6, <3>2, <3>4 DEF Rests, Grows
    <3>5. ~\E q \in net : Receives(i, n, r, q)
      BY <1>1, <2>6 DEF Receives
    <3> QED BY <3>1, <3>3, <3>4, <3>5
  <2>7. ASSUME l # i
        PROVE  /\ node'[l].match[l] <= node'[l].stable
               /\ \A w \in Peers(l) : Confirmed(l, w, node[l].match[w])'
    <3>1. node'[l] = node[l]
      BY <1>1, <2>7
    <3>2. \A w \in Peers(l) : node[l].match[w] \in Nat
      BY <1>2 DEF Peers
    <3> QED BY <2>1, <2>3, <3>1, <3>2
  <2> QED BY <1>1, <2>4, <2>5, <2>6, <2>7
<1>8. CASE /\ l = i /\ Fresh(i, r.term)
           /\ r.match = [s \in Server |-> IF s = i THEN r.stable ELSE 0]
  <2>1. r.match[i] <= r.stable
    <3>1. r.stable \in Nat
      BY TakesNodes
    <3> QED BY SMTT(30), <1>8, <3>1
  <2>2. \A w \in Peers(i) : Confirmed(i, w, r.match[w])'
    <3>1. \A w \in Peers(i) : r.match[w] = 0
      BY <1>8 DEF Peers
    <3> QED BY <3>1 DEF Confirmed
  <2>3. \A m \in Mail : ~AckFor(m, i)'
    BY <1>1, <1>8 DEF Fresh, AckFor
  <2>4. \A m \in net' : ~AckFor(m, i)'
    BY <1>3, <2>3, SlotsOf
  <2>5. ASSUME NEW w \in Server, NEW m \in node'[w].msgs PROVE ~AckFor(m, i)'
    <3>1. CASE m \in node[w].msgs
      BY <2>3, <3>1, SlotsOf
    <3>2. CASE m \in r.msgs \ n.msgs
      <4>1. Says(i, r, m)
        BY <3>2 DEF Takes, LogStep
      <4> QED BY <4>1 DEF Says, AckFor
    <3> QED BY <3>1, <3>2, TakesMail
  <2> QED BY <1>1, <1>8, <2>1, <2>2, <2>4, <2>5
<1> QED BY SMTT(30), <1>7, <1>8, TakesLeaders

(* An input preserves the invariant.                                        *)
LEMMA TakesLog ==
  ASSUME Safe, TypeInv', ElectionInv', Tidy(Slots'), NEW i \in Server, NEW r, Takes(i, r)
  PROVE  LogInv'
<1>1. DiskInv' /\ RoleInv' /\ SlotInv' /\ OwnInv' /\ ClaimInv'
  BY TakesDiskInv, TakesRoleInv, TakesSlotInv, TakesOwnInv, TakesClaimInv
<1>2. MailInv' /\ AckInv'
  BY <1>1, TakesMailInv, TakesAckInv
<1> QED BY <1>1, <1>2 DEF LogInv

-----------------------------------------------------------------------------
(* All steps *)

(* A fresh cluster satisfies the invariant.                                 *)
LEMMA LogInit == Init => LogInv
<1> SUFFICES ASSUME Init PROVE LogInv
  OBVIOUS
<1>1. /\ \A i \in Server :
           /\ node[i].role = "follower" /\ node[i].term = 0 /\ node[i].leader = None
           /\ node[i].log = <<>> /\ node[i].stable = 0 /\ node[i].truncated = None
           /\ node[i].msgs = {} /\ ~node[i].bcast_pending /\ node[i].malformed_dropped = 0
           /\ disk[i].log = <<>> /\ disk[i].term = 0
      /\ net = {} /\ leaders = {}
  BY DEF Init, InitNode, EmptyDisk
<1>2. Mail = {}
  BY SMTT(30), <1>1 DEF Mail
<1>3. Slots = {}
  <2>1. LogSlots(<<>>) = {}
    BY SMTT(30) DEF LogSlots
  <2>2. Slots \subseteq {}
    BY <1>1, <1>2, <2>1, SlotsFrom
  <2> QED BY <2>2
<1>4. DiskInv
  BY SMTT(30), <1>1 DEF DiskInv, Mirrors, Aged
<1> QED BY <1>1, <1>2, <1>3, <1>4
  DEF LogInv, RoleInv, SlotInv, SlotsAgree, OwnInv, MailInv, ClaimInv, AckInv

(* A step of the cluster keeps the invariant of the log, slots that are in  *)
(* order making tidy logs.                                                  *)
LEMMA LogStepKeeps ==
  ASSUME Safe, TypeInv', ElectionInv', SlotInv' => Tidy(Slots'), ClusterStep
  PROVE  LogInv'
<1>1. PICK i \in Server : \/ \E r : Drained(i, r) /\ Applied(i, r)
                         \/ \E d, a : Restarted(i, d, a)
                         \/ \E r : TakesInput(i, r)
  BY DEF ClusterStep
<1>2. CASE \E r : Drained(i, r) /\ Applied(i, r)
  BY <1>2, DrainLogInv
<1>3. CASE \E d, a : Restarted(i, d, a)
  BY <1>3, RestartLogInv
<1>4. CASE \E r : TakesInput(i, r)
  <2>1. PICK r : Takes(i, r)
    BY <1>4 DEF TakesInput
  <2>2. Tidy(Slots')
    BY <2>1, TakesSlotInv
  <2> QED BY <2>1, <2>2, TakesLog
<1> QED BY <1>1, <1>2, <1>3, <1>4

-----------------------------------------------------------------------------
(* What the invariant implies *)

(* The first k entries of two logs that agree up to k are the same.         *)
LEMMA AgreesSubSeq ==
  ASSUME NEW a \in Seq(Entry), NEW b \in Seq(Entry), NEW k \in Nat, Agrees(a, b, k)
  PROVE  SubSeq(a, 1, k) = SubSeq(b, 1, k)
<1>1. k <= Len(a) /\ k <= Len(b) /\ Len(a) \in Nat /\ Len(b) \in Nat
  BY SMTT(30) DEF Agrees
<1> DEFINE x == SubSeq(a, 1, k)
           y == SubSeq(b, 1, k)
<1>2. /\ x \in Seq(Entry) /\ Len(x) = k /\ \A j \in 1 .. k : x[j] = a[j]
      /\ y \in Seq(Entry) /\ Len(y) = k /\ \A j \in 1 .. k : y[j] = b[j]
  <2>1. /\ \A j \in 1 .. k : a[j] \in Entry /\ b[j] \in Entry
    BY SMTT(30), <1>1
  <2>2. Len(x) = k /\ \A j \in 1 .. k : x[j] = a[j]
    BY SMTT(30), <1>1
  <2>3. Len(y) = k /\ \A j \in 1 .. k : y[j] = b[j]
    BY SMTT(30), <1>1
  <2> QED BY SMTT(30), <1>1, <2>1, <2>2, <2>3
<1>3. \A j \in 1 .. k : x[j] = y[j]
  BY <1>2 DEF Agrees
<1> HIDE DEF x, y
<1>4. x = y
  <2>1. x \in [1 .. k -> Entry] /\ y \in [1 .. k -> Entry]
    BY SMTT(30), <1>2
  <2> QED BY SMTT(30), <1>3, <2>1
<1> QED BY <1>4 DEF x, y

(* Two logs with the same term at an index are equal up to that index.      *)
LEMMA SafeMatch == Safe => LogMatching
<1> SUFFICES ASSUME Safe, NEW i \in Server, NEW j \in Server,
                    NEW k \in 1 .. Min({LastIndex(node[i].log), LastIndex(node[j].log)}),
                    node[i].log[k].term = node[j].log[k].term
             PROVE  SubSeq(node[i].log, 1, k) = SubSeq(node[j].log, 1, k)
  BY DEF LogMatching
<1> DEFINE a == node[i].log
           b == node[j].log
<1>1. a \in Seq(Entry) /\ b \in Seq(Entry) /\ Len(a) \in Nat /\ Len(b) \in Nat
  BY LogTyped DEF Safe, LogTypes
<1>2. k \in Nat /\ k >= 1 /\ k <= Len(a) /\ k <= Len(b)
  <2>1. k \in 1 .. Min({Len(a), Len(b)})
    BY DEF LastIndex
  <2> DEFINE x == Len(a)
             y == Len(b)
  <2>2. x \in Nat /\ y \in Nat /\ k \in 1 .. Min({x, y})
    BY <1>1, <2>1
  <2> HIDE DEF x, y
  <2>3. Min({x, y}) = IF x <= y THEN x ELSE y
    BY SMTT(30), <2>2 DEF Min
  <2>4. k \in Nat /\ k >= 1 /\ k <= x /\ k <= y
    BY SMTT(30), <2>2, <2>3
  <2> QED BY <2>4 DEF x, y
<1>3. LogSlots(a) \subseteq Slots /\ LogSlots(b) \subseteq Slots /\ Tidy(Slots)
  BY SlotsOf DEF Safe
<1>4. TermAt(a, k) = TermAt(b, k)
  BY <1>2 DEF TermAt
<1> HIDE DEF a, b
<1>5. \A l \in 1 .. k : a[l] = b[l]
  BY <1>1, <1>2, <1>3, <1>4, PrefixAgree
<1>6. SubSeq(a, 1, k) = SubSeq(b, 1, k)
  BY <1>1, <1>2, <1>5, AgreesSubSeq DEF Agrees
<1> QED BY <1>6 DEF a, b

(* What a leader believes a server in its term has is on that server's disk. *)
LEMMA SafeDurable == Safe => MatchIsDurable
<1> SUFFICES ASSUME Safe, NEW i \in Server, NEW j \in Server,
                    node[i].role = "leader", node[j].term = node[i].term
             PROVE  /\ node[i].match[j] <= Len(disk[j].log)
                    /\ SubSeq(disk[j].log, 1, node[i].match[j]) = SubSeq(node[i].log, 1, node[i].match[j])
  BY DEF MatchIsDurable
<1> DEFINE v == node[i].match[j]
           a == node[i].log
           b == disk[j].log
           n == node[j]
<1>1. /\ v \in Nat /\ a \in Seq(Entry) /\ b \in Seq(Entry) /\ Len(a) \in Nat /\ Len(b) \in Nat
      /\ n.stable \in Nat /\ n.stable <= Len(n.log) /\ Len(n.log) \in Nat
      /\ n.truncated \in Nat \union {None}
  BY LogTyped, NodeTypes DEF Safe, LogTypes
<1>2. n.stable <= Len(b) /\ \A k \in 1 .. n.stable : b[k] = n.log[k]
  <2>1. Mirrors(disk[j], n)
    BY DEF Safe, LogInv, DiskInv
  <2> HIDE DEF n
  <2> QED BY SMTT(30), <1>1, <2>1 DEF Mirrors
<1>3. v <= n.stable /\ Agrees(n.log, a, v)
  <2>1. CASE j = i
    <3>1. v <= n.stable
      BY <2>1 DEF Safe, LogInv, AckInv
    <3>2. n.log = a
      BY <2>1
    <3> HIDE DEF n, a, v
    <3> QED BY SMTT(30), <1>1, <3>1, <3>2 DEF Agrees
  <2>2. CASE j # i /\ v # 0
    BY <2>2 DEF Safe, LogInv, AckInv, Confirmed, Peers
  <2>3. CASE v = 0
    <3> HIDE DEF n, a, v
    <3> QED BY SMTT(30), <1>1, <2>3 DEF Agrees
  <2> QED BY <2>1, <2>2, <2>3
<1> HIDE DEF n, a, b, v
<1>4. Agrees(b, a, v)
  BY SMTT(30), <1>1, <1>2, <1>3 DEF Agrees
<1>5. v <= Len(b) /\ SubSeq(b, 1, v) = SubSeq(a, 1, v)
  BY <1>1, <1>4, AgreesSubSeq DEF Agrees
<1> QED BY <1>5 DEF a, b, v

(* Nobody speaks for a leader there is not, and nothing is malformed.       *)
LEMMA SafeClaims == Safe => NoFalseClaims
<1> SUFFICES ASSUME Safe PROVE NoFalseClaims
  OBVIOUS
<1>1. AppendsComeFromLeaders
  BY SlotsOf DEF Safe, LogInv, MailInv, ClaimInv, AppendsComeFromLeaders
<1> QED BY <1>1 DEF Safe, LogInv, ClaimInv, NoFalseClaims, LeaderHintIsLeader, NothingMalformed

(* In one step of the cluster a leader that stays one only appends.         *)
LEMMA LeaderAppends ==
  ASSUME Safe, Safe', ClusterStep, NEW i \in Server, node[i].role = "leader", node'[i].role = "leader"
  PROVE  /\ LastIndex(node[i].log) <= LastIndex(node'[i].log)
         /\ SubSeq(node'[i].log, 1, LastIndex(node[i].log)) = node[i].log
<1> DEFINE a == node[i].log
           b == node'[i].log
<1>1. a \in Seq(Entry) /\ b \in Seq(Entry) /\ Len(a) \in Nat /\ Len(b) \in Nat
  <2>1. TypeInv /\ TypeInv'
    BY DEF Safe
  <2> QED BY <2>1, LogTyped, LogTypedNext DEF LogTypes
<1>2. Prefix(a, b)
  <2>1. PICK j \in Server : \/ \E r : Drained(j, r)
                           \/ \E d, e : Restarted(j, d, e)
                           \/ \E r : TakesInput(j, r)
    BY DEF ClusterStep
  <2>2. CASE b = a
    <3> HIDE DEF a, b
    <3> QED BY SMTT(30), <1>1, <2>2 DEF Prefix
  <2>3. CASE \E r : Drained(j, r)
    <3>1. PICK r : Drained(j, r)
      BY <2>3
    <3>2. b = a
      BY <3>1 DEF Drained
    <3> QED BY <2>2, <3>2
  <2>4. CASE \E d, e : Restarted(j, d, e)
    <3>1. PICK d, e : Restarted(j, d, e)
      BY <2>4
    <3>2. node'[i] = node[i]
      BY SMTT(30), <3>1 DEF Restarted, InitNode
    <3> QED BY <2>2, <3>2
  <2>5. CASE \E r : TakesInput(j, r)
    <3>1. PICK r : Takes(j, r)
      BY <2>5 DEF TakesInput
    <3>2. node'[j] = r /\ (i # j => node'[i] = node[i])
      BY <3>1, TakesNodes
    <3>3. CASE i = j
      BY <3>1, <3>2, <3>3, LeaderKeeps
    <3>4. CASE i # j
      BY <2>2, <3>2, <3>4
    <3> QED BY <3>3, <3>4
  <2> QED BY <2>1, <2>3, <2>4, <2>5
<1> HIDE DEF a, b
<1>3. Len(a) \in 0 .. Len(b) /\ Agrees(b, a, Len(a))
  BY SMTT(30), <1>1, <1>2 DEF Prefix, Agrees
<1>4. SubSeq(b, 1, Len(a)) = SubSeq(a, 1, Len(a)) /\ SubSeq(a, 1, Len(a)) = a
  <2>1. SubSeq(b, 1, Len(a)) = SubSeq(a, 1, Len(a))
    BY <1>1, <1>3, AgreesSubSeq
  <2>2. SubSeq(a, 1, Len(a)) = a
    BY SMTT(30), <1>1
  <2> QED BY <2>1, <2>2
<1> QED BY SMTT(30), <1>1, <1>3, <1>4 DEF LastIndex, a, b

(* What a crash in the middle of a batch leaves passes every check of       *)
(* Node.init, if what was applied was persisted.                            *)
LEMMA TornRestorable ==
  ASSUME Safe, NEW i \in Server, NEW d \in DiskType, Torn(disk[i], node[i], d),
         node[i].applied <= node[i].stable
  PROVE  ValidRestore(d, node[i].applied)
<1>1. PICK n, o : n = node[i] /\ o = disk[i]
  OBVIOUS
<1>2. /\ Bounded(n) /\ o \in DiskType /\ Mirrors(o, n) /\ Aged(n) /\ Aged(o)
  BY <1>1, LogTyped DEF Safe, LogTypes, LogInv, DiskInv
<1>3. d \in DiskType /\ Torn(o, n, d)
  BY <1>1
<1>4. /\ n.log \in Seq(Entry) /\ o.log \in Seq(Entry) /\ d.log \in Seq(Entry)
      /\ n.term \in Nat /\ o.term \in Nat /\ d.term \in Nat /\ d.term <= MaxTerm
      /\ d.voted_for \in Server \union {None} /\ n.stable \in Nat /\ n.applied \in Nat
      /\ Len(n.log) \in Nat /\ Len(o.log) \in Nat /\ Len(d.log) \in Nat
  <2>1. d.term \in Term /\ d.voted_for \in Server \union {None} /\ d.log \in Seq(Entry)
    BY <1>3 DEF DiskType
  <2> QED BY SMTT(30), <1>1, <2>1, LogTyped, NodeTypes, MaxTermAssumption DEF Safe, LogTypes, Term
<1>5. n.applied <= Len(d.log)
  <2>1. n.applied <= n.stable
    BY <1>1
  <2> QED BY SMTT(30), <1>3, <1>4, <2>1 DEF Torn
<1>6. LogSlots(d.log) \subseteq Slots
  <2>1. LogSlots(n.log) \subseteq Slots /\ LogSlots(o.log) \subseteq Slots
    BY <1>1, SlotsOf
  <2>2. d.log = o.log \/ Prefix(d.log, o.log) \/ Prefix(d.log, n.log)
    BY <1>3 DEF Torn
  <2> QED BY <1>4, <2>1, <2>2, PrefixSlots
<1>7. Ordered(d.log)
  BY <1>4, <1>6 DEF Safe, Tidy
<1>8. \A k \in 1 .. Len(d.log) : d.log[k].term <= d.term
  <2>1. /\ o.term <= n.term /\ (~n.hs_dirty => o.term = n.term)
    BY SMTT(30), <1>1, <1>4 DEF Safe, ElectionInv, DiskBehind, Follows
  <2>2. \A k \in 1 .. Len(d.log) : d.log[k].term \in Nat
    BY <1>4, LogType
  <2>3. CASE d.log = o.log /\ d.term = o.term
    BY <1>2, <2>3 DEF Aged
  <2>4. CASE /\ d.term = IF n.hs_dirty THEN n.term ELSE o.term
             /\ Prefix(d.log, o.log) \/ Prefix(d.log, n.log)
    <3>1. d.term = n.term
      BY <2>1, <2>4
    <3>2. CASE Prefix(d.log, o.log)
      <4> SUFFICES ASSUME NEW k \in 1 .. Len(d.log) PROVE d.log[k].term <= n.term
        BY <3>1
      <4>1. k \in 1 .. Len(o.log) /\ d.log[k] = o.log[k]
        BY SMTT(30), <1>4, <3>2 DEF Prefix
      <4>2. d.log[k].term <= o.term /\ d.log[k].term \in Nat
        BY <1>2, <2>2, <4>1 DEF Aged
      <4> QED BY SMTT(30), <1>4, <2>1, <4>2
    <3>3. CASE Prefix(d.log, n.log)
      <4> SUFFICES ASSUME NEW k \in 1 .. Len(d.log) PROVE d.log[k].term <= n.term
        BY <3>1
      <4>1. k \in 1 .. Len(n.log) /\ d.log[k] = n.log[k]
        BY SMTT(30), <1>4, <3>3 DEF Prefix
      <4> QED BY <1>2, <4>1 DEF Aged
    <3> QED BY <2>4, <3>2, <3>3
  <2> QED BY <1>3, <2>3, <2>4 DEF Torn
<1>9. ASSUME NEW k \in 1 .. Len(d.log), k > 1 PROVE d.log[k].term >= d.log[k-1].term
  <2>1. k - 1 \in 1 .. k /\ k - 1 \in 1 .. Len(d.log)
    BY SMTT(30), <1>4, <1>9
  <2>2. d.log[k-1].term <= d.log[k].term
    BY <1>7, <2>1 DEF Ordered
  <2>3. d.log[k-1].term \in Nat /\ d.log[k].term \in Nat
    BY <1>4, <2>1, LogType
  <2> QED BY <2>2, <2>3
<1> QED BY <1>1, <1>4, <1>5, <1>8, <1>9 DEF ValidRestore

=============================================================================
