---------------------------- MODULE RaftTheorems ----------------------------
(*****************************************************************************)
(* The safety of the raft node with its drivers, for a cluster of any       *)
(* size and any bounds, over any number of crashes and of lost, duplicated  *)
(* and reordered messages:                                                  *)
(*   - at most one leader per term, and a vote on disk is final;            *)
(*   - two logs that agree on the term of an entry agree up to it, and a    *)
(*     leader only appends;                                                 *)
(*   - the disk is what the node believes it to be, an acknowledged entry   *)
(*     is durable where it was acknowledged, and nobody speaks for a        *)
(*     leader there is not;                                                 *)
(*   - no two servers apply different entries at an index, every later      *)
(*     leader has what was applied, and what any crash leaves of a disk     *)
(*     can be restored.                                                     *)
(* The modules before this one show that each step keeps the invariants;    *)
(* here are the facts about numbers and finite sets they assume, the steps  *)
(* put together, and the theorems.                                          *)
(*****************************************************************************)
EXTENDS RaftSteps, RaftSlots, RaftCommit, FiniteSetTheorems

(* Zenon proves the steps, unless they name another prover; it gets the     *)
(* time a loaded machine may need.                                          *)
USE ZenonT(30)

-----------------------------------------------------------------------------
(* Numbers and majorities *)

(* Every nonempty set of naturals has a least element: the intervals 1 .. x *)
(* of its elements are finite sets, and strict inclusion is well-founded on *)
(* them.                                                                    *)
LEMMA LeastNatural ==
  ASSUME NEW S \in SUBSET Nat, S # {}
  PROVE  \E m \in S : \A k \in S : m <= k
<1> DEFINE T == { 1 .. x : x \in S }
<1>1. T \subseteq FiniteSubsetsOf(Nat)
  <2>1. \A x \in S : 1 .. x \in SUBSET Nat /\ IsFiniteSet(1 .. x)
    BY SMTT(30), FS_Interval
  <2> QED BY <2>1 DEF FiniteSubsetsOf
<1>2. T # {}
  OBVIOUS
<1>3. PICK t \in T : \A u \in T : ~ (<<u, t>> \in StrictSubsetOrdering(Nat))
  <2> HIDE DEF T
  <2> QED BY SMTT(30), <1>1, <1>2, FS_StrictSubsetOrderingWellFounded, WFMin
<1>4. PICK m \in S : t = 1 .. m
  OBVIOUS
<1>5. ASSUME NEW k \in S, k < m PROVE FALSE
  <2>1. 1 .. k \subseteq 1 .. m /\ 1 .. k # 1 .. m
    <3>1. m \in 1 .. m /\ m \notin 1 .. k
      BY SMTT(30), <1>5
    <3> QED BY SMTT(30), <3>1, <1>5
  <2>2. <<1 .. k, 1 .. m>> \in StrictSubsetOrdering(Nat)
    BY SMTT(30), <2>1 DEF StrictSubsetOrdering
  <2> QED BY <2>2, <1>3, <1>4
<1> QED BY SMTT(30), <1>5

(* Two majorities have a server in common.                                  *)
LEMMA TwoMajorities ==
  ASSUME NEW P \in SUBSET Server, NEW Q \in SUBSET Server,
         HasMajority(Server, P), HasMajority(Server, Q)
  PROVE  \E w \in Server : w \in P /\ w \in Q
<1>1. Server \cap P = P /\ Server \cap Q = Q
  OBVIOUS
<1>2. /\ IsFiniteSet(Server) /\ Cardinality(Server) \in Nat
      /\ Cardinality(P) \in Nat /\ Cardinality(Q) \in Nat
  BY SMTT(30), ServerAssumption, FS_CardinalityType, FS_Subset
<1>3. Cardinality(P) + Cardinality(Q) > Cardinality(Server)
  <2> DEFINE c == Cardinality(Server)
             p == Cardinality(P)
             q == Cardinality(Q)
  <2>1. p >= c \div 2 + 1 /\ q >= c \div 2 + 1
    BY <1>1 DEF HasMajority, Needed
  <2> HIDE DEF c, p, q
  <2>2. c \in Nat /\ p \in Nat /\ q \in Nat
    BY SMTT(30), <1>2 DEF c, p, q
  <2>3. p + q > c
    BY SMTT(30), <2>1, <2>2
  <2> QED BY SMTT(30), <2>3 DEF c, p, q
<1>4. P \cap Q # {}
  BY SMTT(30), <1>2, <1>3, FS_MajoritiesIntersect
<1> QED BY <1>4

(* A majority of more than one server needs another server.                 *)
LEMMA MajorityOfMany ==
  ASSUME NEW i \in Server, NEW Q \in SUBSET Server, HasMajority(Server, Q), Server # {i}
  PROVE  \E w \in Q : w # i
<1> SUFFICES ASSUME Q \subseteq {i} PROVE FALSE
  OBVIOUS
<1>1. /\ IsFiniteSet(Server) /\ Cardinality(Server) \in Nat
      /\ IsFiniteSet({i}) /\ Cardinality({i}) = 1
  BY ServerAssumption, FS_CardinalityType, FS_Singleton
<1>2. Cardinality(Q) \in Nat /\ Cardinality(Q) <= 1
  BY SMTT(30), <1>1, FS_Subset, FS_CardinalityType
<1>3. Server \cap Q = Q
  OBVIOUS
<1>4. Cardinality(Server) <= 1
  <2> DEFINE c == Cardinality(Server)
             q == Cardinality(Q)
  <2>1. q >= c \div 2 + 1
    BY SMTT(30), <1>3 DEF HasMajority, Needed
  <2>2. c \in Nat /\ q \in Nat /\ q <= 1
    BY SMTT(30), <1>1, <1>2
  <2> HIDE DEF c, q
  <2>3. c <= 1
    BY SMTT(30), <2>1, <2>2
  <2> QED BY SMTT(30), <2>3 DEF c
<1>5. Cardinality({i}) <= Cardinality(Server) /\ (Cardinality(Server) = Cardinality({i}) => Server = {i})
  BY SMTT(30), <1>1, FS_Subset
<1> QED BY SMTT(30), <1>1, <1>4, <1>5

(* Every server beyond a majority makes a majority.                         *)
LEMMA MoreIsMajority ==
  ASSUME NEW P \in SUBSET Server, NEW Q \in SUBSET P, HasMajority(Server, Q)
  PROVE  HasMajority(Server, P)
<1>1. Server \cap P = P /\ Server \cap Q = Q
  OBVIOUS
<1>2. IsFiniteSet(P) /\ IsFiniteSet(Server)
  BY SMTT(30), ServerAssumption, FS_Subset
<1>3. Cardinality(Q) <= Cardinality(P)
  BY SMTT(30), <1>2, FS_Subset
<1>4. Cardinality(P) \in Nat /\ Cardinality(Q) \in Nat /\ Cardinality(Server) \in Nat
  BY SMTT(30), <1>2, FS_CardinalityType, FS_Subset
<1> DEFINE c == Cardinality(Server)
           p == Cardinality(P)
           q == Cardinality(Q)
<1>5. q >= c \div 2 + 1
  BY <1>1 DEF HasMajority, Needed
<1> HIDE DEF c, p, q
<1>6. p >= c \div 2 + 1
  <2>1. c \in Nat /\ p \in Nat /\ q \in Nat /\ q <= p
    BY SMTT(30), <1>3, <1>4 DEF c, p, q
  <2> QED BY SMTT(30), <1>5, <2>1
<1> QED BY <1>1, <1>6 DEF HasMajority, Needed, c, p

(* Numbers and single servers count as they should.                         *)
LEMMA NumbersCount == Counting
<1>1. \A S \in SUBSET Nat : S # {} => \E m \in S : \A k \in S : m <= k
  BY LeastNatural
<1>2. \A i \in Server : Cardinality({i}) = 1
  BY FS_Singleton
<1> QED BY <1>1, <1>2 DEF Counting

(* Majorities of a finite cluster meet.                                     *)
LEMMA MajoritiesMeet == Majorities
<1>1. \A P, Q \in SUBSET Server :
        (HasMajority(Server, P) /\ HasMajority(Server, Q)) => P \intersect Q # {}
  BY SMTT(30), TwoMajorities
<1>2. \A i \in Server : \A Q \in SUBSET Server :
        (HasMajority(Server, Q) /\ Server # {i}) => \E w \in Q : w # i
  BY SMTT(30), MajorityOfMany
<1>3. \A P \in SUBSET Server : \A Q \in SUBSET P :
        HasMajority(Server, Q) => HasMajority(Server, P)
  BY SMTT(30), MoreIsMajority
<1> QED BY <1>1, <1>2, <1>3 DEF Majorities

-----------------------------------------------------------------------------
(* The invariants *)

(* The invariants of types, of the election and of the log hold in every    *)
(* state.                                                                   *)
LEMMA AlwaysSafe == Spec => []Safe
<1>1. Safe <=> TypeInv /\ ElectionInv /\ LogInv /\ Tidy(Slots) /\ Majorities
  BY DEF Safe
<1>2. LogInv => SlotInv
  BY DEF LogInv
<1>3. SlotInv => Tidy(Slots)
  BY SMTT(30), NumbersCount, SlotsTidy
<1>4. (SlotInv => Tidy(Slots))' => (SlotInv' => Tidy(Slots'))
  OBVIOUS
<1>5. Safe /\ TypeInv' /\ ElectionInv' /\ (SlotInv => Tidy(Slots))' /\ [Next]_vars => LogInv'
  BY SMTT(30), <1>4, NumbersCount, EveryStep, LogStepKeeps
<1>6. Safe /\ TypeInv' /\ [Next]_vars => ElectionInv'
  BY SMTT(30), NumbersCount, EveryStep, ElectionStepKeeps
<1> QED BY <1>1, <1>2, <1>3, <1>5, <1>6, NumbersCount, MajoritiesMeet, TypeInvInit, TypeInvNext,
           ElectionInit, LogInit, PTL DEF Spec

(* And with them the invariant of commitment.                               *)
LEMMA AlwaysCommitted == Spec => [](Safe /\ CommitInv)
<1>1. Safe /\ Safe' /\ CommitInv /\ [Next]_vars => CommitInv'
  BY SMTT(30), NumbersCount, EveryStep, CommitStepKeeps
<1> QED BY <1>1, AlwaysSafe, CommitInit, PTL DEF Spec

-----------------------------------------------------------------------------
(* Theorems *)

(* Every variable always has its type: no term on a node, a disk or the     *)
(* wire passes types.max_term, although handlers take terms from messages.  *)
THEOREM TypeCorrect == Spec => []TypeOK
<1>1. TypeInv => TypeOK
  BY DEF TypeInv
<1> QED BY <1>1, NumbersCount, TypeInvInit, TypeInvNext, PTL DEF Spec

(* For a leader, every peer's next is past what the peer confirmed and at   *)
(* most one past the end of the log, so sendAppend's subtractions never     *)
(* underflow and its termAt(prev) is always there to unwrap.                *)
THEOREM NextsInBounds == Spec => []NextInBounds
<1>1. TypeInv => NextInBounds
  BY DEF TypeInv, NextInBounds, NodeOK, Sendable
<1> QED BY <1>1, NumbersCount, TypeInvInit, TypeInvNext, PTL DEF Spec

(* At most one server is ever leader of a term (what SafetyChecker records  *)
(* and recordLeader reports), however many servers, crashes, duplicates and *)
(* reorderings there are.                                                   *)
THEOREM ElectionSafe == Spec => []ElectionSafety
<1>1. Safe => ElectionSafety
  BY DEF Safe, ElectionInv
<1> QED BY <1>1, AlwaysSafe, PTL

(* A term on disk never goes back and a vote on disk is never exchanged for *)
(* another in its term: what saveHardState overwrites is always older, torn *)
(* batches and restarts included.                                           *)
THEOREM VoteFinal == Spec => DurableVoteFinal
<1> DEFINE Final(i) == /\ disk'[i].term >= disk[i].term
                       /\ (disk'[i].term = disk[i].term /\ disk[i].voted_for # None)
                            => disk'[i].voted_for = disk[i].voted_for
<1>1. Safe /\ Safe' /\ [Next]_vars => [\A i \in Server : Final(i)]_vars
  <2> SUFFICES ASSUME Safe, Safe', [Next]_vars, NEW i \in Server PROVE Final(i)
    OBVIOUS
  <2>1. disk[i].term \in Nat /\ disk'[i].term \in Nat
    BY SMTT(30), MaxTermAssumption DEF Safe, TypeInv, TypeOK, DiskType, Term
  <2>2. ClusterStep
    BY NumbersCount, EveryStep
  <2>3. Follows(disk[i], disk'[i])
    BY SMTT(30), <2>2, DiskFollows DEF Safe
  <2> QED BY SMTT(30), <2>1, <2>3 DEF Follows
<1> QED BY <1>1, AlwaysSafe, PTL DEF Spec, DurableVoteFinal

(* Two logs with the same term at an index are equal up to that index       *)
(* (checks.logMatchingViolation), in every cluster and after every crash:   *)
(* handleAppendEntries takes a batch only where the term before it agrees.  *)
THEOREM LogsMatch == Spec => []LogMatching
BY SafeMatch, AlwaysSafe, PTL

(* Between two batches the disk, with the pending cut taken, is exactly the *)
(* persisted part of the log, and holds the hard state unless it is dirty   *)
(* (what drain checks as ReadyEntriesNotContiguous and DiskDiverged).       *)
THEOREM DiskIsMirror == Spec => []DiskMirrorsNode
BY SafeMirrors, AlwaysSafe, PTL

(* What a leader believes a server has is on that server's disk, as long as *)
(* that server is in the leader's term: onAppendResp counts an answer that  *)
(* the driver sent after the write, and no crash takes the entries back.    *)
THEOREM MatchesAreDurable == Spec => []MatchIsDurable
BY SafeDurable, AlwaysSafe, PTL

(* No server speaks for a leader there is not, and nothing an honest peer   *)
(* sends is ever dropped as malformed: becomeFollower clears a scheduled    *)
(* broadcast, the hint is taken only from a leader's message, and every     *)
(* slice sendAppend builds passes decode.                                   *)
THEOREM ClaimsAreTrue == Spec => []NoFalseClaims
BY SafeClaims, AlwaysSafe, PTL

(* A leader only ever appends to its log (checks.appendOnlyHolds): nothing  *)
(* it receives under its own term makes it truncate.                        *)
THEOREM LeadersAppend == Spec => LeaderAppendOnly
<1> DEFINE Appends(i) ==
      (node[i].role = "leader" /\ node'[i].role = "leader")
        => /\ LastIndex(node[i].log) <= LastIndex(node'[i].log)
           /\ SubSeq(node'[i].log, 1, LastIndex(node[i].log)) = node[i].log
<1>1. Safe /\ Safe' /\ [Next]_vars => [\A i \in Server : Appends(i)]_vars
  <2> SUFFICES ASSUME Safe, Safe', [Next]_vars, NEW i \in Server PROVE Appends(i)
    BY SMTT(30)
  <2>1. ClusterStep
    BY NumbersCount, EveryStep
  <2> QED BY SMTT(30), <2>1, LeaderAppends
<1> QED BY <1>1, AlwaysSafe, PTL DEF Spec, LeaderAppendOnly

(* What is applied in some term is in the log of every leader of that term  *)
(* or a later one (checks.leaderCompletenessViolation): who has it votes    *)
(* only for those who have it.                                              *)
THEOREM LeadersComplete == Spec => []LeaderCompleteness
BY SafeComplete, AlwaysCommitted, PTL

(* What is safe about commitment: no two servers, and no two lives of one   *)
(* server, apply different entries at an index (SafetyChecker.recordApply); *)
(* applied, commit and stable stay in order; and an entry any server knows  *)
(* to be committed is on the disks of a majority.                           *)
THEOREM CommitsSafe == Spec => []CommitSafety
<1>1. Safe /\ CommitInv => CommitSafety
  BY SMTT(30), SafeMachines, SafeIndices, SafeDisks DEF CommitSafety
<1> QED BY <1>1, AlwaysCommitted, PTL

(* Node.init accepts the disk of every crash, at every point of a batch:    *)
(* the log is in order, none of it is newer than the hard state, and it     *)
(* still holds everything the state machine has applied.                    *)
THEOREM DisksRestorable == Spec => []DiskRestorable
<1>1. Safe /\ CommitInv => DiskRestorable
  <2> SUFFICES ASSUME Safe, CommitInv, NEW i \in Server, NEW d \in CrashImages(disk[i], node[i])
               PROVE  ValidRestore(d, node[i].applied)
    BY DEF DiskRestorable
  <2>1. Bounded(node[i]) /\ disk[i] \in DiskType /\ Mirrors(disk[i], node[i])
    BY SMTT(30), ElectionTypes DEF Safe, LogInv, DiskInv
  <2>2. d \in DiskType /\ Torn(disk[i], node[i], d)
    BY SMTT(30), <2>1, CrashImagesType, CrashImagesLog
  <2>3. node[i].applied <= node[i].stable
    BY DEF CommitInv, ServerInv
  <2> QED BY SMTT(30), <2>2, <2>3, TornRestorable
<1> QED BY <1>1, AlwaysCommitted, PTL

=============================================================================
