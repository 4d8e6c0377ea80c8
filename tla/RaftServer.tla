----------------------------- MODULE RaftServer -----------------------------
(*****************************************************************************)
(* What a Raft server is made of: the log and its primitives (log.zig), the *)
(* messages and what the decoder accepts of them (message.zig), the node's  *)
(* record and what it starts from (node.zig), and what a majority is        *)
(* (safety.zig).                                                            *)
(*                                                                          *)
(* A log is a sequence of entries [term, val]; its indices are 1-based and  *)
(* dense, exactly as in log.zig.  An entry's kind and bytes are one value:  *)
(* Noop for the entry a fresh leader appends, a member of Value for a       *)
(* client command.                                                          *)
(*****************************************************************************)
EXTENDS Naturals, Sequences, FiniteSets, FiniteSetsExt

CONSTANTS
  Server,     \* the voters, node ids 0 .. cluster_size - 1
  None,       \* types.no_vote, and the null of an optional
  Value,      \* client commands
  Noop,       \* the entry a fresh leader appends
  MaxTerm,    \* types.max_term, the ceiling campaign refuses to pass
  MaxAppend   \* Config.max_append_entries

ASSUME ServerAssumption == IsFiniteSet(Server) /\ Server # {}

ASSUME NoneAssumption == None \notin Server /\ None \notin Nat

ASSUME ValueAssumption == Noop \notin Value

ASSUME MaxTermAssumption == MaxTerm \in Nat

ASSUME MaxAppendAssumption == MaxAppend \in Nat \ {0}

-----------------------------------------------------------------------------
(* Types *)

Term == 0 .. MaxTerm

Entry == [term : Term, val : Value \union {Noop}]

Message ==
  [type : {"vote_req"}, from : Server, to : Server, term : Term,
   last_log_index : Nat, last_log_term : Term]
  \union
  [type : {"vote_resp"}, from : Server, to : Server, term : Term, granted : BOOLEAN]
  \union
  [type : {"append_req"}, from : Server, to : Server, term : Term,
   prev_log_index : Nat, prev_log_term : Term, leader_commit : Nat,
   entries : Seq(Entry)]
  \union
  [type : {"append_resp"}, from : Server, to : Server, term : Term,
   success : BOOLEAN, index : Nat]

NodeType ==
  [term : Term, voted_for : Server \union {None}, log : Seq(Entry),
   role : {"follower", "candidate", "leader"}, leader : Server \union {None},
   commit : Nat, applied : Nat, stable : Nat,
   votes : SUBSET Server, next : [Server -> Nat], match : [Server -> Nat],
   hs_dirty : BOOLEAN, truncated : Nat \union {None}, bcast_pending : BOOLEAN,
   msgs : SUBSET Message, malformed_dropped : Nat]

DiskType == [term : Term, voted_for : Server \union {None}, log : Seq(Entry)]

-----------------------------------------------------------------------------
(* log.zig *)

LastIndex(log) == Len(log)

LastTerm(log) == IF log = <<>> THEN 0 ELSE log[Len(log)].term

(* What RequestVote compares: Log.info. *)
Info(log) == [last_index |-> LastIndex(log), last_term |-> LastTerm(log)]

(* Log.termAt for an index of the log: index 0 carries the sentinel term 0. *)
(* The null past the end is the callers' test  index <= LastIndex(log).     *)
TermAt(log, index) == IF index = 0 THEN 0 ELSE log[index].term

-----------------------------------------------------------------------------
(* safety.zig: what elections and commitment compare and count *)

(* Mutant: the index decides before the term does. *)
IndexOnlyUpToDate(cand, mine) == cand.last_index >= mine.last_index

(* Term first, the index only as the tie-break. *)
LogIsAtLeastAsUpToDate(cand, mine) ==
  IF cand.last_term # mine.last_term
  THEN cand.last_term > mine.last_term
  ELSE cand.last_index >= mine.last_index

(* Votes or replicas needed out of a configuration. *)
Needed(config) == Cardinality(config) \div 2 + 1

Replicas(match_index, n) == { s \in Server : match_index[s] >= n }

HasMajority(config, granted) == Cardinality(config \cap granted) >= Needed(config)

-----------------------------------------------------------------------------
(* What is durable, and starting from it *)

EmptyDisk == [term |-> 0, voted_for |-> None, log |-> <<>>]

(* Node.validateRestore: the disk images a node agrees to start from. *)
ValidRestore(disk, applied) ==
  /\ disk.term <= MaxTerm
  /\ disk.voted_for \in Server \union {None}
  /\ applied <= Len(disk.log)
  /\ \A k \in 1 .. Len(disk.log) :
       /\ disk.log[k].term <= disk.term
       /\ k > 1 => disk.log[k].term >= disk.log[k-1].term

(* Node.init from a Restore with that many entries already applied. *)
InitNode(disk, applied) ==
  [term |-> disk.term, voted_for |-> disk.voted_for, log |-> disk.log,
   role |-> "follower", leader |-> None,
   commit |-> applied, applied |-> applied, stable |-> Len(disk.log),
   votes |-> {}, next |-> [s \in Server |-> 1], match |-> [s \in Server |-> 0],
   hs_dirty |-> FALSE, truncated |-> None, bcast_pending |-> FALSE,
   msgs |-> {}, malformed_dropped |-> 0]

-----------------------------------------------------------------------------
(* What is sent and handed out *)

Peers(i) == Server \ {i}

(* What Message.decode accepts of the frames an encoder can produce: terms  *)
(* within the ceiling, a request's term started, a batch no larger than the *)
(* buffer whose terms fit its previous entry and its leader.                *)
Decodes(m) ==
  /\ m.term <= MaxTerm
  /\ m.type = "vote_req" => m.term # 0 /\ m.last_log_term <= MaxTerm
  /\ m.type = "append_req" =>
       /\ m.term # 0
       /\ Len(m.entries) <= MaxAppend
       /\ m.prev_log_term <= m.term
       /\ m.prev_log_index = 0 <=> m.prev_log_term = 0
       /\ \A k \in 1 .. Len(m.entries) :
            /\ m.entries[k].term # 0
            /\ m.entries[k].term <= m.term
            /\ m.entries[k].term >= IF k = 1 THEN m.prev_log_term ELSE m.entries[k-1].term

(* The last index of Ready.committed. *)
ReadyCommit(n) == Max({n.applied, Min({n.commit, LastIndex(n.log)})})

(* The entries Ready.committed hands out. *)
Committed(n) ==
  { [index |-> k, entry |-> n.log[k]] : k \in n.applied + 1 .. ReadyCommit(n) }
=============================================================================
