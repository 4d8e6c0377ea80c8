----------------------------- MODULE RaftKernel -----------------------------
(***************************************************************************)
(* The pure decision kernel of modules/raft: safety.zig (the vote rule,    *)
(* the AppendEntries receiver, the leader commit rule, the membership      *)
(* predicate) and the log primitives of log.zig it is built on.            *)
(***************************************************************************)
EXTENDS RaftServer

-----------------------------------------------------------------------------
(* log.zig *)

Keep(log, index) ==
  IF index >= Len(log) THEN log ELSE SubSeq(log, 1, index)

-----------------------------------------------------------------------------
(* safety.zig: elections *)

(* Mutant: a second candidate of the same term also gets the vote. *)
HandleRequestVoteTwice(current_term, voted_for, my_log, req) ==
  IF req.term < current_term
  THEN [grant |-> FALSE, term_advanced |-> FALSE, new_term |-> current_term]
  ELSE [grant |-> LogIsAtLeastAsUpToDate([last_index |-> req.last_log_index,
                                          last_term |-> req.last_log_term],
                                         my_log),
        term_advanced |-> req.term > current_term,
        new_term |-> req.term]

(* The RequestVote receiver.  VoteDecision.voted_for is the candidate       *)
(* whenever the vote is granted, so the callers read it off the request.    *)
HandleRequestVote(current_term, voted_for, my_log, req) ==
  IF req.term < current_term
  THEN [grant |-> FALSE, term_advanced |-> FALSE, new_term |-> current_term]
  ELSE LET term_advanced  == req.term > current_term
           effective_vote == IF term_advanced THEN None ELSE voted_for
           may_vote       == effective_vote \in {None, req.from}
           cand           == [last_index |-> req.last_log_index,
                              last_term  |-> req.last_log_term]
       IN  [grant         |-> may_vote /\ LogIsAtLeastAsUpToDate(cand, my_log),
            term_advanced |-> term_advanced,
            new_term      |-> req.term]

(* The universal term rule on the response paths. *)
ObserveTerm(current_term, msg_term) ==
  [term_advanced |-> msg_term > current_term,
   new_term      |-> IF msg_term > current_term THEN msg_term ELSE current_term]

-----------------------------------------------------------------------------
(* safety.zig: replication *)

(* Mutant: an entry of any term at prev_log_index will do. *)
AnyTermPrevMatches(log, req) == req.prev_log_index <= LastIndex(log)

(* The consistency check: our log has an entry at prev_log_index and its    *)
(* term is prev_log_term.                                                   *)
PrevMatches(log, req) ==
  /\ req.prev_log_index <= LastIndex(log)
  /\ TermAt(log, req.prev_log_index) = req.prev_log_term

(* Positions k of the batch whose entry our log does not hold: it ends      *)
(* before the index, or has another term there.                             *)
Unmatched(log, req) ==
  { k \in 1 .. Len(req.entries) :
      LET idx == req.prev_log_index + k
      IN  idx > LastIndex(log) \/ TermAt(log, idx) # req.entries[k].term }

(* Mutant: the commit index and the acknowledgement are capped by our raw   *)
(* last index instead of by the last entry this request verified.           *)
RawLastHandleAppendEntries(current_term, log, commit_index, req) ==
  IF req.term < current_term \/ ~PrevMatches(log, req)
  THEN [success |-> FALSE]
  ELSE LET unmatched == Unmatched(log, req)
           from      == IF unmatched = {} THEN Len(req.entries) + 1 ELSE Min(unmatched)
           last_new  == Max({LastIndex(log), req.prev_log_index + Len(req.entries)})
       IN  [success          |-> TRUE,
            truncate_to      |-> Min({LastIndex(log), req.prev_log_index + from - 1}),
            append_from      |-> from,
            new_commit_index |-> Max({commit_index, Min({req.leader_commit, last_new})}),
            match_index      |-> last_new]

(* Mutant: a stale leader is not refused. *)
StaleHandleAppendEntries(current_term, log, commit_index, req) ==
  IF ~PrevMatches(log, req)
  THEN [success |-> FALSE]
  ELSE LET unmatched == Unmatched(log, req)
           from      == IF unmatched = {} THEN Len(req.entries) + 1 ELSE Min(unmatched)
           last_new  == req.prev_log_index + Len(req.entries)
       IN  [success          |-> TRUE,
            truncate_to      |-> Min({LastIndex(log), req.prev_log_index + from - 1}),
            append_from      |-> from,
            new_commit_index |-> Max({commit_index, Min({req.leader_commit, last_new})}),
            match_index      |-> last_new]

(* The AppendEntries receiver: refuse a stale leader, check the previous    *)
(* entry, cut the log only at the first conflict, skip the entries already  *)
(* held, and cap the commit index at the last entry of the batch.           *)
(* append_from is the 1-based position of the first entry to append.        *)
HandleAppendEntries(current_term, log, commit_index, req) ==
  IF req.term < current_term \/ ~PrevMatches(log, req)
  THEN [success |-> FALSE]
  ELSE LET unmatched == Unmatched(log, req)
           from      == IF unmatched = {} THEN Len(req.entries) + 1 ELSE Min(unmatched)
           conflict  == unmatched # {} /\ req.prev_log_index + from <= LastIndex(log)
           last_new  == req.prev_log_index + Len(req.entries)
       IN  [success          |-> TRUE,
            truncate_to      |-> IF conflict THEN req.prev_log_index + from - 1
                                             ELSE LastIndex(log),
            append_from      |-> from,
            new_commit_index |-> Max({commit_index, Min({req.leader_commit, last_new})}),
            match_index      |-> last_new]

-----------------------------------------------------------------------------
(* safety.zig: commitment and membership *)

(* Mutant: any entry on a majority commits, whatever its term (Figure 8). *)
AnyTermCommitIndex(current_term, commit_index, match_index, log) ==
  Max({commit_index} \union
      { n \in commit_index + 1 .. LastIndex(log) :
          Cardinality(Replicas(match_index, n)) >= Needed(Server) })

(* The highest index a leader may commit: replicated on a majority and of   *)
(* its own term.  The scan walks down from the last index, passes over      *)
(* newer terms and stops for good at the first older one.                   *)
LeaderCommitIndex(current_term, commit_index, match_index, log) ==
  Max({commit_index} \union
      { n \in commit_index + 1 .. LastIndex(log) :
          /\ TermAt(log, n) = current_term
          /\ \A k \in n .. LastIndex(log) : TermAt(log, k) >= current_term
          /\ Cardinality(Replicas(match_index, n)) >= Needed(Server) })

(* Joint consensus: an independent majority in each configuration. *)
JointMajority(old_ids, new_ids, granted) ==
  HasMajority(old_ids, granted) /\ HasMajority(new_ids, granted)
=============================================================================
