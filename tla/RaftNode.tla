------------------------------ MODULE RaftNode ------------------------------
(***************************************************************************)
(* One Raft server: node.zig, with the message decoder of message.zig.     *)
(*                                                                         *)
(* node.zig is a deterministic state machine: an input (tick, propose,     *)
(* step) changes the node, ready hands out a batch of work, advance        *)
(* confirms it.  Here a node is a record with the fields of node.zig's     *)
(* Node, and every function of node.zig is an operator that takes the      *)
(* server i and its record n and returns the record afterwards.            *)
(*                                                                         *)
(* Timers are abstracted to "may fire now".  The entry bytes, the arena    *)
(* and the timeouts' jitter are not modelled.                              *)
(***************************************************************************)
EXTENDS RaftKernel

Send(n, ms) == [n EXCEPT !.msgs = @ \union ms]

-----------------------------------------------------------------------------
(* Replication, sending side *)

(* The AppendEntries for one peer: what follows next[to] - 1, at most       *)
(* MaxAppend entries.                                                       *)
AppendReqTo(i, n, to) ==
  LET prev  == n.next[to] - 1
      count == Min({LastIndex(n.log) - prev, MaxAppend})
  IN  [type           |-> "append_req", from |-> i, to |-> to,
       term           |-> n.term,
       prev_log_index |-> prev,
       prev_log_term  |-> TermAt(n.log, prev),
       leader_commit  |-> n.commit,
       entries        |-> SubSeq(n.log, prev + 1, prev + count)]

SendAppend(i, n, to) == Send(n, {AppendReqTo(i, n, to)})

BcastAppend(i, n) ==
  Send([n EXCEPT !.bcast_pending = FALSE], {AppendReqTo(i, n, p) : p \in Peers(i)})

AppendLocal(n, val) == [n EXCEPT !.log = Append(@, [term |-> n.term, val |-> val])]

(* Mutant: the cut does not remember that the disk holds what was cut. *)
ForgetfulTruncateAfter(n, keep) ==
  IF keep >= LastIndex(n.log) THEN n
  ELSE [n EXCEPT !.log = Keep(@, keep), !.stable = Min({@, keep})]

(* Cut the log; if the disk may hold some of what was cut, remember the     *)
(* lowest such cut for the next ready.                                      *)
TruncateAfter(n, keep) ==
  IF keep >= LastIndex(n.log) THEN n
  ELSE LET cut == [n EXCEPT !.log = Keep(@, keep)]
       IN  IF keep < n.stable
           THEN [cut EXCEPT !.stable = keep,
                            !.truncated = IF @ = None THEN keep ELSE Min({@, keep})]
           ELSE cut

MaybeCommit(n) ==
  LET nc == LeaderCommitIndex(n.term, n.commit, n.match, n.log)
  IN  IF nc > n.commit THEN [n EXCEPT !.commit = nc, !.bcast_pending = TRUE] ELSE n

-----------------------------------------------------------------------------
(* Roles *)

(* Mutant: a scheduled broadcast outlives the leadership. *)
BroadcastKeepingBecomeFollower(n, term) ==
  LET m == IF term > n.term
           THEN [n EXCEPT !.term = term, !.voted_for = None,
                          !.hs_dirty = TRUE, !.leader = None]
           ELSE n
  IN  [m EXCEPT !.role = "follower"]

(* Adopt a higher term, clearing the vote, and stop being leader or         *)
(* candidate; a broadcast scheduled as leader is dropped.                   *)
BecomeFollower(n, term) ==
  LET m == IF term > n.term
           THEN [n EXCEPT !.term = term, !.voted_for = None,
                          !.hs_dirty = TRUE, !.leader = None]
           ELSE n
  IN  [m EXCEPT !.role = "follower", !.bcast_pending = FALSE]

(* next starts at the no-op that is appended here, so the first             *)
(* AppendEntries carries it.  Only the durable part of the own log counts.  *)
BecomeLeader(i, n) ==
  LET m == [n EXCEPT !.role = "leader", !.leader = i,
                     !.next = [s \in Server |-> LastIndex(n.log) + 1],
                     !.match = [s \in Server |-> IF s = i THEN n.stable ELSE 0]]
  IN  BcastAppend(i, AppendLocal(m, Noop))

Elected(n) == Cardinality(n.votes) >= Needed(Server)

(* Mutant: no ceiling. *)
UnboundedCampaign(i, n) ==
  LET c == [n EXCEPT !.term = @ + 1, !.voted_for = i, !.hs_dirty = TRUE,
                     !.role = "candidate", !.leader = None, !.votes = {i}]
  IN  IF Elected(c) THEN BecomeLeader(i, c)
      ELSE Send(c, { [type |-> "vote_req", from |-> i, to |-> p, term |-> c.term,
                      last_log_index |-> LastIndex(c.log),
                      last_log_term  |-> LastTerm(c.log)] : p \in Peers(i) })

(* An election timeout.  At the term ceiling only the timer is reset. *)
Campaign(i, n) ==
  IF n.term >= MaxTerm THEN n
  ELSE LET c == [n EXCEPT !.term = @ + 1, !.voted_for = i, !.hs_dirty = TRUE,
                          !.role = "candidate", !.leader = None, !.votes = {i}]
       IN  IF Elected(c) THEN BecomeLeader(i, c)
           ELSE Send(c, { [type |-> "vote_req", from |-> i, to |-> p, term |-> c.term,
                           last_log_index |-> LastIndex(c.log),
                           last_log_term  |-> LastTerm(c.log)] : p \in Peers(i) })

-----------------------------------------------------------------------------
(* Inputs *)

(* tick, when the timer it counts has run out. *)
TickFires(i, n) == IF n.role = "leader" THEN BcastAppend(i, n) ELSE Campaign(i, n)

(* propose, by a leader; anyone else answers NotLeader. *)
Propose(n, val) == [AppendLocal(n, val) EXCEPT !.bcast_pending = TRUE]

OnVoteReq(i, n, m) ==
  LET d == HandleRequestVote(n.term, n.voted_for, Info(n.log), m)
      f == IF d.term_advanced THEN BecomeFollower(n, d.new_term) ELSE n
      g == IF d.grant /\ f.voted_for # m.from
           THEN [f EXCEPT !.voted_for = m.from, !.hs_dirty = TRUE]
           ELSE f
  IN  Send(g, {[type |-> "vote_resp", from |-> i, to |-> m.from,
                term |-> g.term, granted |-> d.grant]})

OnVoteResp(i, n, m) ==
  LET obs == ObserveTerm(n.term, m.term)
  IN  IF obs.term_advanced THEN BecomeFollower(n, obs.new_term)
      ELSE IF n.role # "candidate" \/ m.term # n.term \/ ~m.granted THEN n
      ELSE LET v == [n EXCEPT !.votes = @ \union {m.from}]
           IN  IF Elected(v) THEN BecomeLeader(i, v) ELSE v

OnAppendReq(i, n, m) ==
  LET out == HandleAppendEntries(n.term, n.log, n.commit, m)
      f   == IF m.term >= n.term
             THEN [BecomeFollower(n, m.term) EXCEPT !.leader = m.from]
             ELSE n
      cut == TruncateAfter(f, out.truncate_to)
      new == SubSeq(m.entries, out.append_from, Len(m.entries))
      g   == IF out.success
             THEN [cut EXCEPT !.log = @ \o new,
                              !.commit = Max({@, out.new_commit_index})]
             ELSE f
  IN  Send(g, {[type |-> "append_resp", from |-> i, to |-> m.from, term |-> g.term,
                success |-> out.success,
                index |-> IF out.success THEN out.match_index ELSE LastIndex(g.log)]})

(* A peer confirmed its log up to m.index. *)
OnAppendSuccess(i, n, m) ==
  IF m.index > LastIndex(n.log) THEN [n EXCEPT !.malformed_dropped = @ + 1]
  ELSE LET progressed == m.index > n.match[m.from]
           match == Max({n.match[m.from], m.index})
           next  == Max({n.next[m.from], match + 1})
           c     == MaybeCommit([n EXCEPT !.match[m.from] = match, !.next[m.from] = next])
       IN  IF progressed /\ next <= LastIndex(n.log) THEN SendAppend(i, c, m.from) ELSE c

(* Mutant: a rejection walks next back below what the peer confirmed. *)
UnboundedOnAppendFailure(i, n, m) ==
  LET next == Max({1, Min({n.next[m.from] - 1, m.index + 1})})
      w    == [n EXCEPT !.next[m.from] = next]
  IN  IF next < n.next[m.from] THEN SendAppend(i, w, m.from) ELSE w

(* Mutant: the retry is left to the next heartbeat. *)
WaitingOnAppendFailure(i, n, m) ==
  LET lowered == Min({n.next[m.from] - 1, m.index + 1})
  IN  [n EXCEPT !.next[m.from] = Max({n.match[m.from] + 1, lowered})]

(* A peer rejected: walk next back, past its end if its hint says so, but   *)
(* never to or below what it has confirmed.                                 *)
OnAppendFailure(i, n, m) ==
  LET lowered == Min({n.next[m.from] - 1, m.index + 1})
      next    == Max({n.match[m.from] + 1, lowered})
      w       == [n EXCEPT !.next[m.from] = next]
  IN  IF next < n.next[m.from] THEN SendAppend(i, w, m.from) ELSE w

OnAppendResp(i, n, m) ==
  LET obs == ObserveTerm(n.term, m.term)
  IN  IF obs.term_advanced THEN BecomeFollower(n, obs.new_term)
      ELSE IF n.role # "leader" \/ m.term # n.term THEN n
      ELSE IF m.success THEN OnAppendSuccess(i, n, m)
      ELSE OnAppendFailure(i, n, m)

(* stepBytes and step: decode, check the envelope, dispatch on the type. *)
StepBytes(i, n, m) ==
  IF ~Decodes(m) \/ m.to # i \/ m.from \notin Peers(i)
  THEN [n EXCEPT !.malformed_dropped = @ + 1]
  ELSE CASE m.type = "vote_req"    -> OnVoteReq(i, n, m)
         [] m.type = "vote_resp"   -> OnVoteResp(i, n, m)
         [] m.type = "append_req"  -> OnAppendReq(i, n, m)
         [] m.type = "append_resp" -> OnAppendResp(i, n, m)

-----------------------------------------------------------------------------
(* Output *)

HasReady(n) ==
  \/ n.hs_dirty
  \/ n.truncated # None
  \/ n.bcast_pending
  \/ n.msgs # {}
  \/ LastIndex(n.log) > n.stable
  \/ n.commit > n.applied

(* What ready does to the node: a pending broadcast is put into msgs (only  *)
(* a leader broadcasts).  The batch itself is read off the result.          *)
Ready(i, n) ==
  IF ~n.bcast_pending THEN n
  ELSE IF n.role = "leader" THEN BcastAppend(i, n)
  ELSE [n EXCEPT !.bcast_pending = FALSE]

(* Everything ready returned is persisted, sent and applied. *)
Advance(i, n) ==
  LET a == [n EXCEPT !.hs_dirty = FALSE, !.truncated = None, !.msgs = {},
                     !.stable = LastIndex(n.log), !.applied = ReadyCommit(n)]
  IN  IF n.role = "leader" THEN MaybeCommit([a EXCEPT !.match[i] = a.stable]) ELSE a
=============================================================================
