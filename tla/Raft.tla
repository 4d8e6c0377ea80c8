-------------------------------- MODULE Raft --------------------------------
(***************************************************************************)
(* A cluster of Raft servers: the driver contract of node.zig as its two   *)
(* drivers implement it (server.zig's simulated cluster and the raft-kv    *)
(* application), over a network that loses, duplicates and reorders        *)
(* messages and servers that crash at any point, in the middle of writing  *)
(* a batch to disk included.                                               *)
(***************************************************************************)
EXTENDS RaftNode, RaftCluster

CONSTANTS
  DrainEveryEvent,  \* RaftConfig.drain_every_event
  Links,            \* bound: the pairs of servers whose link is up
  Elections,        \* bound: the <<term, server>> elections that may start
  MaxLog            \* bound: no command is proposed to a log this long

ASSUME BoundsAssumption ==
  /\ DrainEveryEvent \in BOOLEAN
  /\ Links \subseteq SUBSET Server
  /\ Elections \subseteq Nat \X Server
  /\ MaxLog \in Nat
  /\ MaxHeartbeats \in Nat
  /\ MaxRestarts \in Nat
  /\ MaxDuplicates \in Nat

vars == <<node, disk, net, heartbeats, restarts, duplicates, leaders, applied_log, commit_terms>>

(* Drained after every event, no input arrives while a batch is pending;    *)
(* otherwise a node may take any number of inputs between two readys.       *)
AcceptsInput == DrainEveryEvent => \A j \in Server : ~HasReady(node[j])

-----------------------------------------------------------------------------
(* Inputs *)

Input(i, n) ==
  /\ AcceptsInput
  /\ Update(i, n)
  /\ UNCHANGED <<disk, restarts, applied_log, commit_terms>>

Heartbeat(i) ==
  /\ node[i].role = "leader"
  /\ heartbeats + duplicates < MaxHeartbeats
  /\ heartbeats' = heartbeats + 1
  /\ Input(i, TickFires(i, node[i]))
  /\ UNCHANGED <<net, duplicates>>

ElectionTimeout(i) ==
  /\ node[i].role # "leader"
  /\ <<node[i].term + 1, i>> \in Elections
  /\ Input(i, TickFires(i, node[i]))
  /\ UNCHANGED <<net, heartbeats, duplicates>>

ClientRequest(i, v) ==
  /\ node[i].role = "leader"
  /\ LastIndex(node[i].log) < MaxLog
  /\ Input(i, Propose(node[i], v))
  /\ UNCHANGED <<net, heartbeats, duplicates>>

Deliver(m) ==
  /\ Input(m.to, StepBytes(m.to, node[m.to], m))
  /\ net' = net \ {m}
  /\ UNCHANGED <<heartbeats, duplicates>>

(* A delivery that leaves a copy of the message in flight. *)
DeliverDuplicate(m) ==
  /\ heartbeats + duplicates < MaxDuplicates
  /\ duplicates' = duplicates + 1
  /\ Input(m.to, StepBytes(m.to, node[m.to], m))
  /\ UNCHANGED <<net, heartbeats>>

-----------------------------------------------------------------------------
(* The drain loop: persist, send, apply, advance *)

(* Mutant: the vote is not written. *)
TermOnlySaveHardState(d, n) ==
  IF n.hs_dirty THEN [d EXCEPT !.term = n.term] ELSE d

SaveHardState(d, n) ==
  IF n.hs_dirty THEN [d EXCEPT !.term = n.term, !.voted_for = n.voted_for] ELSE d

SaveTruncation(d, n) ==
  IF n.truncated # None THEN [d EXCEPT !.log = Keep(@, n.truncated)] ELSE d

SaveEntries(d, n) ==
  [d EXCEPT !.log = @ \o SubSeq(n.log, n.stable + 1, LastIndex(n.log))]

Persist(d, n) == SaveEntries(SaveTruncation(SaveHardState(d, n), n), n)

(* One turn of the drain loop; the loop is the repetition of this action    *)
(* while hasReady holds.                                                    *)
Drain(i) ==
  LET n == Ready(i, node[i])
  IN  /\ HasReady(node[i])
      /\ disk' = [disk EXCEPT ![i] = Persist(@, n)]
      /\ net' = net \union { m \in n.msgs : {m.from, m.to} \in Links }
      /\ applied_log' = applied_log \union Committed(n)
      /\ commit_terms' = commit_terms \o
           [k \in 1 .. Max({0, ReadyCommit(n) - Len(commit_terms)}) |-> n.term]
      /\ Update(i, Advance(i, n))
      /\ UNCHANGED <<heartbeats, restarts, duplicates>>

-----------------------------------------------------------------------------
(* Crash and restart *)

(* Mutant: the entries are written before the hard state. *)
EntriesFirstCrashImages(d, n) ==
  LET cut == SaveTruncation(d, n)
  IN  { [cut EXCEPT !.log = @ \o SubSeq(n.log, n.stable + 1, k)]
          : k \in n.stable .. LastIndex(n.log) }

(* The disks a crash can leave: raft-kv writes the hard state, deletes cut  *)
(* entries one by one from the end, then puts the new ones one by one, and  *)
(* each of these writes is durable by itself.                               *)
CrashImages(d, n) ==
  LET hs  == SaveHardState(d, n)
      cut == SaveTruncation(hs, n)
  IN  {d}
      \union { [hs EXCEPT !.log = Keep(@, k)] : k \in Len(cut.log) .. Len(d.log) }
      \union { [cut EXCEPT !.log = @ \o SubSeq(n.log, n.stable + 1, k)]
                 : k \in n.stable .. LastIndex(n.log) }

(* A server crashes and starts again from its disk.  The state machine is   *)
(* rebuilt from the log (applied 0, both drivers) or is itself durable      *)
(* (Restore.applied).                                                       *)
Restart(i) ==
  /\ restarts < MaxRestarts
  /\ restarts' = restarts + 1
  /\ \E d \in CrashImages(disk[i], node[i]), a \in {0, node[i].applied} :
       /\ ValidRestore(d, a)
       /\ disk' = [disk EXCEPT ![i] = d]
       /\ Update(i, InitNode(d, a))
  /\ UNCHANGED <<net, heartbeats, duplicates, applied_log, commit_terms>>

(* A step of the running cluster that is neither a crash nor a request. *)
ServerStep ==
  \/ \E i \in Server : Heartbeat(i)
  \/ \E i \in Server : ElectionTimeout(i)
  \/ \E m \in net : Deliver(m)
  \/ \E m \in net : DeliverDuplicate(m)
  \/ \E i \in Server : Drain(i)

Next ==
  \/ ServerStep
  \/ \E i \in Server, v \in Value : ClientRequest(i, v)
  \/ \E i \in Server : Restart(i)

Spec == Init /\ [][Next]_vars

(* What the machines do by themselves: drivers drain, messages in flight    *)
(* arrive, election timers run out.                                         *)
Progress ==
  \/ \E i \in Server : Drain(i) \/ ElectionTimeout(i)
  \/ \E m \in net : Deliver(m)

FairSpec == Spec /\ WF_vars(Progress)

-----------------------------------------------------------------------------
(* Safety: the five properties of checks.zig *)

(* A leader only ever appends to its log (checks.appendOnlyHolds). *)
LeaderAppendOnly ==
  [][\A i \in Server :
       (node[i].role = "leader" /\ node'[i].role = "leader")
         => /\ LastIndex(node[i].log) <= LastIndex(node'[i].log)
            /\ SubSeq(node'[i].log, 1, LastIndex(node[i].log)) = node[i].log]_vars

-----------------------------------------------------------------------------
(* Safety: the contract between a node, its disk and its peers *)

(* Whatever write a crash interrupts, the disk it leaves is one Node.init   *)
(* accepts, also when the state machine is durable and the entries it has   *)
(* applied must be there: no entry is newer than the term on disk, and no   *)
(* applied entry is ever cut (the persist order the Ready comment demands). *)
DiskRestorable ==
  \A i \in Server : \A d \in CrashImages(disk[i], node[i]) :
    ValidRestore(d, node[i].applied)

(* Between two batches the disk, with the pending cut taken, is exactly the *)
(* part of the log that stable says is persisted, and the hard state unless *)
(* it is marked dirty: what drain checks as ReadyEntriesNotContiguous and   *)
(* DiskDiverged.                                                            *)
DiskMirrorsNode ==
  \A i \in Server :
    /\ SaveTruncation(disk[i], node[i]).log = SubSeq(node[i].log, 1, node[i].stable)
    /\ ~node[i].hs_dirty => /\ disk[i].term = node[i].term
                            /\ disk[i].voted_for = node[i].voted_for

(* A term on disk never goes back, and a vote on disk is never exchanged    *)
(* for another in its term: a vote once promised survives every crash.      *)
DurableVoteFinal ==
  [][\A i \in Server :
       /\ disk'[i].term >= disk[i].term
       /\ (disk'[i].term = disk[i].term /\ disk[i].voted_for # None)
            => disk'[i].voted_for = disk[i].voted_for]_vars

(* Once elections, losses and crashes have ended, a leader brings every     *)
(* peer it can reach, and that follows it, to its own log and its own       *)
(* commit index, however their logs conflicted, and when these are a        *)
(* majority it commits all of its log: the walk back over next always ends  *)
(* at a point of agreement and goes on from there, and no heartbeat is      *)
(* needed for followers to learn that an entry is committed.                *)
LeaderRepairsPeers ==
  <>[](\A i \in Server : node[i].role = "leader" =>
         LET following == { j \in Server : (j = i \/ {i, j} \in Links)
                                           /\ node[j].term = node[i].term }
         IN  /\ \A j \in following : /\ node[j].log = node[i].log
                                     /\ node[j].applied = node[i].commit
             /\ HasMajority(Server, following)
                  => node[i].commit = LastIndex(node[i].log))
=============================================================================
