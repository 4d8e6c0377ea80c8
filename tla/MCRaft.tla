------------------------------- MODULE MCRaft -------------------------------
(* Model-checking instances of Raft with three servers. *)
EXTENDS RaftRefinement, TLC

CONSTANTS s1, s2, s3

(* s1 and s3 are partitioned from each other; s2 hears both. *)
Line == { {s1, s2}, {s2, s3} }

(* Figure 8 of the Raft paper: s1 and s3 lead in turn, over s2's vote. *)
AlternatingElections == { <<1, s1>>, <<1, s3>>, <<2, s3>>, <<3, s1>>, <<4, s3>> }

(* next and match are read by leaders and votes by candidates only, and are *)
(* set afresh on becoming either: left-overs of earlier roles do not make   *)
(* states different.                                                        *)
LiveNode(n) ==
  [n EXCEPT !.votes = IF n.role = "candidate" THEN @ ELSE {},
            !.next  = IF n.role = "leader" THEN @ ELSE <<>>,
            !.match = IF n.role = "leader" THEN @ ELSE <<>>]

LiveView ==
  <<[i \in Server |-> LiveNode(node[i])], disk, net, heartbeats, restarts,
    duplicates, leaders, applied_log, commit_terms>>
=============================================================================
