------------------------------ MODULE MCRaftKv ------------------------------
(* A model-checking instance of RaftKv: three servers, one of which takes   *)
(* the lead from another while clients wait.                                *)
EXTENDS RaftKv, TLC

CONSTANTS s1, s2, s3

Line == { {s1, s2}, {s2, s3} }

LiveNode(n) ==
  [n EXCEPT !.votes = IF n.role = "candidate" THEN @ ELSE {},
            !.next  = IF n.role = "leader" THEN @ ELSE <<>>,
            !.match = IF n.role = "leader" THEN @ ELSE <<>>]

LiveView ==
  <<[i \in Server |-> LiveNode(node[i])], disk, net, heartbeats, restarts,
    duplicates, leaders, applied_log, commit_terms, write>>

(* s1 leads, then s2 takes over. *)
HandOver == { <<1, s1>>, <<2, s2>> }

(* s1 and s3 contest the first term over the vote of s2, s1 leads again     *)
(* after it, and may try once more past the ceiling.                        *)
ComeBack == { <<1, s1>>, <<1, s3>>, <<2, s1>>, <<3, s1>> }
=============================================================================
