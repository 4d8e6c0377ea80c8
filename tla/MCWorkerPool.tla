---------------------------- MODULE MCWorkerPool ----------------------------
(* Small instances of WorkerPool for TLC. *)
EXTENDS WorkerPool

Plan(workers, max, a, b, refusals, spurious, wait, pause, shutdown) ==
  [workers |-> workers, max_queued |-> max, submits |-> [p \in Producer |-> IF p = "a" THEN a ELSE b],
   refusals |-> refusals, spurious |-> spurious,
   wait |-> wait, pause |-> pause, shutdown |-> shutdown]

(* Two producers and two workers; a refused push, and a futex wait that ends  *)
(* for no reason, under a waiter; a waiter and either shutdown; a pause       *)
(* across submits and either shutdown.                                        *)
Crowd == {Plan(2, 1, 1, 1, 0, 0, FALSE, FALSE, "drain")}
Withdrawn ==
  {Plan(1, 1, 2, 0, 1, 0, TRUE, FALSE, "none"), Plan(1, 1, 1, 0, 0, 1, TRUE, FALSE, "none")}
WaitedOut ==
  {Plan(1, 0, 1, 0, 0, 0, TRUE, FALSE, "drain"), Plan(1, 0, 2, 0, 0, 0, TRUE, FALSE, "now")}
Paused ==
  {Plan(1, 2, 2, 0, 0, 0, FALSE, TRUE, s) : s \in {"drain", "now"}}
  \union {Plan(2, 0, 1, 0, 0, 0, FALSE, TRUE, "none")}

AllPlans == Crowd \union Withdrawn \union WaitedOut \union Paused
=============================================================================
