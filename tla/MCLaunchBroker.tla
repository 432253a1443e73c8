--------------------------- MODULE MCLaunchBroker ---------------------------
(* A child that is restarted when it fails, across a death and under two    *)
(* callers; a detached process that is always restarted, under two callers  *)
(* and where writes fail; a child that is not restarted, where writes fail  *)
(* and across two deaths.                                                   *)
EXTENDS LaunchBroker
CONSTANTS c1, c2

MCScopes ==
    {[detached |-> FALSE, policy |-> "on-failure", launches |-> 2, deaths |-> 1, callers |-> {c1},
      fails |-> FALSE],
     [detached |-> FALSE, policy |-> "on-failure", launches |-> 2, deaths |-> 0, callers |-> {c1, c2},
      fails |-> FALSE],
     [detached |-> TRUE, policy |-> "always", launches |-> 1, deaths |-> 1, callers |-> {c1, c2},
      fails |-> FALSE],
     [detached |-> TRUE, policy |-> "always", launches |-> 1, deaths |-> 1, callers |-> {c1},
      fails |-> TRUE],
     [detached |-> FALSE, policy |-> "no", launches |-> 1, deaths |-> 2, callers |-> {c1},
      fails |-> TRUE]}
=============================================================================
