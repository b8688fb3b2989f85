----------------------------- MODULE MCRunStore -----------------------------
(***************************************************************************)
(* A small instance of RunStore: definitions with a window at every        *)
(* instant and none after the horizon, and two processes, one of which is  *)
(* configured with a smaller backlog.                                      *)
(***************************************************************************)
EXTENDS InstantText

CONSTANTS w1, w2

MCNextSchedule ==
    [d \in Definitions |-> [t \in 0..Horizon |-> IF t = Horizon THEN 0 ELSE t + 1]]

MCPendingLimit == [o \in Owners |-> IF o = w1 THEN 1 ELSE 2]

MCMaxAttempts == [d \in Definitions |-> 2]
=============================================================================
