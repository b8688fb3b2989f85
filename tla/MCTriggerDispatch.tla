-------------------------- MODULE MCTriggerDispatch --------------------------
(***************************************************************************)
(* A small instance of TriggerDispatch: a recurring definition with a      *)
(* window at every instant and a one-time plan due at instant 1.           *)
(***************************************************************************)
EXTENDS TriggerDispatch, TLC

CONSTANTS daily, onePlan,
          Policies,     \* misfire policies: "skip", "catch_up_one", "catch_up_bounded"
          Initial,      \* InitialNextRunAt of daily
          Tries,        \* MaxAttempts of daily
          Backlog       \* the limit that all processes are configured with

MCNextSchedule ==
    [d \in Definitions |->
        [t \in 0..Horizon |-> IF d = daily THEN t + 1
                              ELSE IF t = 0 THEN 1 ELSE Horizon + 1]]

MCMaxAttempts == [d \in Definitions |-> IF d = daily THEN Tries ELSE 1]

MCPendingLimit == [o \in Owners |-> Backlog]

MCInitialNextRunAt == [d \in Definitions |-> IF d = daily THEN Initial ELSE 0]

\* One process: its poll loop and a second goroutine share the worker id.
MCSharedOwner == [a \in Actors |-> CHOOSE o \in Owners : TRUE]

\* Two processes: actors and worker ids are the same model values.
MCOwnOwner == [a \in Actors |-> a]

\* schedule.ResolveMisfire with no grace, as the store's tests fix it: a late
\* window is skipped, caught up once, or caught up from the cursor for at most k
\* windows; the last window then carries the first window after now.
MCResolution(d, c, n, k, policy) ==
    LET after == IF d \in Once THEN 0 ELSE MCNextSchedule[d][n]
        late  == c < n
        count == IF d = daily /\ policy = "catch_up_bounded"
                 THEN IF n - c + 1 < k THEN n - c + 1 ELSE k
                 ELSE 1
    IN  IF late /\ policy = "skip"
        THEN [windows |-> <<>>, after |-> after, disable |-> d \in Once]
        ELSE [windows |-> [i \in 1..count |-> c + i - 1], after |-> after, disable |-> FALSE]

\* With several policies, each row that is read may carry another one: a new revision
\* of a definition may change its policy.
MCResolutions(d, c, n, k) == {MCResolution(d, c, n, k, p) : p \in Policies}

ActorSymmetry == Permutations(Actors)
=============================================================================
