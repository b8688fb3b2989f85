----------------------------- MODULE PlanRecord -----------------------------
(***************************************************************************)
(* What the record of one scheduled plan promises to its owner, whoever    *)
(* sends commands at the same time: a line of versions without gaps, each  *)
(* the result of one command on the version before it.  ScheduledPlans     *)
(* implements it with single statements of any number of handlers.         *)
(***************************************************************************)
EXTENDS Naturals

CONSTANTS
    Contents,           \* what an update replaces: name, trigger, input, actions, target
    MaxRevision         \* bound on revisions

VARIABLES
    current,    \* the plan as it is on record; NoVersion before it is created
    past        \* every version there has been

Statuses  == {"enabled", "disabled", "paused", "deleted"}
Versions  == [rev: 1..MaxRevision, status: Statuses, content: Contents]
NoVersion == [rev |-> 0, status |-> "none", content |-> {}]

\* What one command may do to a version: an update keeps the status; pause, resume and
\* delete keep the content; a deleted plan has no further version.
Successor(v, w) ==
    /\ w.rev = v.rev + 1
    /\ v.status # "deleted"
    /\ \/ w.status = v.status
       \/ w.content = v.content /\ w.status = "deleted"
       \/ w.content = v.content /\ v.status = "enabled" /\ w.status = "paused"
       \/ w.content = v.content /\ v.status \in {"paused", "disabled"} /\ w.status = "enabled"

Init == current = NoVersion /\ past = {}

Create ==
    /\ current = NoVersion
    /\ \E w \in Versions :
          /\ w.rev = 1 /\ w.status \in {"enabled", "disabled"}
          /\ current' = w
          /\ past' = {w}

Change ==
    /\ current # NoVersion
    /\ \E w \in Versions :
          /\ Successor(current, w)
          /\ current' = w
          /\ past' = past \union {w}

Next == Create \/ Change

Spec == Init /\ [][Next]_<<current, past>>
=============================================================================
