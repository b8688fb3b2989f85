---------------------------- MODULE ScheduledPlans ----------------------------
(***************************************************************************)
(* One scheduled plan: its record in _scheduler_plans, changed by commands *)
(* with an expected revision, and its projection into the definition row   *)
(* that the workers poll.                                                  *)
(*                                                                         *)
(* A handler is one call under way in any Scheduler process that shares    *)
(* the database: a command of the plan's owner, or the hydration of an     *)
(* application that a process opens.  Every statement is a step: nothing   *)
(* joins the write of the record, the read that follows it and the three   *)
(* statements of the projection.  All statements name the plan's id and    *)
(* its owner, so one plan is enough.                                       *)
(***************************************************************************)
EXTENDS Naturals

CONSTANTS
    Handlers,           \* calls that may be under way at the same time
    Contents,           \* what an update replaces: name, trigger, input, actions, target
    Once,               \* the contents with a one-time trigger
    CreatedWith,        \* model bound: the contents that plans are created with
    MaxRevision,        \* model bound on revisions
    MaxFaults           \* model bound on crashes and failed calls

ASSUME PlansAssumption ==
    /\ Once \subseteq Contents
    /\ CreatedWith \subseteq Contents
    /\ MaxRevision \in Nat \ {0}
    /\ MaxFaults \in Nat

Statuses  == {"enabled", "disabled", "paused", "deleted"}
Versions  == [rev: 1..MaxRevision, status: Statuses, content: Contents]
NoVersion == [rev |-> 0, status |-> "none", content |-> {}]

\* A call: op, ExpectedRevision, and what Create and Update bring along.
Commands ==
    [op: {"create"}, expected: {0}, content: CreatedWith, status: {"enabled", "disabled"}]
    \union [op: {"update"}, expected: 1..(MaxRevision - 1), content: Contents, status: {"none"}]
    \union [op: {"pause", "resume", "delete"}, expected: 1..(MaxRevision - 1),
            content: {{}}, status: {"none"}]
Hydration == [op |-> "hydrate", expected |-> 0, content |-> {}, status |-> "none"]
NoCommand == [op |-> "none", expected |-> 0, content |-> {}, status |-> "none"]

\* The definition row; json is the version whose definition_json it holds.
Rows  == [rev: 1..MaxRevision, enabled: BOOLEAN, json: Versions]
NoRow == [rev |-> 0, enabled |-> FALSE, json |-> NoVersion]

VARIABLES
    plan,       \* the plan record: a version
    request,    \* request_sha256: the Create command that made it
    row,        \* the plan's row in _scheduler_definition_states
    pc, command, copy,      \* per handler: control state, its call, the version in hand
    stored,     \* history: every version the record has held
    alone,      \* history: handlers that no other call has overlapped so far
    faults

vars == <<plan, request, row, pc, command, copy, stored, alone, faults>>

PcValues == {"idle", "create", "read", "swap", "readback",
             "changed", "stable", "insert", "again", "answered", "unchanged", "down"}
Running  == PcValues \ {"idle", "down"}

PlansTypeOK ==
    /\ plan \in Versions \union {NoVersion}
    /\ request \in Commands \union {NoCommand}
    /\ row \in Rows \union {NoRow}
    /\ pc \in [Handlers -> PcValues]
    /\ command \in [Handlers -> Commands \union {Hydration, NoCommand}]
    /\ copy \in [Handlers -> Versions \union {NoVersion}]
    /\ stored \subseteq Versions
    /\ alone \subseteq Handlers
    /\ faults \in 0..MaxFaults
    /\ \A h \in Handlers :
          /\ pc[h] \in {"swap", "changed", "stable", "insert", "again"} => copy[h] \in Versions
          /\ pc[h] \in Running => command[h] # NoCommand

Goto(h, label) == pc' = [pc EXCEPT ![h] = label]

\* The call of h ends: with an error, or because its answer has been taken.
Leave(h, label) ==
    /\ Goto(h, label)
    /\ command' = [command EXCEPT ![h] = NoCommand]
    /\ copy'    = [copy EXCEPT ![h] = NoVersion]
    /\ alone'   = alone \ {h}

-----------------------------------------------------------------------------
(* Calls *)

\* A call begins; it and the calls it meets are no longer alone.
Begin(h, c, label) ==
    LET others == {g \in Handlers \ {h} : pc[g] \in Running}
    IN  /\ Goto(h, label)
        /\ command' = [command EXCEPT ![h] = c]
        /\ alone' = IF others = {} THEN alone \union {h} ELSE alone \ (others \union {h})
        /\ UNCHANGED <<plan, request, row, copy, stored, faults>>

StartCommand(h, c) ==
    /\ pc[h] = "idle"
    /\ Begin(h, c, IF c.op = "create" THEN "create" ELSE "read")

\* Faulty variant: a process opens the application without hydrating the plans.
StartWithoutHydration(h) ==
    /\ pc[h] \in {"idle", "down"}
    /\ Goto(h, "idle")
    /\ UNCHANGED <<plan, request, row, command, copy, stored, alone, faults>>

\* hydrateScheduledPlans, when a process opens the application: after a crash, or
\* because another process opens it as well.
StartHydration(h) ==
    /\ pc[h] \in {"idle", "down"}
    /\ Begin(h, Hydration, "read")

\* The caller takes the answer.
Answer(h) ==
    /\ pc[h] \in {"answered", "unchanged"}
    /\ Leave(h, "idle")
    /\ UNCHANGED <<plan, request, row, stored, faults>>

-----------------------------------------------------------------------------
(* The record *)

\* CreateScheduledPlan: INSERT ... ON CONFLICT DO NOTHING.
InsertPlan(h) ==
    LET c == command[h]
        v == [rev |-> 1, status |-> c.status, content |-> c.content]
    IN  /\ pc[h] = "create"
        /\ \/ /\ plan = NoVersion
              /\ plan' = v
              /\ request' = c
              /\ stored' = stored \union {v}
           \/ plan # NoVersion /\ UNCHANGED <<plan, request, stored>>
        /\ Goto(h, "readback")
        /\ UNCHANGED <<row, command, copy, alone, faults>>

\* The status a status change asks for.
DesiredStatus(c) == CASE c.op = "pause"  -> "paused"
                      [] c.op = "resume" -> "enabled"
                      [] c.op = "delete" -> "deleted"

\* Faulty variant: a repeated status change is recognised by the revision alone.
AppliedRevision(c, v) == v.rev = c.expected + 1

\* The command was applied before: the version after the expected one shows it.
Applied(c, v) ==
    /\ v.rev = c.expected + 1
    /\ IF c.op = "update" THEN v.content = c.content ELSE v.status = DesiredStatus(c)

\* Which status changes are accepted.
Allowed(c, v) ==
    CASE c.op = "pause"  -> v.status = "enabled"
      [] c.op = "resume" -> v.status \in {"paused", "disabled"}
      [] OTHER           -> TRUE

\* scheduledPlanForMutation and the checks on what it returns, in UpdateScheduledPlan,
\* changeScheduledPlanStatus and DeleteScheduledPlan; and the read of a hydration.
ReadPlan(h) ==
    LET c == command[h]
        gone == plan = NoVersion \/ (plan.status = "deleted" /\ c.op # "delete")
        inForce == c.op \in {"pause", "resume"} /\ plan.status = DesiredStatus(c)
        Hold(label) == /\ Goto(h, label)
                       /\ copy' = [copy EXCEPT ![h] = plan]
                       /\ UNCHANGED <<command, alone>>
    IN  /\ pc[h] = "read"
        /\ \/ c.op = "hydrate" /\ plan = NoVersion /\ Leave(h, "idle")
           \/ c.op = "hydrate" /\ plan # NoVersion /\ Hold("changed")
           \/ /\ c.op # "hydrate"
              /\ \/ gone /\ Leave(h, "idle")
                 \/ ~gone /\ Applied(c, plan) /\ Hold("changed")
                 \/ ~gone /\ ~Applied(c, plan) /\ plan.rev # c.expected /\ Leave(h, "idle")
                 \/ ~gone /\ plan.rev = c.expected /\ inForce /\ Hold("unchanged")
                 \/ /\ ~gone /\ plan.rev = c.expected /\ ~inForce
                    /\ IF plan.status # "deleted" /\ Allowed(c, plan)
                       THEN Hold("swap") ELSE Leave(h, "idle")
        /\ UNCHANGED <<plan, request, row, stored, faults>>

\* The version a command makes of v.
Result(c, v) ==
    IF c.op = "update"
    THEN [rev |-> c.expected + 1, status |-> v.status, content |-> c.content]
    ELSE [rev |-> v.rev + 1, status |-> DesiredStatus(c), content |-> v.content]

\* Faulty variant: the update names the plan and not its revision.
RevisionAny(h) == plan.rev >= command[h].expected

\* The revision predicate of ReplaceScheduledPlan.
RevisionIs(h) == plan.rev = command[h].expected

\* ReplaceScheduledPlan, the UPDATE; when it matches no row the call fails.
ReplacePlan(h) ==
    /\ pc[h] = "swap"
    /\ \/ /\ RevisionIs(h)
          /\ plan' = Result(command[h], copy[h])
          /\ stored' = stored \union {plan'}
          /\ Goto(h, "readback")
          /\ copy' = [copy EXCEPT ![h] = NoVersion]
          /\ UNCHANGED <<command, alone>>
       \/ /\ ~RevisionIs(h)
          /\ Leave(h, "idle")
          /\ UNCHANGED <<plan, stored>>
    /\ UNCHANGED <<request, row, faults>>

\* Create and Replace return what a second statement reads, which may be newer than
\* what they wrote.  A Create that met another request's plan is a conflict.
ReadBack(h) ==
    LET c == command[h]
    IN  /\ pc[h] = "readback"
        /\ \/ /\ c.op = "create" /\ request # c
              /\ Leave(h, "idle")
           \/ /\ c.op = "create" => request = c
              /\ Goto(h, "changed")
              /\ copy' = [copy EXCEPT ![h] = plan]
              /\ UNCHANGED <<command, alone>>
        /\ UNCHANGED <<plan, request, row, stored, faults>>

-----------------------------------------------------------------------------
(* projectScheduledPlan and reconcileWith *)

\* Faulty variant: the row is enabled as that of a published definition is.
ProjectedEnabled(v) == [rev |-> v.rev, enabled |-> TRUE, json |-> v]

\* Faulty variant: the row is given the revision that the next command will make.
ProjectedAhead(v) == [rev |-> v.rev + 1, enabled |-> v.status = "enabled", json |-> v]

\* What the projection of version v writes into a row of another revision, or a new one.
Projected(v) == [rev |-> v.rev, enabled |-> v.status = "enabled", json |-> v]

\* Faulty variant: the row is enabled whenever the plan is.
StableRowRevives(v) == [row EXCEPT !.json = v, !.enabled = (v.status = "enabled")]

\* What it writes into a row of the same revision: an enabled plan does not touch the
\* enabled column, so that a completed one-time plan stays completed.
StableRow(v) == [row EXCEPT !.json = v, !.enabled = @ /\ v.status = "enabled"]

\* The UPDATE for a changed revision; it does not ask which of the two is newer.
UpdateChanged(h) ==
    /\ pc[h] = "changed"
    /\ \/ /\ row # NoRow /\ row.rev # copy[h].rev
          /\ row' = Projected(copy[h])
          /\ Goto(h, "answered")
       \/ /\ row = NoRow \/ row.rev = copy[h].rev
          /\ Goto(h, "stable")
          /\ UNCHANGED row
    /\ UNCHANGED <<plan, request, command, copy, stored, alone, faults>>

\* The UPDATE for the stored revision: its predicate names the key only.
UpdateStable(h) ==
    /\ pc[h] = "stable"
    /\ \/ /\ row # NoRow
          /\ row' = StableRow(copy[h])
          /\ Goto(h, "answered")
       \/ /\ row = NoRow
          /\ Goto(h, "insert")
          /\ UNCHANGED row
    /\ UNCHANGED <<plan, request, command, copy, stored, alone, faults>>

\* The INSERT; the row may have appeared meanwhile.
InsertRow(h) ==
    /\ pc[h] = "insert"
    /\ \/ /\ row = NoRow
          /\ row' = Projected(copy[h])
          /\ Goto(h, "answered")
       \/ /\ row # NoRow
          /\ Goto(h, "again")
          /\ UNCHANGED row
    /\ UNCHANGED <<plan, request, command, copy, stored, alone, faults>>

\* The UPDATE for the stored revision once more, after the unique violation.
UpdateAgain(h) ==
    /\ pc[h] = "again"
    /\ row' = StableRow(copy[h])
    /\ Goto(h, "answered")
    /\ UNCHANGED <<plan, request, command, copy, stored, alone, faults>>

-----------------------------------------------------------------------------
(* Workers and faults *)

\* A worker claims the occurrence of a one-time plan, which disables the row.  (It cannot
\* when the window has a run already; what becomes of the run is in TriggerDispatch.)
CompleteOnce ==
    /\ row.enabled
    /\ row.json.content \in Once
    /\ row' = [row EXCEPT !.enabled = FALSE]
    /\ UNCHANGED <<plan, request, pc, command, copy, stored, alone, faults>>

\* A call ends early: its process dies, or a statement fails or is cancelled and the
\* process goes on.  So it does after a failed hydration in Module mode, where Start
\* discards the error; in SaaS mode the opening fails, and with it the start.
Fault(h, label) ==
    /\ pc[h] \in Running \ {"answered", "unchanged"}
    /\ faults < MaxFaults
    /\ faults' = faults + 1
    /\ Leave(h, label)
    /\ UNCHANGED <<plan, request, row, stored>>

-----------------------------------------------------------------------------
Init ==
    /\ plan = NoVersion
    /\ request = NoCommand
    /\ row = NoRow
    /\ pc = [h \in Handlers |-> "idle"]
    /\ command = [h \in Handlers |-> NoCommand]
    /\ copy = [h \in Handlers |-> NoVersion]
    /\ stored = {}
    /\ alone = {}
    /\ faults = 0

\* The steps of a call under way.
Step(h) ==
    \/ InsertPlan(h) \/ ReadPlan(h) \/ ReplacePlan(h) \/ ReadBack(h)
    \/ UpdateChanged(h) \/ UpdateStable(h) \/ InsertRow(h) \/ UpdateAgain(h)
    \/ Answer(h)

Next ==
    \/ \E h \in Handlers :
          \/ Step(h)
          \/ \E c \in Commands : StartCommand(h, c)
          \/ StartHydration(h)
          \/ \E label \in {"idle", "down"} : Fault(h, label)
    \/ CompleteOnce

Spec == Init /\ [][Next]_vars

\* As long as calls are under way or processes down, one of them goes on or is started
\* again and opens its application; which one is not assumed, nor is anything of the
\* plan's owner or of the workers.
FairSpec ==
    /\ Spec
    /\ WF_vars(\E h \in Handlers : Step(h) \/ (pc[h] = "down" /\ StartHydration(h)))

-----------------------------------------------------------------------------
(* Properties *)

Record == INSTANCE PlanRecord WITH current <- plan, past <- stored

\* However many handlers send commands with the same expected revision, and wherever
\* they die, the record is one line of versions: no update is lost, no revision
\* is given twice, no status change skips a state and a deleted plan stays deleted.
RecordSpec == Record!Spec

\* A command that is answered with success is in force on record: the version after
\* the expected one (or, when the status was in force already, the expected one) shows
\* what was asked for, also when somebody else's command was taken for a repetition or a
\* newer version is what the answer shows.
AnswersTakeEffect ==
    \A h \in Handlers :
        LET c == command[h] IN
        pc[h] \in {"answered", "unchanged"} =>
            /\ copy[h] \in stored
            /\ c.op = "create" => [rev |-> 1, status |-> c.status, content |-> c.content] \in stored
            /\ c.op = "update" => \E v \in stored :
                                    v.rev = c.expected + 1 /\ v.content = c.content
            /\ c.op \in {"pause", "resume", "delete"} =>
                  \E v \in stored : /\ v.rev \in {c.expected, c.expected + 1}
                                    /\ v.status = DesiredStatus(c)

\* The execution row shows the plan on record and is not enabled unless the plan is.  The
\* converse is not asked for: a completed one-time plan is disabled under an enabled
\* plan, and so is a row that a late UPDATE for the stored revision has disabled, which
\* nothing but a new revision enables again.
RowFollows ==
    /\ plan # NoVersion => row.rev = plan.rev /\ row.json = plan
    /\ row.enabled => plan.status = "enabled"

\* A call that projected the plan and met no other call on its way leaves the execution
\* row on the version of record, whatever crashes, failed calls and late projections did
\* to the row before: a pause or a deletion that is answered stops the plan.
SoloCallProjects ==
    \A h \in Handlers : pc[h] = "answered" /\ h \in alone => RowFollows

\* "Rehydrating the same immutable plan revision must preserve that terminal cursor":
\* a row that is disabled, by completion or by a command, is enabled again only together
\* with a change of its revision, even when projections overlap.
RevivedOnlyByRevision ==
    [][(row # NoRow /\ ~row.enabled /\ row'.enabled) => row'.rev # row.rev]_vars

\* A crash between the write of the record and its projection is repaired by the restart,
\* whatever failed before: the opening process brings the row to the record, unless
\* another call comes in between or the hydration fails in its turn.  (One that fails is
\* not tried again while the process is up; MaxFaults is the number of faults there are.)
RestartRepairs ==
    (faults = MaxFaults /\ \E h \in Handlers : pc[h] = "down") ~>
        RowFollows \/ \E g, h \in Handlers : g # h /\ pc[g] # "idle" /\ pc[h] # "idle"
=============================================================================
