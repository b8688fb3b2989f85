------------------------- MODULE ScheduledPlansProofs -------------------------
(***************************************************************************)
(* Proofs about ScheduledPlans, for any number of handlers, contents,      *)
(* revisions and faults.                                                   *)
(*                                                                         *)
(* The argument: every revision has been given to one version only, so a   *)
(* handler whose copy carries the revision that the UPDATE's predicate     *)
(* finds on record holds the version on record.  What it writes is then    *)
(* the result of its command on that version.  A handler that is alone     *)
(* has seen every change of the record and of the row since its call       *)
(* began, but for a completion by a worker.                                *)
(***************************************************************************)
EXTENDS ScheduledPlans, TLAPS

-----------------------------------------------------------------------------
(* The inductive invariant *)

\* The record is the last of the versions stored, and a revision is that of one version.
RecordInv ==
    /\ plan = NoVersion => stored = {}
    /\ plan # NoVersion => plan \in stored
    /\ \A v \in stored : v.rev <= plan.rev
    /\ \A v, w \in stored : v.rev = w.rev => v = w

\* The version a Create command makes.
Created(c) == [rev |-> 1, status |-> c.status, content |-> c.content]

\* The Create command on record made the first version.
RequestInv == request.op = "create" => Created(request) \in stored

\* The versions stored show the effect of the command.
InForce(c) ==
    /\ c.op = "create" => Created(c) \in stored
    /\ c.op = "update" => \E v \in stored : v.rev = c.expected + 1 /\ v.content = c.content
    /\ c.op \in {"pause", "resume", "delete"} =>
          \E v \in stored : /\ v.rev \in {c.expected, c.expected + 1}
                            /\ v.status = DesiredStatus(c)

Projecting == {"changed", "stable", "insert", "again", "answered"}

\* The version in hand was on record once.
HoldsStored(h) == pc[h] \in Projecting \union {"swap", "unchanged"} => copy[h] \in stored

\* A handler about to write has checked its command against its copy.
SwapReady(h) ==
    pc[h] = "swap" =>
        /\ command[h].op \in {"update", "pause", "resume", "delete"}
        /\ copy[h].rev = command[h].expected
        /\ copy[h].status # "deleted"
        /\ Allowed(command[h], copy[h])

\* A handler past the record's write finds a record, and its command in force.
Effective(h) ==
    /\ pc[h] = "create" => command[h].op = "create"
    /\ pc[h] = "read" => command[h].op # "create"
    /\ pc[h] = "readback" => stored # {} /\ (command[h].op # "create" => InForce(command[h]))
    /\ pc[h] \in Projecting \union {"unchanged"} => InForce(command[h])

\* A unique violation has shown that the row is there.
RowThere(h) == pc[h] = "again" => row # NoRow

\* What a handler that is alone knows of the record and the row.
Solo(h) ==
    h \in alone =>
        /\ pc[h] \in Running
        /\ \A g \in Handlers \ {h} : pc[g] \notin Running
        /\ pc[h] \in Projecting => copy[h] = plan
        /\ pc[h] = "stable" => row = NoRow \/ row.rev = plan.rev
        /\ pc[h] = "insert" => row = NoRow
        /\ pc[h] # "again"
        /\ pc[h] = "answered" => RowFollows

\* A call under way has a command.
HasCommand(h) == pc[h] \in Running => command[h] # NoCommand

HandlerInv(h) ==
    /\ HasCommand(h) /\ HoldsStored(h) /\ SwapReady(h)
    /\ Effective(h) /\ RowThere(h) /\ Solo(h)

PlansInv == PlansTypeOK /\ RecordInv /\ RequestInv /\ \A h \in Handlers : HandlerInv(h)

-----------------------------------------------------------------------------
(* Values *)

AnyVersion == Versions \union {NoVersion}
AnyCommand == Commands \union {Hydration, NoCommand}

\* The parts of commands and versions.
LEMMA ValueTypes ==
    /\ \A c \in Commands :
          /\ c.op \in {"create", "update", "pause", "resume", "delete"}
          /\ c.op = "create" => c.content \in Contents /\ c.status \in {"enabled", "disabled"}
          /\ c.op # "create" => c.expected \in 1..(MaxRevision - 1)
          /\ c.op = "update" => c.content \in Contents
          /\ c # NoCommand
    /\ Hydration.op = "hydrate" /\ Hydration # NoCommand /\ NoCommand.op = "none"
    /\ \A v \in Versions : /\ v.rev \in 1..MaxRevision /\ v.status \in Statuses
                           /\ v.content \in Contents /\ v # NoVersion
    /\ NoVersion.rev = 0 /\ NoVersion.status = "none"
  BY PlansAssumption DEF Commands, Hydration, NoCommand, Versions, NoVersion

\* The version that an accepted command makes follows the version it was accepted on.
LEMMA ResultFollows ==
    ASSUME NEW c \in Commands, NEW v \in Versions,
           c.op \in {"update", "pause", "resume", "delete"},
           v.rev = c.expected, v.status # "deleted", Allowed(c, v)
    PROVE  /\ Result(c, v) \in Versions
           /\ Result(c, v).rev = v.rev + 1
           /\ Record!Successor(v, Result(c, v))
           /\ c.op = "update" => Result(c, v).content = c.content
           /\ c.op # "update" => Result(c, v).status = DesiredStatus(c)
<1>1. /\ c.expected \in 1..(MaxRevision - 1) /\ c.expected + 1 \in 1..MaxRevision
      /\ c.op = "update" => c.content \in Contents
  BY ValueTypes, PlansAssumption
<1>2. v.rev \in Nat /\ v.status \in Statuses /\ v.content \in Contents
  BY ValueTypes
<1>3. CASE c.op = "update"
  BY <1>1, <1>2, <1>3 DEF Result, Versions, Record!Successor
<1>4. CASE c.op = "pause"
  BY <1>1, <1>2, <1>4 DEF Result, DesiredStatus, Allowed, Versions, Statuses, Record!Successor
<1>5. CASE c.op = "resume"
  BY <1>1, <1>2, <1>5 DEF Result, DesiredStatus, Allowed, Versions, Statuses, Record!Successor
<1>6. CASE c.op = "delete"
  BY <1>1, <1>2, <1>6 DEF Result, DesiredStatus, Allowed, Versions, Statuses, Record!Successor
<1> QED
  BY <1>3, <1>4, <1>5, <1>6

-----------------------------------------------------------------------------
(* What a step does *)

SharedTypes ==
    /\ plan \in AnyVersion
    /\ request \in Commands \union {NoCommand}
    /\ row \in Rows \union {NoRow}
    /\ stored \subseteq Versions
    /\ alone \subseteq Handlers
    /\ faults \in 0..MaxFaults

LocalTypes ==
    /\ pc \in [Handlers -> PcValues]
    /\ command \in [Handlers -> AnyCommand]
    /\ copy \in [Handlers -> AnyVersion]

\* The locals of the other handlers are left alone.
Others(h) == \A g \in Handlers \ {h} :
    pc'[g] = pc[g] /\ command'[g] = command[g] /\ copy'[g] = copy[g]

\* What every step of handler h keeps or may do.
Advance(h) ==
    /\ SharedTypes' /\ LocalTypes' /\ Others(h)
    /\ RecordInv' /\ RequestInv' /\ HandlerInv(h)'
    /\ stored \subseteq stored'
    /\ row # NoRow => row' # NoRow
    /\ alone' \subseteq {h}

\* The invariant, opened for one handler.
LEMMA InvFacts ==
    ASSUME PlansInv, NEW h \in Handlers
    PROVE  /\ SharedTypes /\ LocalTypes /\ RecordInv /\ RequestInv
           /\ HasCommand(h) /\ HoldsStored(h) /\ SwapReady(h)
           /\ Effective(h) /\ RowThere(h) /\ Solo(h)
           /\ pc[h] \in PcValues /\ command[h] \in AnyCommand /\ copy[h] \in AnyVersion
<1>1. SharedTypes /\ LocalTypes /\ RecordInv /\ RequestInv /\ HandlerInv(h)
  BY DEF PlansInv, PlansTypeOK, SharedTypes, LocalTypes, AnyVersion, AnyCommand
<1> QED
  BY <1>1 DEF HandlerInv, LocalTypes

\* A handler whose call is under way is the only one that can be alone.
LEMMA OnlyOneAlone ==
    ASSUME PlansInv, NEW h \in Handlers, pc[h] \in Running
    PROVE  alone \subseteq {h}
  BY InvFacts DEF SharedTypes, Solo

\* A handler between calls has nothing to keep.
LEMMA IdleInv ==
    ASSUME NEW h, pc'[h] \in {"idle", "down"}, h \notin alone'
    PROVE  HandlerInv(h)'
  BY DEF HandlerInv, HasCommand, HoldsStored, SwapReady, Effective, RowThere, Solo,
         Projecting, Running

\* A call that ends.
LEMMA LeaveStep ==
    ASSUME PlansInv, NEW h \in Handlers, NEW label \in {"idle", "down"}, pc[h] \in Running,
           Leave(h, label), UNCHANGED <<plan, request, row, stored>>, faults' \in 0..MaxFaults
    PROVE  Advance(h)
<1>1. LocalTypes' /\ Others(h) /\ pc'[h] = label
  BY InvFacts DEF Leave, Goto, LocalTypes, Others, PcValues, AnyCommand, AnyVersion
<1>2. alone' \subseteq {h} /\ h \notin alone'
  BY OnlyOneAlone DEF Leave
<1>3. HandlerInv(h)'
  BY <1>1, <1>2, IdleInv
<1>4. SharedTypes' /\ RecordInv' /\ RequestInv'
  BY <1>2, InvFacts DEF SharedTypes, RecordInv, RequestInv
<1> QED
  BY <1>1, <1>2, <1>3, <1>4 DEF Advance

\* A step of a call under way that leaves the record alone.
LEMMA RecordKept ==
    ASSUME PlansInv, NEW h \in Handlers, pc[h] \in Running,
           UNCHANGED <<plan, request, stored, alone, faults>>,
           row' \in Rows \/ UNCHANGED row,
           LocalTypes', Others(h), HandlerInv(h)'
    PROVE  Advance(h)
<1>1. alone' \subseteq {h}
  BY OnlyOneAlone
<1>2. SharedTypes' /\ RecordInv' /\ RequestInv'
  BY InvFacts DEF SharedTypes, RecordInv, RequestInv
<1>3. \A r \in Rows : r # NoRow
  BY DEF Rows, NoRow
<1> QED
  BY <1>1, <1>2, <1>3 DEF Advance

-----------------------------------------------------------------------------
(* Calls *)

\* A call that begins ends the solitude of the others.
LEMMA BeginStep ==
    ASSUME PlansInv, NEW h \in Handlers, pc[h] \notin Running,
           NEW c \in Commands \union {Hydration}, NEW label \in {"create", "read"},
           label = "create" => c.op = "create", label = "read" => c.op # "create",
           Begin(h, c, label)
    PROVE  Advance(h)
<1>0. SharedTypes /\ LocalTypes /\ RecordInv /\ RequestInv
  BY InvFacts
<1> DEFINE others == {g \in Handlers \ {h} : pc[g] \in Running}
<1>1. LocalTypes' /\ Others(h) /\ pc'[h] = label /\ command'[h] = c
  BY <1>0 DEF Begin, Goto, LocalTypes, Others, PcValues, AnyCommand
<1>2. \A g \in alone : g \in others
  <2>1. \A g \in alone : g \in Handlers /\ pc[g] \in Running
    BY <1>0, InvFacts DEF SharedTypes, Solo
  <2> QED
    BY <2>1
<1>3. /\ alone' \subseteq {h}
      /\ h \in alone' => others = {}
  BY <1>2 DEF Begin
<1>4. HasCommand(h)' /\ HoldsStored(h)' /\ SwapReady(h)' /\ Effective(h)' /\ RowThere(h)'
  BY <1>1, ValueTypes DEF HasCommand, HoldsStored, SwapReady, Effective, RowThere, Projecting
<1>5. Solo(h)'
  <2>1. label \in Running
    BY DEF Running, PcValues
  <2>2. h \in alone' => \A g \in Handlers \ {h} : pc'[g] \notin Running
    BY <1>1, <1>3 DEF Others
  <2> QED
    BY <1>1, <2>1, <2>2 DEF Solo, Projecting
<1>6. SharedTypes' /\ RecordInv' /\ RequestInv'
  BY <1>0, <1>3 DEF Begin, SharedTypes, RecordInv, RequestInv
<1> QED
  BY <1>1, <1>3, <1>4, <1>5, <1>6 DEF Advance, Begin, HandlerInv

\* A command arrives.
LEMMA StartCommandStep ==
    ASSUME PlansInv, NEW h \in Handlers, NEW c \in Commands, StartCommand(h, c)
    PROVE  Advance(h)
  BY BeginStep DEF StartCommand, Running

\* An application is opened.
LEMMA StartHydrationStep ==
    ASSUME PlansInv, NEW h \in Handlers, StartHydration(h)
    PROVE  Advance(h)
  BY BeginStep, ValueTypes DEF StartHydration, Running

\* The caller takes the answer.
LEMMA AnswerStep ==
    ASSUME PlansInv, NEW h \in Handlers, Answer(h)
    PROVE  Advance(h)
  BY LeaveStep, InvFacts DEF Answer, Running, PcValues, SharedTypes

\* A call ends early.
LEMMA FaultStep ==
    ASSUME PlansInv, NEW h \in Handlers, NEW label \in {"idle", "down"}, Fault(h, label)
    PROVE  Advance(h)
<1>1. faults' \in 0..MaxFaults
  BY InvFacts, PlansAssumption DEF Fault, SharedTypes
<1> QED
  BY <1>1, LeaveStep DEF Fault

-----------------------------------------------------------------------------
(* The record *)

\* CreateScheduledPlan: the insert makes the first version or finds a plan.
LEMMA InsertPlanStep ==
    ASSUME PlansInv, NEW h \in Handlers, InsertPlan(h)
    PROVE  Advance(h) /\ [Record!Next]_<<plan, stored>>
<1>0. /\ SharedTypes /\ LocalTypes /\ RecordInv /\ RequestInv /\ HasCommand(h) /\ Effective(h)
      /\ Solo(h) /\ command[h] \in AnyCommand /\ pc[h] = "create" /\ pc[h] \in Running
  BY InvFacts DEF InsertPlan, Running, PcValues
<1> DEFINE v == Created(command[h])
<1>1. command[h] \in Commands /\ command[h].op = "create"
  BY <1>0, ValueTypes DEF Effective, AnyCommand
<1>2. /\ v \in Versions /\ v.rev = 1 /\ v.status \in {"enabled", "disabled"} /\ v # NoVersion
  BY <1>1, ValueTypes, PlansAssumption DEF Versions, Statuses, Created
<1>3. /\ LocalTypes' /\ Others(h) /\ pc'[h] = "readback" /\ command'[h] = command[h]
  BY <1>0 DEF InsertPlan, Goto, LocalTypes, Others, PcValues
<1> DEFINE Goal == /\ SharedTypes' /\ RecordInv' /\ RequestInv' /\ stored \subseteq stored'
                   /\ stored' # {} /\ [Record!Next]_<<plan, stored>>
<1>4. ASSUME plan = NoVersion, plan' = v, request' = command[h], stored' = stored \union {v}
      PROVE  Goal
  <2>1. stored = {} /\ stored' = {v}
    BY <1>0, <1>4 DEF RecordInv
  <2>2. RecordInv' /\ RequestInv'
    BY <1>2, <1>4, <2>1 DEF RecordInv, RequestInv
  <2>3. SharedTypes'
    BY <1>0, <1>1, <1>2, <1>4 DEF SharedTypes, AnyVersion, InsertPlan
  <2>4. Record!Next
    BY <1>2, <1>4, <2>1 DEF Record!Next, Record!Create, Record!Versions, Record!NoVersion,
                            Record!Statuses, Versions, NoVersion, Statuses
  <2> QED
    BY <2>1, <2>2, <2>3, <2>4
<1>5. ASSUME plan # NoVersion, UNCHANGED <<plan, request, stored>>
      PROVE  Goal
  BY <1>0, <1>5 DEF SharedTypes, RecordInv, RequestInv, InsertPlan
<1>6. Goal
  BY <1>4, <1>5 DEF InsertPlan, Created
<1>7. HasCommand(h)' /\ HoldsStored(h)' /\ SwapReady(h)' /\ Effective(h)' /\ RowThere(h)'
  BY <1>0, <1>1, <1>3, <1>6
  DEF HasCommand, HoldsStored, SwapReady, Effective, RowThere, Projecting
<1>8. Solo(h)' /\ alone' \subseteq {h}
  BY <1>0, <1>3, OnlyOneAlone DEF Solo, Others, Running, PcValues, Projecting, InsertPlan
<1> QED
  BY <1>3, <1>6, <1>7, <1>8 DEF Advance, HandlerInv, InsertPlan

\* A handler that is alone and goes on is still alone.
LEMMA StillAlone ==
    ASSUME PlansInv, NEW h \in Handlers, Others(h), alone' = alone, pc[h] \in Running,
           pc'[h] \in Running
    PROVE  h \in alone' => pc'[h] \in Running /\ \A g \in Handlers \ {h} : pc'[g] \notin Running
  BY InvFacts DEF Solo, Others

\* Copying the version on record into a local, at the next label.
LEMMA HoldStep ==
    ASSUME PlansInv, NEW h \in Handlers, pc[h] \in Running,
           NEW label \in {"changed", "unchanged", "swap"},
           plan # NoVersion, Goto(h, label), copy' = [copy EXCEPT ![h] = plan],
           UNCHANGED <<plan, request, row, command, stored, alone, faults>>,
           label = "swap" => /\ command[h].op \in {"update", "pause", "resume", "delete"}
                             /\ plan.rev = command[h].expected
                             /\ plan.status # "deleted"
                             /\ Allowed(command[h], plan),
           label # "swap" => InForce(command[h])
    PROVE  Advance(h)
<1>0. SharedTypes /\ LocalTypes /\ RecordInv /\ HasCommand(h) /\ Solo(h)
  BY InvFacts
<1>1. /\ LocalTypes' /\ Others(h) /\ pc'[h] = label /\ command'[h] = command[h]
      /\ copy'[h] = plan
  BY <1>0 DEF Goto, LocalTypes, Others, PcValues, SharedTypes
<1>2. label \in Running
  BY DEF Running, PcValues
<1>3. HasCommand(h)' /\ HoldsStored(h)' /\ RowThere(h)'
  BY <1>0, <1>1 DEF HasCommand, HoldsStored, RowThere, RecordInv
<1>4. SwapReady(h)'
  BY <1>1 DEF SwapReady, Allowed
<1>5. Effective(h)'
  BY <1>1 DEF Effective, InForce, DesiredStatus, Created, Projecting
<1>6. Solo(h)'
  BY <1>1, <1>2, StillAlone DEF Solo, Projecting
<1> QED
  BY <1>1, <1>3, <1>4, <1>5, <1>6, RecordKept DEF HandlerInv

\* scheduledPlanForMutation and its checks, and the read of a hydration.
LEMMA ReadPlanStep ==
    ASSUME PlansInv, NEW h \in Handlers, ReadPlan(h)
    PROVE  Advance(h)
<1>0. /\ SharedTypes /\ RecordInv /\ HasCommand(h) /\ Effective(h)
      /\ command[h] \in AnyCommand /\ pc[h] = "read" /\ pc[h] \in Running
  BY InvFacts DEF ReadPlan, Running, PcValues
<1> DEFINE c == command[h]
           gone == plan = NoVersion \/ (plan.status = "deleted" /\ c.op # "delete")
           inForce == c.op \in {"pause", "resume"} /\ plan.status = DesiredStatus(c)
           Hold(label) == /\ Goto(h, label)
                          /\ copy' = [copy EXCEPT ![h] = plan]
                          /\ UNCHANGED <<command, alone>>
<1>1. c.op \in {"update", "pause", "resume", "delete"} \/ c.op = "hydrate"
  BY <1>0, ValueTypes DEF Effective, HasCommand, AnyCommand
<1>2. plan # NoVersion => plan \in stored
  BY <1>0 DEF RecordInv
<1>3. CASE Leave(h, "idle")
  BY <1>0, <1>3, LeaveStep DEF ReadPlan, SharedTypes
<1>4. CASE c.op = "hydrate" /\ plan # NoVersion /\ Hold("changed")
  <2>1. InForce(c)
    BY <1>4 DEF InForce
  <2> QED
    BY <1>0, <1>4, <2>1, HoldStep DEF ReadPlan
<1>5. CASE c.op # "hydrate" /\ ~gone /\ Applied(c, plan) /\ Hold("changed")
  <2>1. InForce(c)
    BY <1>1, <1>2, <1>5 DEF InForce, Applied
  <2> QED
    BY <1>0, <1>5, <2>1, HoldStep DEF ReadPlan
<1>6. CASE c.op # "hydrate" /\ ~gone /\ plan.rev = c.expected /\ inForce /\ Hold("unchanged")
  <2>1. InForce(c)
    BY <1>2, <1>6 DEF InForce
  <2> QED
    BY <1>0, <1>6, <2>1, HoldStep DEF ReadPlan
<1>7. CASE /\ c.op # "hydrate" /\ ~gone /\ plan.rev = c.expected
           /\ plan.status # "deleted" /\ Allowed(c, plan) /\ Hold("swap")
  BY <1>0, <1>1, <1>7, HoldStep DEF ReadPlan
<1> QED
  BY <1>3, <1>4, <1>5, <1>6, <1>7 DEF ReadPlan

\* ReplaceScheduledPlan: the version whose revision the predicate finds is the copy.
LEMMA ReplacePlanStep ==
    ASSUME PlansInv, NEW h \in Handlers, ReplacePlan(h)
    PROVE  Advance(h) /\ [Record!Next]_<<plan, stored>>
<1>0. /\ SharedTypes /\ LocalTypes /\ RecordInv /\ RequestInv /\ HasCommand(h)
      /\ HoldsStored(h) /\ SwapReady(h) /\ Solo(h)
      /\ command[h] \in AnyCommand /\ pc[h] = "swap" /\ pc[h] \in Running
  BY InvFacts DEF ReplacePlan, Running, PcValues
<1>1. ASSUME ~RevisionIs(h)
      PROVE  Advance(h) /\ [Record!Next]_<<plan, stored>>
  BY <1>0, <1>1, LeaveStep DEF ReplacePlan, SharedTypes
<1>2. ASSUME RevisionIs(h)
      PROVE  Advance(h) /\ [Record!Next]_<<plan, stored>>
  <2> DEFINE c == command[h]
             w == Result(c, copy[h])
  <2>1. /\ c.op \in {"update", "pause", "resume", "delete"} /\ c \in Commands
        /\ copy[h] \in stored /\ copy[h] \in Versions /\ copy[h].rev = c.expected
        /\ copy[h].status # "deleted" /\ Allowed(c, copy[h])
    BY <1>0, ValueTypes DEF SwapReady, HoldsStored, AnyCommand, SharedTypes
  <2>2. plan \in Versions /\ plan \in stored /\ plan # NoVersion
    BY <1>0, <2>1, ValueTypes DEF RecordInv, SharedTypes, AnyVersion
  <2>3. plan = copy[h]
    BY <1>0, <1>2, <2>1, <2>2 DEF RevisionIs, RecordInv
  <2>4. /\ w \in Versions /\ w.rev = plan.rev + 1 /\ Record!Successor(plan, w)
        /\ c.op = "update" => w.content = c.content
        /\ c.op # "update" => w.status = DesiredStatus(c)
    BY <2>1, <2>3, ResultFollows
  <2>5. plan' = w /\ stored' = stored \union {w}
    BY <1>2 DEF ReplacePlan
  <2>6. Record!Next
    BY <2>2, <2>4, <2>5 DEF Record!Next, Record!Change, Record!Versions, Record!NoVersion,
                            Record!Statuses, Versions, NoVersion, Statuses
  <2>7. RecordInv'
    <3>1. /\ \A v \in stored : v.rev \in Nat /\ v.rev <= plan.rev
          /\ plan.rev \in Nat /\ w.rev = plan.rev + 1 /\ w # NoVersion
      BY <1>0, <2>2, <2>4, ValueTypes DEF RecordInv, SharedTypes
    <3> QED
      BY <1>0, <2>5, <3>1 DEF RecordInv
  <2>8. /\ LocalTypes' /\ Others(h) /\ pc'[h] = "readback" /\ command'[h] = c
    BY <1>0, <1>2 DEF ReplacePlan, Goto, LocalTypes, Others, PcValues, AnyVersion
  <2>9. SharedTypes' /\ RequestInv'
    BY <1>0, <1>2, <2>4, <2>5 DEF SharedTypes, AnyVersion, RequestInv, ReplacePlan, Created
  <2>10. InForce(c)'
    <3>1. w \in stored' /\ w.rev = c.expected + 1
      BY <1>2, <2>4, <2>5 DEF RevisionIs
    <3> QED
      BY <2>1, <2>4, <2>8, <3>1 DEF InForce, DesiredStatus
  <2>11. HasCommand(h)' /\ HoldsStored(h)' /\ SwapReady(h)' /\ RowThere(h)'
    BY <1>0, <2>8 DEF HasCommand, HoldsStored, SwapReady, RowThere, Projecting
  <2>12. Effective(h)'
    BY <2>5, <2>8, <2>10 DEF Effective, Projecting
  <2>13. Solo(h)' /\ alone' \subseteq {h}
    <3>1. alone' = alone /\ alone \subseteq {h} /\ pc'[h] \in Running
      BY <1>0, <1>2, <2>8, OnlyOneAlone DEF ReplacePlan, Running, PcValues
    <3> QED
      BY <1>0, <2>8, <3>1, StillAlone DEF Solo, Projecting
  <2> QED
    BY <2>5, <2>6, <2>7, <2>8, <2>9, <2>11, <2>12, <2>13 DEF Advance, HandlerInv, ReplacePlan
<1> QED
  BY <1>1, <1>2

\* The statement that reads the record back finds one.
LEMMA ReadBackStep ==
    ASSUME PlansInv, NEW h \in Handlers, ReadBack(h)
    PROVE  Advance(h)
<1>0. /\ SharedTypes /\ RecordInv /\ RequestInv /\ Effective(h)
      /\ pc[h] = "readback" /\ pc[h] \in Running
  BY InvFacts DEF ReadBack, Running, PcValues
<1>1. CASE Leave(h, "idle")
  BY <1>0, <1>1, LeaveStep DEF ReadBack, SharedTypes
<1>2. CASE /\ command[h].op = "create" => request = command[h]
           /\ Goto(h, "changed") /\ copy' = [copy EXCEPT ![h] = plan]
           /\ UNCHANGED <<command, alone>>
  <2>1. plan # NoVersion
    BY <1>0 DEF Effective, RecordInv
  <2>2. InForce(command[h])
    BY <1>0, <1>2 DEF Effective, RequestInv, InForce
  <2> QED
    BY <1>0, <1>2, <2>1, <2>2, HoldStep DEF ReadBack
<1> QED
  BY <1>1, <1>2 DEF ReadBack

-----------------------------------------------------------------------------
(* The projection *)

\* Rows are written well formed, and never from nothing.
LEMMA RowTypes ==
    ASSUME NEW v \in Versions
    PROVE  /\ Projected(v) \in Rows
           /\ row \in Rows => StableRow(v) \in Rows
  BY ValueTypes DEF Projected, StableRow, Rows

\* A step of the projection: the copy stays in hand.
LEMMA ProjectStep ==
    ASSUME PlansInv, NEW h \in Handlers, pc[h] \in Projecting \ {"answered"},
           NEW label \in Projecting, Goto(h, label),
           UNCHANGED <<plan, request, command, copy, stored, alone, faults>>,
           row' \in Rows \/ UNCHANGED row,
           label = "again" => row' # NoRow,
           h \in alone => /\ label = "stable" => row' = NoRow \/ row'.rev = plan.rev
                          /\ label = "insert" => row' = NoRow
                          /\ label # "again"
                          /\ label = "answered" => RowFollows'
    PROVE  Advance(h)
<1>0. LocalTypes /\ HasCommand(h) /\ HoldsStored(h) /\ Effective(h) /\ Solo(h)
  BY InvFacts
<1>1. pc[h] \in Running /\ label \in Running /\ label \in PcValues
  BY DEF Projecting, Running, PcValues
<1>2. LocalTypes' /\ Others(h) /\ pc'[h] = label
  BY <1>0, <1>1 DEF Goto, LocalTypes, Others
<1>3. HasCommand(h)' /\ HoldsStored(h)' /\ RowThere(h)' /\ SwapReady(h)'
  BY <1>0, <1>1, <1>2 DEF HasCommand, HoldsStored, RowThere, SwapReady, Projecting
<1>4. Effective(h)'
  BY <1>0, <1>2 DEF Effective, InForce, DesiredStatus, Created, Projecting
<1>5. Solo(h)'
  BY <1>0, <1>1, <1>2, StillAlone DEF Solo, Projecting
<1> QED
  BY <1>1, <1>2, <1>3, <1>4, <1>5, RecordKept DEF HandlerInv

\* What a projecting handler holds.
LEMMA InHand ==
    ASSUME PlansInv, NEW h \in Handlers, pc[h] \in Projecting
    PROVE  /\ copy[h] \in Versions
           /\ row \in Rows \union {NoRow}
           /\ Solo(h) /\ RowThere(h)
           /\ h \in alone => copy[h] = plan
  BY InvFacts DEF HoldsStored, SharedTypes, Solo

\* The update for a changed revision.
LEMMA UpdateChangedStep ==
    ASSUME PlansInv, NEW h \in Handlers, UpdateChanged(h)
    PROVE  Advance(h)
<1>0. /\ pc[h] = "changed" /\ pc[h] \in Projecting \ {"answered"}
      /\ copy[h] \in Versions /\ (h \in alone => copy[h] = plan)
  BY InHand DEF UpdateChanged, Projecting
<1>1. CASE row # NoRow /\ row' = Projected(copy[h]) /\ Goto(h, "answered")
  <2>1. row' \in Rows
    BY <1>0, <1>1, RowTypes
  <2>2. h \in alone => RowFollows'
    BY <1>0, <1>1 DEF RowFollows, Projected, UpdateChanged
  <2> QED
    BY <1>0, <1>1, <2>1, <2>2, ProjectStep DEF UpdateChanged, Projecting
<1>2. CASE (row = NoRow \/ row.rev = copy[h].rev) /\ Goto(h, "stable") /\ UNCHANGED row
  BY <1>0, <1>2, ProjectStep DEF UpdateChanged, Projecting
<1> QED
  BY <1>1, <1>2 DEF UpdateChanged

\* The update for the stored revision.
LEMMA UpdateStableStep ==
    ASSUME PlansInv, NEW h \in Handlers, UpdateStable(h)
    PROVE  Advance(h)
<1>0. /\ pc[h] = "stable" /\ pc[h] \in Projecting \ {"answered"} /\ Solo(h)
      /\ copy[h] \in Versions /\ (h \in alone => copy[h] = plan)
      /\ row \in Rows \union {NoRow}
  BY InHand DEF UpdateStable, Projecting
<1>1. CASE row # NoRow /\ row' = StableRow(copy[h]) /\ Goto(h, "answered")
  <2>1. row' \in Rows
    BY <1>0, <1>1, RowTypes
  <2>2. h \in alone => RowFollows'
    BY <1>0, <1>1 DEF RowFollows, StableRow, UpdateStable, Solo, Rows
  <2> QED
    BY <1>0, <1>1, <2>1, <2>2, ProjectStep DEF UpdateStable, Projecting
<1>2. CASE row = NoRow /\ Goto(h, "insert") /\ UNCHANGED row
  BY <1>0, <1>2, ProjectStep DEF UpdateStable, Projecting
<1> QED
  BY <1>1, <1>2 DEF UpdateStable

\* The insert.
LEMMA InsertRowStep ==
    ASSUME PlansInv, NEW h \in Handlers, InsertRow(h)
    PROVE  Advance(h)
<1>0. /\ pc[h] = "insert" /\ pc[h] \in Projecting \ {"answered"} /\ Solo(h)
      /\ copy[h] \in Versions /\ (h \in alone => copy[h] = plan)
  BY InHand DEF InsertRow, Projecting
<1>1. CASE row = NoRow /\ row' = Projected(copy[h]) /\ Goto(h, "answered")
  <2>1. row' \in Rows
    BY <1>0, <1>1, RowTypes
  <2>2. h \in alone => RowFollows'
    BY <1>0, <1>1 DEF RowFollows, Projected, InsertRow
  <2> QED
    BY <1>0, <1>1, <2>1, <2>2, ProjectStep DEF InsertRow, Projecting
<1>2. CASE row # NoRow /\ Goto(h, "again") /\ UNCHANGED row
  <2>1. h \notin alone
    BY <1>0, <1>2 DEF Solo
  <2> QED
    BY <1>0, <1>2, <2>1, ProjectStep DEF InsertRow, Projecting
<1> QED
  BY <1>1, <1>2 DEF InsertRow

\* The update after a unique violation.
LEMMA UpdateAgainStep ==
    ASSUME PlansInv, NEW h \in Handlers, UpdateAgain(h)
    PROVE  Advance(h)
<1>0. /\ pc[h] = "again" /\ pc[h] \in Projecting \ {"answered"} /\ Solo(h) /\ RowThere(h)
      /\ copy[h] \in Versions /\ row \in Rows \union {NoRow}
  BY InHand DEF UpdateAgain, Projecting
<1>1. row' \in Rows /\ h \notin alone
  BY <1>0, RowTypes DEF UpdateAgain, RowThere, Solo
<1> QED
  BY <1>0, <1>1, ProjectStep DEF UpdateAgain, Projecting

-----------------------------------------------------------------------------
(* The invariant holds *)

\* Every step of a handler, and what it does to the record.
LEMMA HandlerStep ==
    ASSUME PlansInv, NEW h \in Handlers,
           \/ Step(h)
           \/ \E c \in Commands : StartCommand(h, c)
           \/ StartHydration(h)
           \/ \E label \in {"idle", "down"} : Fault(h, label)
    PROVE  Advance(h) /\ [Record!Next]_<<plan, stored>>
<1>1. CASE InsertPlan(h) \/ ReplacePlan(h)
  BY <1>1, InsertPlanStep, ReplacePlanStep
<1>2. CASE ReadPlan(h) \/ ReadBack(h)
  BY <1>2, ReadPlanStep, ReadBackStep DEF ReadPlan, ReadBack
<1>3. CASE UpdateChanged(h) \/ UpdateStable(h) \/ InsertRow(h) \/ UpdateAgain(h)
  BY <1>3, UpdateChangedStep, UpdateStableStep, InsertRowStep, UpdateAgainStep
  DEF UpdateChanged, UpdateStable, InsertRow, UpdateAgain
<1>4. CASE Answer(h)
  BY <1>4, AnswerStep DEF Answer
<1>5. CASE \E c \in Commands : StartCommand(h, c)
  BY <1>5, StartCommandStep DEF StartCommand, Begin
<1>6. CASE StartHydration(h)
  BY <1>6, StartHydrationStep DEF StartHydration, Begin
<1>7. CASE \E label \in {"idle", "down"} : Fault(h, label)
  BY <1>7, FaultStep DEF Fault
<1> QED
  BY <1>1, <1>2, <1>3, <1>4, <1>5, <1>6, <1>7 DEF Step

\* The other handlers keep their part of the invariant.
LEMMA OthersKeep ==
    ASSUME PlansInv, NEW h \in Handlers, Advance(h), NEW g \in Handlers \ {h}
    PROVE  HandlerInv(g)'
<1>0. HasCommand(g) /\ HoldsStored(g) /\ SwapReady(g) /\ Effective(g) /\ RowThere(g)
  BY InvFacts
<1>1. /\ pc'[g] = pc[g] /\ command'[g] = command[g] /\ copy'[g] = copy[g]
      /\ stored \subseteq stored' /\ (row # NoRow => row' # NoRow) /\ g \notin alone'
  BY DEF Advance, Others
<1>2. HasCommand(g)' /\ HoldsStored(g)' /\ RowThere(g)' /\ Solo(g)'
  BY <1>0, <1>1 DEF HasCommand, HoldsStored, RowThere, Solo
<1>3. SwapReady(g)'
  BY <1>0, <1>1 DEF SwapReady, Allowed
<1>4. InForce(command[g]) => InForce(command[g])'
  BY <1>1 DEF InForce, DesiredStatus, Created
<1>5. Effective(g)'
  BY <1>0, <1>1, <1>4 DEF Effective, InForce, DesiredStatus, Created
<1> QED
  BY <1>2, <1>3, <1>5 DEF HandlerInv

\* A worker that completes a one-time plan touches the enabled column only.
LEMMA CompleteOnceStep ==
    ASSUME PlansInv, CompleteOnce
    PROVE  PlansInv'
<1>0. PlansTypeOK /\ RecordInv /\ RequestInv
  BY DEF PlansInv
<1>1. row # NoRow /\ row \in Rows
  BY <1>0 DEF CompleteOnce, PlansTypeOK, NoRow
<1>2. row' \in Rows /\ row'.rev = row.rev /\ row'.json = row.json /\ ~row'.enabled
  BY <1>1 DEF CompleteOnce, Rows
<1>a. row' # NoRow
  BY <1>2 DEF Rows, NoRow
<1>3. PlansTypeOK' /\ RecordInv' /\ RequestInv'
  BY <1>0, <1>2 DEF CompleteOnce, PlansTypeOK, RecordInv, RequestInv, Created
<1>4. ASSUME NEW h \in Handlers
      PROVE  HandlerInv(h)'
  <2>0. HasCommand(h) /\ HoldsStored(h) /\ SwapReady(h) /\ Effective(h) /\ RowThere(h) /\ Solo(h)
    BY InvFacts
  <2>1. HasCommand(h)' /\ HoldsStored(h)' /\ SwapReady(h)' /\ RowThere(h)'
    BY <1>a, <2>0 DEF CompleteOnce, HasCommand, HoldsStored, SwapReady, RowThere, Allowed
  <2>2. Effective(h)'
    BY <2>0 DEF CompleteOnce, Effective, InForce, DesiredStatus, Created
  <2>3. RowFollows => RowFollows'
    BY <1>2 DEF CompleteOnce, RowFollows
  <2>4. Solo(h)'
    BY <1>1, <1>2, <2>0, <2>3 DEF CompleteOnce, Solo
  <2> QED
    BY <2>1, <2>2, <2>4 DEF HandlerInv
<1> QED
  BY <1>3, <1>4 DEF PlansInv

\* Every step keeps the invariant.
LEMMA InvStep == PlansInv /\ [Next]_vars => PlansInv'
<1>1. ASSUME PlansInv, NEW h \in Handlers, Advance(h)
      PROVE  PlansInv'
  <2>1. \A g \in Handlers : HandlerInv(g)'
    BY <1>1, OthersKeep DEF Advance
  <2>2. \A g \in Handlers : HoldsStored(g)' /\ HasCommand(g)'
    BY <2>1 DEF HandlerInv
  <2>3. SharedTypes' /\ LocalTypes' /\ RecordInv' /\ RequestInv'
    BY <1>1 DEF Advance
  <2>4. PlansTypeOK'
    BY <2>2, <2>3 DEF PlansTypeOK, SharedTypes, LocalTypes, AnyVersion, AnyCommand,
                      HoldsStored, HasCommand, Projecting
  <2> QED
    BY <2>1, <2>3, <2>4 DEF PlansInv
<1>2. ASSUME PlansInv, UNCHANGED vars
      PROVE  PlansInv'
  <2>1. PlansTypeOK' /\ RecordInv' /\ RequestInv'
    BY <1>2 DEF PlansInv, vars, PlansTypeOK, RecordInv, RequestInv, Created
  <2>2. ASSUME NEW h \in Handlers
        PROVE  HandlerInv(h)'
    <3>1. HandlerInv(h)
      BY <1>2 DEF PlansInv
    <3> QED
      BY <1>2, <3>1 DEF vars, HandlerInv, HasCommand, HoldsStored, SwapReady, Effective,
                        RowThere, Solo, Allowed, InForce, DesiredStatus, Created, RowFollows
  <2> QED
    BY <2>1, <2>2 DEF PlansInv
<1> QED
  BY <1>1, <1>2, HandlerStep, CompleteOnceStep DEF Next

\* The invariant holds before the plan is created.
LEMMA InvInit == Init => PlansInv
<1> SUFFICES ASSUME Init PROVE PlansInv
  OBVIOUS
<1>1. PlansTypeOK
  BY PlansAssumption DEF Init, PlansTypeOK, PcValues, Running
<1>2. RecordInv /\ RequestInv
  BY DEF Init, RecordInv, RequestInv, NoCommand
<1>3. \A h \in Handlers : HandlerInv(h)
  BY DEF Init, HandlerInv, HasCommand, HoldsStored, SwapReady, Effective, RowThere, Solo,
         Projecting, Running
<1> QED
  BY <1>1, <1>2, <1>3 DEF PlansInv

\* The inductive invariant holds of the plan record and its projection in every
\* reachable state.
THEOREM PlansInvariant == Spec => []PlansInv
  BY InvInit, InvStep, PTL DEF Spec

-----------------------------------------------------------------------------
(* Theorems *)

\* Records, rows and the locals of the handlers keep their types.
THEOREM PlansTypes == Spec => []PlansTypeOK
<1>1. PlansInv => PlansTypeOK
  BY DEF PlansInv
<1> QED
  BY <1>1, PlansInvariant, PTL

\* The statements of CreateScheduledPlan and ReplaceScheduledPlan implement PlanRecord:
\* one line of versions, each the result of one command on the version before it.
THEOREM RecordRefinement == Spec => RecordSpec
<1>1. Init => Record!Init
  BY DEF Init, Record!Init, NoVersion, Record!NoVersion
<1>2. PlansInv /\ [Next]_vars => [Record!Next]_<<plan, stored>>
  BY HandlerStep DEF Next, CompleteOnce, vars
<1> QED
  BY <1>1, <1>2, PlansInvariant, PTL DEF Spec, RecordSpec, Record!Spec

\* What UpdateScheduledPlan, changeScheduledPlanStatus, DeleteScheduledPlan and
\* CreateScheduledPlan answer with success is in force on record.
THEOREM AnsweredCommandsTakeEffect == Spec => []AnswersTakeEffect
<1>1. PlansInv => AnswersTakeEffect
  <2> SUFFICES ASSUME PlansInv, NEW h \in Handlers, pc[h] \in {"answered", "unchanged"}
               PROVE  copy[h] \in stored /\ InForce(command[h])
    BY DEF AnswersTakeEffect, InForce, Created
  <2> QED
    BY InvFacts DEF HoldsStored, Effective, Projecting
<1> QED
  BY <1>1, PlansInvariant, PTL

\* projectScheduledPlan, when no other call overlaps, leaves the row on the record.
THEOREM SoloProjection == Spec => []SoloCallProjects
<1>1. PlansInv => SoloCallProjects
  BY InvFacts DEF SoloCallProjects, Solo
<1> QED
  BY <1>1, PlansInvariant, PTL

\* reconcileWith enables a disabled row only together with a change of its revision.
THEOREM CompletionIsKept == Spec => RevivedOnlyByRevision
<1> DEFINE Kept == (row # NoRow /\ ~row.enabled /\ row'.enabled) => row'.rev # row.rev
<1>1. ASSUME PlansInv, NEW h \in Handlers, Step(h)
      PROVE  Kept
  <2>0. row \in Rows \union {NoRow}
    BY <1>1, InvFacts DEF SharedTypes
  <2>1. CASE UpdateChanged(h)
    BY <2>1 DEF UpdateChanged, Projected
  <2>2. CASE UpdateStable(h) \/ UpdateAgain(h)
    BY <2>0, <2>2 DEF UpdateStable, UpdateAgain, StableRow, Rows
  <2>3. CASE InsertRow(h)
    BY <2>3 DEF InsertRow
  <2>4. CASE InsertPlan(h) \/ ReadPlan(h) \/ ReplacePlan(h) \/ ReadBack(h) \/ Answer(h)
    BY <2>4 DEF InsertPlan, ReadPlan, ReplacePlan, ReadBack, Answer
  <2> QED
    BY <1>1, <2>1, <2>2, <2>3, <2>4 DEF Step
<1>2. ASSUME PlansInv, CompleteOnce
      PROVE  Kept
  BY <1>2 DEF CompleteOnce
<1>3. PlansInv /\ [Next]_vars => [Kept]_vars
  BY <1>1, <1>2 DEF Next, StartCommand, StartHydration, Begin, Fault
<1> QED
  BY <1>3, PlansInvariant, PTL DEF Spec, RevivedOnlyByRevision
=============================================================================
