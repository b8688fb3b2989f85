--------------------------- MODULE RunStoreProofs ---------------------------
(***************************************************************************)
(* Proofs about RunStore, for every set of definitions, every schedule and *)
(* every bound that its assumptions admit.                                 *)
(***************************************************************************)
EXTENDS RunStore, TLAPS, FiniteSetTheorems

\* A cursor that Claim writes is a cursor: NextSchedule and the misfire policy give
\* instants within the horizon or the one that stands for all later ones.
LEMMA AdvancedCursorType ==
    ASSUME NEW item \in DueTriggers
    PROVE  AdvancedCursor(item) \in Cursors
<1>1. /\ item.def \in Definitions
      /\ item.at \in Instants
      /\ item.next \in 0..(Horizon + 1)
  BY DEF DueTriggers
<1>2. item.at \in 0..Horizon
  BY <1>1, ConstantsAssumption DEF Instants
<1>3. NextSchedule[item.def][item.at] \in Cursors \union {0}
  BY <1>1, <1>2, ScheduleAssumption
<1> QED
  BY <1>1, <1>3, ConstantsAssumption DEF AdvancedCursor, Cursors, Instants

\* Every step of the store keeps the types of its columns.
LEMMA TypeStep == StoreTypeOK /\ [StoreNext]_storeVars => StoreTypeOK'
<1> SUFFICES ASSUME StoreTypeOK, [StoreNext]_storeVars
             PROVE  StoreTypeOK'
  OBVIOUS
<1> USE DEF StoreTypeOK
<1>1. ASSUME NEW o \in Owners, NEW item \in DueTriggers, ClaimNew(o, item)
      PROVE  StoreTypeOK'
  <2>1. /\ RunId(item) \in RunIds
        /\ item.def \in Definitions
    BY DEF DueTriggers, RunId, RunIds
  <2>2. /\ enabled' \subseteq Definitions
        /\ cursor' \in [Definitions -> Cursors]
        /\ skipped' \in [Definitions -> SUBSET Instants]
    BY <1>1, <2>1, AdvancedCursorType
    DEF ClaimNew, AdvanceCursor, GivenUp, definitionVars
  <2>3. /\ status' \in [RunIds -> Statuses]
        /\ attempt' \in [RunIds -> Nat]
        /\ token' \in [RunIds -> Nat]
        /\ owner' \in [RunIds -> Owners \union {NoOwner}]
    BY <1>1, <2>1 DEF ClaimNew, Statuses
  <2> QED
    BY <1>1, <2>2, <2>3 DEF ClaimNew
<1>2. ASSUME NEW o \in Owners, NEW r \in RunIds, TakeExpired(o, r)
      PROVE  StoreTypeOK'
  BY <1>2 DEF TakeExpired, Statuses
<1>3. ASSUME NEW c \in HeldCopies, Renew(c) \/ Accept(c) \/ Fail(c)
      PROVE  StoreTypeOK'
  <2>1. c.id \in RunIds
    BY DEF HeldCopies
  <2> QED
    BY <1>3, <2>1 DEF Renew, Accept, Fail, Statuses
<1>4. ASSUME NEW r \in RunIds,
             (\E o \in Owners : Retry(o, r)) \/ Cancel(r) \/ ResolveDeadLetter(r) \/ Elapse(r)
      PROVE  StoreTypeOK'
  BY <1>4 DEF Retry, Resolved, Cancel, ResolveDeadLetter, Elapse, Statuses
<1>5. ASSUME NEW d \in Definitions, NEW next \in Cursors, PlaceCursor(d, next),
             enabled' \subseteq Definitions
      PROVE  StoreTypeOK'
  BY <1>5 DEF PlaceCursor
<1>6. ASSUME DefinitionStep
      PROVE  StoreTypeOK'
  <2>1. ASSUME NEW d \in Definitions, NEW next \in Cursors, NEW enable \in BOOLEAN,
               Reschedule(d, next) \/ ReconcileChanged(d, next, enable)
        PROVE  StoreTypeOK'
    <3>1. PlaceCursor(d, next) /\ enabled' \subseteq Definitions
      BY <2>1 DEF Reschedule, ReconcileChanged
    <3> QED
      BY <3>1, <1>5
  <2>2. ASSUME NEW d \in Definitions, NEW expected \in Instants,
               NEW next \in 0..(Horizon + 1), NEW disable \in BOOLEAN,
               FastForward(d, expected, next, disable)
        PROVE  StoreTypeOK'
    <3>1. (IF next = 0 THEN expected ELSE next) \in Cursors
      BY ConstantsAssumption DEF Instants, Cursors
    <3>2. /\ PlaceCursor(d, IF next = 0 THEN expected ELSE next)
          /\ enabled' \subseteq Definitions
      BY <2>2 DEF FastForward
    <3> QED
      BY <3>1, <3>2, <1>5
  <2>3. ASSUME NEW d \in Definitions, NEW enable \in BOOLEAN, ReconcileStable(d, enable)
        PROVE  StoreTypeOK'
    BY <2>3 DEF ReconcileStable
  <2>4. ASSUME DisablePublished
        PROVE  StoreTypeOK'
    BY <2>4 DEF DisablePublished
  <2>5. ASSUME NEW active \in SUBSET Definitions, EnableActive(active)
        PROVE  StoreTypeOK'
    BY <2>5 DEF EnableActive
  <2> QED
    BY <1>6, <2>1, <2>2, <2>3, <2>4, <2>5 DEF DefinitionStep
<1>7. ASSUME UNCHANGED storeVars
      PROVE  StoreTypeOK'
  BY <1>7 DEF storeVars
<1> QED
  BY <1>1, <1>2, <1>3, <1>4, <1>6, <1>7 DEF StoreNext, ClaimStep, LeaseStep, OperatorStep

\* Whatever the callers do, every column of the store keeps its type; in particular
\* no cursor ever becomes Go's zero time, which every poll would find due.
THEOREM StoreTypeCorrect == StoreSpec => []StoreTypeOK
<1>1. StoreInit => StoreTypeOK
  BY ConstantsAssumption, ScheduleAssumption DEF StoreInit, StoreTypeOK, Statuses
<1> QED
  BY <1>1, TypeStep, PTL DEF StoreSpec

-----------------------------------------------------------------------------
(* The run rows and the dead letters *)

\* The invariants of single rows are inductive only together: the attempt that
\* Fail judges by is the row's own because a live copy has attempt = token, and a
\* retry beyond the budget is one whose dead letter is on record.
RowsInv == RowsConsistent /\ DeadLetterEvidence /\ RetryBudget

\* Nothing that happens to a definition row touches a run or a dead letter.
LEMMA DefinitionStepKeepsRuns ==
    DefinitionStep => UNCHANGED <<status, attempt, token, owner, elapsed, deadLetter>>
  BY DEF DefinitionStep, Reschedule, ReconcileChanged, FastForward, ReconcileStable,
         DisablePublished, EnableActive, PlaceCursor

\* A live copy is an up-to-date one: its attempt is the attempt of the row.
LEMMA LiveCopyIsCurrent ==
    ASSUME StoreTypeOK, RowsConsistent, NEW c \in HeldCopies, LiveLease(c)
    PROVE  /\ c.id \in RunIds
           /\ status[c.id] = "leased"
           /\ attempt[c.id] = c.attempt
           /\ c.attempt \in Nat
<1>1. /\ c.id \in RunIds
      /\ c.attempt = c.token
      /\ c.attempt \in Nat
  BY ConstantsAssumption DEF HeldCopies
<1>2. status[c.id] = "leased" /\ token[c.id] = c.token
  BY DEF LiveLease
<1> QED
  BY <1>1, <1>2 DEF RowsConsistent

\* Every step of the store preserves the row invariants.
LEMMA RowsStep == StoreTypeOK /\ RowsInv /\ [StoreNext]_storeVars => RowsInv'
<1> SUFFICES ASSUME StoreTypeOK, RowsInv, [StoreNext]_storeVars
             PROVE  RowsInv'
  OBVIOUS
<1>a. RowsConsistent /\ DeadLetterEvidence /\ RetryBudget
  BY DEF RowsInv
<1>b. StoreTypeOK'
  BY TypeStep
<1> USE DEF RowsInv, RowsConsistent, DeadLetterEvidence, RetryBudget, Active
<1>1. ASSUME NEW o \in Owners, NEW item \in DueTriggers, ClaimNew(o, item)
      PROVE  RowsInv'
  <2> DEFINE r == RunId(item)
  <2>1. r \in RunIds /\ o # NoOwner
    BY ConstantsAssumption DEF DueTriggers, RunId, RunIds
  <2>2. /\ status[r] = "absent"
        /\ status'  = [status EXCEPT ![r] = "leased"]
        /\ attempt' = [attempt EXCEPT ![r] = 1]
        /\ token'   = [token EXCEPT ![r] = 1]
        /\ owner'   = [owner EXCEPT ![r] = o]
        /\ UNCHANGED <<elapsed, deadLetter>>
    BY <1>1 DEF ClaimNew
  <2> QED
    BY <2>1, <2>2, <1>a DEF StoreTypeOK
<1>2. ASSUME NEW o \in Owners, NEW r \in RunIds, TakeExpired(o, r)
      PROVE  RowsInv'
  <2>1. o # NoOwner
    BY ConstantsAssumption
  <2> QED
    BY <1>2, <2>1, <1>a DEF TakeExpired, Takeable, StoreTypeOK
<1>3. ASSUME NEW c \in HeldCopies, Renew(c)
      PROVE  RowsInv'
  BY <1>3, <1>a DEF Renew
<1>4. ASSUME NEW c \in HeldCopies, Accept(c)
      PROVE  RowsInv'
  <2>1. c.id \in RunIds /\ status[c.id] = "leased"
    BY <1>4, <1>a, LiveCopyIsCurrent DEF Accept
  <2> QED
    BY <1>4, <2>1, <1>a DEF Accept, StoreTypeOK
<1>5. ASSUME NEW c \in HeldCopies, Fail(c)
      PROVE  RowsInv'
  <2>1. /\ c.id \in RunIds
        /\ status[c.id] = "leased"
        /\ attempt[c.id] = c.attempt
        /\ c.attempt \in Nat
    BY <1>5, <1>a, LiveCopyIsCurrent DEF Fail
  <2>2. MaxAttempts[c.id[1]] \in Nat
    BY <2>1, ConstantsAssumption DEF RunIds
  <2>3. CASE ~Terminal(c)
    BY <1>5, <2>1, <2>2, <2>3, <1>a DEF Fail, Terminal, StoreTypeOK
  <2>4. CASE Terminal(c)
    BY <1>5, <2>1, <2>2, <2>4, <1>a DEF Fail, Terminal, StoreTypeOK
  <2> QED
    BY <2>3, <2>4
<1>6. ASSUME NEW o \in Owners, NEW r \in RunIds, Retry(o, r)
      PROVE  RowsInv'
  BY <1>6, <1>a DEF Retry, Resolved, StoreTypeOK
<1>7. ASSUME NEW r \in RunIds, Cancel(r)
      PROVE  RowsInv'
  BY <1>7, <1>a DEF Cancel, Cancellable, StoreTypeOK
<1>8. ASSUME NEW r \in RunIds, ResolveDeadLetter(r)
      PROVE  RowsInv'
  BY <1>8, <1>a DEF ResolveDeadLetter, StoreTypeOK
<1>9. ASSUME NEW r \in RunIds, Elapse(r)
      PROVE  RowsInv'
  BY <1>9, <1>a DEF Elapse
<1>10. CASE DefinitionStep
  BY <1>10, <1>a, DefinitionStepKeepsRuns
<1>11. CASE UNCHANGED storeVars
  BY <1>11, <1>a DEF storeVars
<1> QED
  BY <1>1, <1>2, <1>3, <1>4, <1>5, <1>6, <1>7, <1>8, <1>9, <1>10, <1>11
  DEF StoreNext, ClaimStep, LeaseStep, OperatorStep

\* The row invariants and the types hold in every reachable state.
THEOREM RowsCorrect == StoreSpec => [](StoreTypeOK /\ RowsInv)
<1>1. StoreInit => RowsInv
  BY ConstantsAssumption DEF StoreInit, RowsInv, RowsConsistent, DeadLetterEvidence,
                             RetryBudget, Active
<1>2. StoreInit => StoreTypeOK
  BY ConstantsAssumption, ScheduleAssumption DEF StoreInit, StoreTypeOK, Statuses
<1> QED
  BY <1>1, <1>2, TypeStep, RowsStep, PTL DEF StoreSpec

\* The run table and the dead letter table never contradict each other.
THEOREM DeadLettersCorrect == StoreSpec => []DeadLetterEvidence
  BY RowsCorrect, PTL DEF RowsInv

\* Automatic retries stay within MaxAttempts, and only a run that has used up its
\* attempts is dead-lettered.
THEOREM RetryBudgetKept == StoreSpec => []RetryBudget
  BY RowsCorrect, PTL DEF RowsInv

\* Owner, deadline, attempt and fencing token of a run always fit its status.
THEOREM RowsStayConsistent == StoreSpec => []RowsConsistent
  BY RowsCorrect, PTL DEF RowsInv

-----------------------------------------------------------------------------
(* Windows *)

\* No step loses a window.
LEMMA WindowsStep ==
    StoreTypeOK /\ WindowsAccounted /\ [StoreNext]_storeVars => WindowsAccounted'
<1> SUFFICES ASSUME StoreTypeOK, WindowsAccounted, [StoreNext]_storeVars,
                    NEW d \in Definitions, NEW t \in Windows(d) \cap Instants,
                    t < cursor'[d]
             PROVE  status'[<<d, t>>] # "absent" \/ t \in skipped'[d]
  BY DEF WindowsAccounted
<1>a. <<d, t>> \in RunIds /\ t \in Nat
  BY ConstantsAssumption DEF RunIds, Instants
<1>b. t < cursor[d] => status[<<d, t>>] # "absent" \/ t \in skipped[d]
  BY DEF WindowsAccounted
<1>1. ASSUME NEW o \in Owners, NEW item \in DueTriggers, ClaimNew(o, item)
      PROVE  status'[<<d, t>>] # "absent" \/ t \in skipped'[d]
  <2>1. /\ RunId(item) = <<item.def, item.at>>
        /\ RunId(item) \in RunIds
        /\ item.def \in Definitions
        /\ item.at \in 0..Horizon
        /\ item.next \in Nat
    BY ConstantsAssumption DEF DueTriggers, RunId, RunIds, Instants
  <2>2. /\ status[<<d, t>>] # "absent" => status'[<<d, t>>] # "absent"
        /\ status'[RunId(item)] # "absent"
    BY <1>1, <1>a, <2>1 DEF ClaimNew, StoreTypeOK
  <2>3. CASE UNCHANGED definitionVars
    BY <2>2, <2>3, <1>b DEF definitionVars
  <2>4. CASE AdvanceCursor(item)
    <3>1. CASE d # item.def
      BY <2>2, <2>4, <3>1, <1>b DEF AdvanceCursor, StoreTypeOK
    <3>2. CASE d = item.def
      <4>1. /\ cursor[d] = item.at
            /\ cursor'[d] = AdvancedCursor(item)
            /\ skipped'[d] = skipped[d] \union GivenUp(item)
        BY <2>1, <2>4, <3>2 DEF AdvanceCursor, CursorIs, StoreTypeOK
      <4>2. CASE t < item.at
        BY <4>1, <4>2, <2>2, <1>b
      <4>3. CASE t = item.at
        BY <4>3, <3>2, <2>1, <2>2
      <4>4. CASE t > item.at
        <5>1. item.next # 0
          <6>1. SUFFICES ASSUME item.next = 0
                         PROVE  FALSE
            OBVIOUS
          <6>2. NextSchedule[d][item.at] # 0 /\ NextSchedule[d][item.at] <= t
            BY <2>1, <3>2, <4>4, ScheduleAssumption
          <6>3. NextSchedule[d][item.at] \in Cursors \union {0}
            BY <2>1, ScheduleAssumption
          <6>4. NextSchedule[d][item.at] \in Nat
            BY <6>3, ConstantsAssumption DEF Cursors
          <6> QED
            BY <6>1, <6>2, <6>4, <4>1, <4>4, <3>2, <2>1, <1>a DEF AdvancedCursor
        <5>2. t \in GivenUp(item)
          BY <5>1, <4>1, <4>4 DEF GivenUp, AdvancedCursor
        <5> QED
          BY <5>2, <4>1
      <4> QED
        BY <4>2, <4>3, <4>4, <2>1, <1>a
    <3> QED
      BY <3>1, <3>2
  <2> QED
    BY <1>1, <2>3, <2>4 DEF ClaimNew
<1>2. ASSUME NEW e \in Definitions, NEW next \in Cursors, PlaceCursor(e, next)
      PROVE  status'[<<d, t>>] # "absent" \/ t \in skipped'[d]
  <2>1. CASE d # e
    BY <1>2, <2>1, <1>b DEF PlaceCursor, StoreTypeOK
  <2>2. CASE d = e
    BY <1>2, <2>2 DEF PlaceCursor, StoreTypeOK
  <2> QED
    BY <2>1, <2>2
<1>3. ASSUME UNCHANGED <<cursor, skipped>>,
             status[<<d, t>>] # "absent" => status'[<<d, t>>] # "absent"
      PROVE  status'[<<d, t>>] # "absent" \/ t \in skipped'[d]
  BY <1>3, <1>b
<1>4. CASE DefinitionStep
  <2>1. CASE UNCHANGED <<cursor, skipped, status>>
    BY <2>1, <1>3
  <2>2. ASSUME NEW e \in Definitions, NEW next \in Cursors, NEW enable \in BOOLEAN,
               Reschedule(e, next) \/ ReconcileChanged(e, next, enable)
        PROVE  status'[<<d, t>>] # "absent" \/ t \in skipped'[d]
    BY <2>2, <1>2 DEF Reschedule, ReconcileChanged
  <2>3. ASSUME NEW e \in Definitions, NEW expected \in Instants,
               NEW next \in 0..(Horizon + 1), NEW disable \in BOOLEAN,
               FastForward(e, expected, next, disable)
        PROVE  status'[<<d, t>>] # "absent" \/ t \in skipped'[d]
    <3>1. (IF next = 0 THEN expected ELSE next) \in Cursors
      BY ConstantsAssumption DEF Instants, Cursors
    <3>2. PlaceCursor(e, IF next = 0 THEN expected ELSE next)
      BY <2>3 DEF FastForward
    <3> QED
      BY <3>1, <3>2, <1>2
  <2> QED
    BY <1>4, <2>1, <2>2, <2>3
    DEF DefinitionStep, ReconcileStable, DisablePublished, EnableActive
<1>5. ASSUME NEW o \in Owners, NEW r \in RunIds, TakeExpired(o, r)
      PROVE  status'[<<d, t>>] # "absent" \/ t \in skipped'[d]
  BY <1>5, <1>3, <1>a DEF TakeExpired, StoreTypeOK
<1>6. ASSUME NEW c \in HeldCopies, Renew(c) \/ Accept(c) \/ Fail(c)
      PROVE  status'[<<d, t>>] # "absent" \/ t \in skipped'[d]
  <2>1. c.id \in RunIds
    BY DEF HeldCopies
  <2> QED
    BY <1>6, <2>1, <1>3, <1>a DEF Renew, Accept, Fail, StoreTypeOK
<1>7. ASSUME NEW r \in RunIds,
             (\E o \in Owners : Retry(o, r)) \/ Cancel(r) \/ ResolveDeadLetter(r) \/ Elapse(r)
      PROVE  status'[<<d, t>>] # "absent" \/ t \in skipped'[d]
  BY <1>7, <1>3, <1>a DEF Retry, Cancel, ResolveDeadLetter, Elapse, StoreTypeOK
<1>8. CASE UNCHANGED storeVars
  BY <1>8, <1>3 DEF storeVars
<1> QED
  BY <1>1, <1>4, <1>5, <1>6, <1>7, <1>8
  DEF StoreNext, ClaimStep, LeaseStep, OperatorStep

\* No window is lost, for every schedule, misfire policy and number of processes:
\* a window behind the cursor was claimed or deliberately given up.
THEOREM WindowsNeverLost == StoreSpec => []WindowsAccounted
<1>1. StoreInit => WindowsAccounted
  <2> SUFFICES ASSUME StoreInit, NEW d \in Definitions, NEW t \in Windows(d) \cap Instants
               PROVE  ~(t < cursor[d])
    BY DEF WindowsAccounted
  <2>1. NextSchedule[d][0] <= t /\ NextSchedule[d][0] \in Nat /\ t \in Nat
    BY ScheduleAssumption, ConstantsAssumption DEF Instants, Cursors
  <2> QED
    BY <2>1 DEF StoreInit
<1> QED
  BY <1>1, StoreTypeCorrect, WindowsStep, PTL DEF StoreSpec

-----------------------------------------------------------------------------
(* Backlog *)

\* The runs are finitely many, so the backlog can be counted.
LEMMA RunsFinite == IsFiniteSet(RunIds)
<1>1. IsFiniteSet(Instants)
  BY FS_Interval, ConstantsAssumption DEF Instants
<1> QED
  BY <1>1, FS_Product, ConstantsAssumption DEF RunIds

\* A step adds at most one run to the backlog, and only after counting.
LEMMA BacklogStep ==
    StoreTypeOK /\ RowsInv /\ BacklogBounded /\ [StoreNext]_storeVars => BacklogBounded'
<1> SUFFICES ASSUME StoreTypeOK, RowsInv, BacklogBounded, [StoreNext]_storeVars
             PROVE  BacklogBounded'
  OBVIOUS
<1>a. IsFiniteSet(Pending) /\ Cardinality(Pending) \in Nat
  BY RunsFinite, FS_Subset, FS_CardinalityType DEF Pending
<1>b. RowsConsistent
  BY DEF RowsInv
<1>1. ASSUME Pending' \subseteq Pending
      PROVE  BacklogBounded'
  <2>1. Cardinality(Pending') <= Cardinality(Pending) /\ Cardinality(Pending') \in Nat
    BY <1>1, <1>a, FS_Subset, FS_CardinalityType
  <2> QED
    BY <1>1, <2>1, <1>a, ConstantsAssumption DEF BacklogBounded
<1>2. ASSUME NEW o \in Owners, NEW r \in RunIds, CapacityLeft(o), status[r] \notin Active,
             \E s \in Active : status' = [status EXCEPT ![r] = s]
      PROVE  BacklogBounded'
  <2>1. Pending' = Pending \union {r} /\ r \notin Pending
    BY <1>2 DEF Pending, Active, StoreTypeOK
  <2>2. Cardinality(Pending \union {r}) = Cardinality(Pending) + 1
    BY <2>1, <1>a, FS_AddElement
  <2> QED
    BY <1>2, <2>1, <2>2, <1>a, ConstantsAssumption DEF BacklogBounded, CapacityLeft
<1>3. ASSUME NEW o \in Owners, NEW item \in DueTriggers, ClaimNew(o, item)
      PROVE  BacklogBounded'
  <2>1. RunId(item) \in RunIds
    BY DEF DueTriggers, RunId, RunIds
  <2> QED
    BY <1>3, <2>1, <1>2 DEF ClaimNew, Active
<1>4. ASSUME NEW o \in Owners, NEW r \in RunIds, Retry(o, r)
      PROVE  BacklogBounded'
  BY <1>4, <1>2 DEF Retry, Active
<1>5. ASSUME NEW o \in Owners, NEW r \in RunIds, TakeExpired(o, r)
      PROVE  BacklogBounded'
  <2>1. Pending' \subseteq Pending
    BY <1>5 DEF TakeExpired, Takeable, Pending, Active, StoreTypeOK
  <2> QED
    BY <2>1, <1>1
<1>6. ASSUME NEW c \in HeldCopies, Renew(c) \/ Accept(c) \/ Fail(c)
      PROVE  BacklogBounded'
  <2>1. c.id \in RunIds /\ status[c.id] = "leased"
    BY <1>6, <1>b, LiveCopyIsCurrent DEF Renew, Accept, Fail
  <2>2. Pending' \subseteq Pending
    BY <1>6, <2>1 DEF Renew, Accept, Fail, Pending, Active, StoreTypeOK
  <2> QED
    BY <2>2, <1>1
<1>7. ASSUME NEW r \in RunIds, Cancel(r) \/ ResolveDeadLetter(r) \/ Elapse(r)
      PROVE  BacklogBounded'
  <2>1. Pending' \subseteq Pending
    BY <1>7 DEF Cancel, ResolveDeadLetter, Elapse, Pending, Active, StoreTypeOK
  <2> QED
    BY <2>1, <1>1
<1>8. CASE DefinitionStep \/ UNCHANGED storeVars
  <2>1. Pending' \subseteq Pending
    BY <1>8, DefinitionStepKeepsRuns DEF Pending, storeVars
  <2> QED
    BY <2>1, <1>1
<1> QED
  BY <1>3, <1>4, <1>5, <1>6, <1>7, <1>8
  DEF StoreNext, ClaimStep, LeaseStep, OperatorStep

\* The trigger backlog never exceeds the largest configured limit, however many
\* processes race and whatever limit each of them counts against.
THEOREM BacklogNeverExceeded == StoreSpec => []BacklogBounded
<1>1. StoreInit => BacklogBounded
  <2> SUFFICES ASSUME StoreInit PROVE BacklogBounded
    OBVIOUS
  <2>1. Pending = {}
    BY DEF StoreInit, Pending, Active
  <2> QED
    BY <2>1 DEF BacklogBounded
<1> QED
  BY <1>1, RowsCorrect, BacklogStep, PTL DEF StoreSpec

-----------------------------------------------------------------------------
(* Settled runs *)

\* A succeeded or cancelled run is never touched again: every write to a run row is
\* conditional on a status that such a run no longer has.
THEOREM SettledStaysFinal == StoreSpec => SettledIsFinal
<1> DEFINE Final == \A r \in RunIds : status[r] \in {"succeeded", "cancelled"} =>
                        /\ status'[r] = status[r]
                        /\ token'[r] = token[r]
                        /\ attempt'[r] = attempt[r]
<1>1. StoreTypeOK /\ [StoreNext]_storeVars => [Final]_storeVars
  <2> SUFFICES ASSUME StoreTypeOK, StoreNext
               PROVE  Final
    OBVIOUS
  <2>1. ASSUME NEW o \in Owners, NEW item \in DueTriggers, ClaimNew(o, item)
        PROVE  Final
    <3>1. RunId(item) \in RunIds
      BY DEF DueTriggers, RunId, RunIds
    <3> QED
      BY <2>1, <3>1 DEF ClaimNew, StoreTypeOK
  <2>2. ASSUME NEW o \in Owners, NEW r \in RunIds, TakeExpired(o, r)
        PROVE  Final
    BY <2>2 DEF TakeExpired, Takeable, Active, StoreTypeOK
  <2>3. ASSUME NEW c \in HeldCopies, Renew(c) \/ Accept(c) \/ Fail(c)
        PROVE  Final
    <3>1. c.id \in RunIds
      BY DEF HeldCopies
    <3> QED
      BY <2>3, <3>1 DEF Renew, Accept, Fail, LiveLease, StoreTypeOK
  <2>4. ASSUME NEW r \in RunIds,
               (\E o \in Owners : Retry(o, r)) \/ Cancel(r) \/ ResolveDeadLetter(r) \/ Elapse(r)
        PROVE  Final
    BY <2>4 DEF Retry, Cancel, Cancellable, ResolveDeadLetter, Elapse, Active, StoreTypeOK
  <2>5. CASE DefinitionStep
    BY <2>5, DefinitionStepKeepsRuns
  <2> QED
    BY <2>1, <2>2, <2>3, <2>4, <2>5 DEF StoreNext, ClaimStep, LeaseStep, OperatorStep
<1> QED
  BY <1>1, StoreTypeCorrect, PTL DEF StoreSpec, SettledIsFinal
=============================================================================
