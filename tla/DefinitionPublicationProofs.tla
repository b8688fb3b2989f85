--------------------- MODULE DefinitionPublicationProofs ---------------------
(***************************************************************************)
(* Proofs about DefinitionPublication, for any number of processes,        *)
(* generations, revisions, contents, retries, crashes and failing calls.   *)
(*                                                                         *)
(* The argument: snapshots are ordered by Leq.  The canonical snapshot     *)
(* only grows, because a commit re-checks under its compare-and-swap what  *)
(* the ordering checks were made against.  A copy read from the canonical  *)
(* snapshot is therefore below it for ever after, and equal to it only     *)
(* while the process that locked the row keeps others from committing.     *)
(***************************************************************************)
EXTENDS DefinitionPublication, TLAPS

-----------------------------------------------------------------------------
(* The inductive invariant *)

\* s is the snapshot t or was published before it.
Leq(s, t) == s = t \/ Before(s, t)

\* A process about to take a generation has checked that one is left.
SwapLeft(p) == pc[p] = "beginSwap" => seen[p].active.gen < MaxGeneration

\* What is committed was checked against what was seen.
CommitChecked(p) ==
    pc[p] = "commit" => Disposition(request[p], seen[p].active, seen[p].cursor) = "apply"

\* The part of a call that projects; a process that is down has yet to project.
Projecting == {"down", "state", "rows", "cursor", "lock", "readback", "apply"}

\* The request of a call that projects has been committed.
RequestCommitted(p) == pc[p] \in Projecting => Leq(request[p], canonical)

\* The copy that was gathered was canonical once, and still is for the lock holder.
CopyBehind(p) ==
    /\ pc[p] = "lock" => Leq(Fenced(copy[p]), canonical)
    /\ pc[p] = "readback" => \/ lock = p /\ Fenced(copy[p]) = canonical
                             \/ Before(Fenced(copy[p]), canonical)
    /\ pc[p] = "apply" => lock = p /\ Fenced(copy[p]) = canonical

LocalInv(p) == SwapLeft(p) /\ CommitChecked(p) /\ RequestCommitted(p) /\ CopyBehind(p)

\* Generations were handed out once each, the last one to the session in the row.
ActiveIsLast ==
    /\ SessionsUnique
    /\ \A s \in issued : s.gen <= active.gen /\ (s.gen = active.gen => s = active)

\* What was acknowledged is projected, and what is projected was committed.
InOrder == Leq(acked, projected) /\ Leq(projected, canonical)

PublicationInv ==
    PublicationTypeOK /\ ActiveIsLast /\ InOrder /\ \A p \in Processes : LocalInv(p)

-----------------------------------------------------------------------------
(* Values *)

AnySession == Sessions \union {NoSession}
AnySnapshot == Snapshots \union {NoSnapshot}
AnySeen == [active: AnySession, cursor: AnySnapshot]

\* The parts of sessions, snapshots and copies.
LEMMA ValueTypes ==
    /\ NothingSeen \in AnySeen
    /\ NoCopy \in Copies
    /\ \A s \in AnySession : s.gen \in 0..MaxGeneration
    /\ \A s \in AnySnapshot : /\ s.gen \in 0..MaxGeneration /\ s.rev \in 0..MaxRevision
                              /\ s.by \in Processes \union {NoProcess}
                              /\ s.content \in Contents \union {NoContent}
                              /\ s = Fenced(s)
    /\ \A c \in Copies : Fenced(c).gen \in 0..MaxGeneration /\ Fenced(c).rev \in 0..MaxRevision
    /\ \A s \in AnySnapshot : Leq(NoSnapshot, s)
  BY PublicationAssumption
  DEF NothingSeen, NoCopy, Copies, Snapshots, NoSnapshot, Sessions, NoSession,
      AnySession, AnySnapshot, AnySeen, Fenced, Leq, Before

\* The publication order is transitive and irreflexive.
LEMMA OrderFacts ==
    ASSUME NEW s, NEW t, NEW u,
           s.gen \in Nat, t.gen \in Nat, u.gen \in Nat,
           s.rev \in Nat, t.rev \in Nat, u.rev \in Nat
    PROVE  /\ Leq(s, t) /\ Leq(t, u) => Leq(s, u)
           /\ Before(s, t) /\ Leq(t, u) => Before(s, u)
           /\ Before(s, t) => s # t /\ ~Before(t, s)
  BY DEF Leq, Before

\* A snapshot the ordering checks let through comes after the cursor.
LEMMA ApplyIsNewer ==
    ASSUME NEW s \in AnySnapshot, NEW act, NEW cur \in AnySnapshot,
           Disposition(s, act, cur) = "apply"
    PROVE  Before(cur, s) /\ SessionOf(s) = act
<1>1. /\ SessionOf(s) = act
      /\ ~(s.gen < cur.gen)
      /\ s.gen = cur.gen => s.by = cur.by /\ ~(s.rev < cur.rev)
      /\ s.gen = cur.gen /\ s.rev = cur.rev => s.content = cur.content
      /\ s # cur
  BY DEF Disposition
<1>2. s = Fenced(s) /\ cur = Fenced(cur)
  BY ValueTypes
<1>3. s.gen = cur.gen /\ s.rev = cur.rev => s = cur
  BY <1>1, <1>2 DEF Fenced
<1>4. s.gen \in Nat /\ s.rev \in Nat /\ cur.gen \in Nat /\ cur.rev \in Nat
  BY ValueTypes
<1> QED
  BY <1>1, <1>3, <1>4 DEF Before

-----------------------------------------------------------------------------
(* The locals of a process *)

LocalTypes ==
    /\ pc \in [Processes -> PcValues]
    /\ request \in [Processes -> AnySnapshot]
    /\ seen \in [Processes -> AnySeen]
    /\ copy \in [Processes -> Copies]
    /\ tries \in [Processes -> Nat]

\* The locals of the other processes are left alone.
Others(p) == \A q \in Processes \ {p} :
    /\ pc'[q] = pc[q]
    /\ request'[q] = request[q]
    /\ seen'[q] = seen[q]
    /\ copy'[q] = copy[q]

\* Assignments to the locals of one process.
LEMMA Assigned ==
    ASSUME LocalTypes, NEW p \in Processes,
           NEW l \in PcValues, NEW r \in AnySnapshot, NEW s \in AnySeen,
           NEW c \in Copies, NEW t \in Nat,
           pc' = [pc EXCEPT ![p] = l], request' = [request EXCEPT ![p] = r],
           seen' = [seen EXCEPT ![p] = s], copy' = [copy EXCEPT ![p] = c],
           tries' = [tries EXCEPT ![p] = t]
    PROVE  /\ LocalTypes' /\ Others(p)
           /\ pc'[p] = l /\ request'[p] = r /\ seen'[p] = s /\ copy'[p] = c
  BY DEF LocalTypes, Others

\* A call that returns leaves the process idle.
LEMMA Returned ==
    ASSUME LocalTypes, NEW p \in Processes, Return(p)
    PROVE  LocalTypes' /\ Others(p) /\ pc'[p] = "idle"
<1>1. "idle" \in PcValues /\ NoSnapshot \in AnySnapshot /\ 0 \in Nat
  BY DEF PcValues, AnySnapshot
<1> QED
  BY <1>1, Assigned, ValueTypes DEF Return, Goto

\* A call that tries again keeps its request.
LEMMA TriedAgain ==
    ASSUME LocalTypes, NEW p \in Processes, NEW label \in PcValues, NEW limit,
           TryAgain(p, label, limit)
    PROVE  /\ LocalTypes' /\ Others(p)
           /\ \/ pc'[p] = "idle"
              \/ pc'[p] = label /\ request'[p] = request[p]
<1>1. CASE Return(p)
  BY <1>1, Returned
<1>2. CASE /\ Goto(p, label)
           /\ tries' = [tries EXCEPT ![p] = @ + 1]
           /\ seen'  = [seen EXCEPT ![p] = NothingSeen]
           /\ copy'  = [copy EXCEPT ![p] = NoCopy]
           /\ UNCHANGED request
  <2>1. tries[p] + 1 \in Nat
    BY DEF LocalTypes
  <2> QED
    BY <1>2, <2>1, ValueTypes DEF Goto, LocalTypes, Others
<1> QED
  BY <1>1, <1>2 DEF TryAgain

\* A call that fails returns; a process that fails to hydrate stays down.
LEMMA FailedCall ==
    ASSUME LocalTypes, NEW p \in Processes, Failed(p)
    PROVE  /\ LocalTypes' /\ Others(p)
           /\ \/ pc'[p] = "idle"
              \/ pc'[p] = "down" /\ request'[p] = NoSnapshot
<1>1. CASE Return(p)
  BY <1>1, Returned
<1>2. CASE /\ request[p] = NoSnapshot
           /\ Goto(p, "down")
           /\ copy'  = [copy EXCEPT ![p] = NoCopy]
           /\ tries' = [tries EXCEPT ![p] = 0]
           /\ UNCHANGED <<request, seen>>
  <2>1. "down" \in PcValues
    BY DEF PcValues
  <2> QED
    BY <1>2, <2>1, ValueTypes DEF Goto, LocalTypes, Others
<1> QED
  BY <1>1, <1>2 DEF Failed

-----------------------------------------------------------------------------
(* What a step does *)

GlobalTypes ==
    /\ active \in AnySession
    /\ canonical \in AnySnapshot
    /\ projected \in AnySnapshot
    /\ lock \in Processes \union {NoProcess}
    /\ issued \subseteq Sessions
    /\ acked \in AnySnapshot
    /\ crashes \in 0..MaxCrashes
    /\ errors \in 0..MaxErrors

\* The type invariant in two parts: shared rows and locals.
LEMMA TypesSplit ==
    /\ PublicationTypeOK <=> GlobalTypes /\ LocalTypes
    /\ PublicationTypeOK' <=> GlobalTypes' /\ LocalTypes'
  BY DEF PublicationTypeOK, GlobalTypes, LocalTypes, AnySession, AnySnapshot, AnySeen

\* What every step of process p keeps or may do: the row moves forward, only while no
\* transaction locks it, and never for a session older than one handed out.
Progress(p) ==
    /\ GlobalTypes' /\ LocalTypes' /\ Others(p)
    /\ LocalInv(p)' /\ ActiveIsLast' /\ InOrder'
    /\ Leq(canonical, canonical') /\ Leq(projected, projected')
    /\ canonical' # canonical =>
           lock = NoProcess /\ \A s \in issued : s.gen <= canonical'.gen
    /\ \A q \in Processes \ {p} : lock = q => lock' = q

\* An idle process has nothing to keep.
LEMMA IdleInv == ASSUME NEW p, pc'[p] = "idle" PROVE LocalInv(p)'
  BY DEF LocalInv, SwapLeft, CommitChecked, RequestCommitted, CopyBehind, Projecting

\* A step that touches nothing but locals.
LEMMA LocalStep ==
    ASSUME PublicationInv, NEW p \in Processes,
           UNCHANGED <<active, canonical, projected, lock, issued, acked, crashes, errors>>,
           LocalTypes', Others(p), LocalInv(p)'
    PROVE  Progress(p)
<1>1. GlobalTypes /\ ActiveIsLast /\ InOrder
  BY TypesSplit DEF PublicationInv
<1> QED
  BY <1>1 DEF Progress, GlobalTypes, ActiveIsLast, SessionsUnique, InOrder, Leq, Before

\* The invariant, opened for one process.
LEMMA InvFacts ==
    ASSUME PublicationInv, NEW p \in Processes
    PROVE  /\ GlobalTypes /\ LocalTypes /\ ActiveIsLast /\ InOrder
           /\ SwapLeft(p) /\ CommitChecked(p) /\ RequestCommitted(p) /\ CopyBehind(p)
           /\ pc[p] \in PcValues /\ request[p] \in AnySnapshot /\ seen[p] \in AnySeen
           /\ copy[p] \in Copies /\ tries[p] \in Nat
<1>1. GlobalTypes /\ LocalTypes
  BY TypesSplit DEF PublicationInv
<1>2. LocalInv(p)
  BY DEF PublicationInv
<1> QED
  BY <1>1, <1>2 DEF PublicationInv, LocalTypes, LocalInv

-----------------------------------------------------------------------------
(* BeginDefinitionPublisherSession *)

\* A session request that arrives changes nothing but its process's control state.
LEMMA StartBeginStep ==
    ASSUME PublicationInv, NEW p \in Processes, StartBegin(p)
    PROVE  Progress(p)
<1>1. LocalTypes' /\ Others(p) /\ pc'[p] = "beginRead"
  BY InvFacts DEF StartBegin, Goto, LocalTypes, Others, PcValues
<1>2. LocalInv(p)'
  BY <1>1 DEF LocalInv, SwapLeft, CommitChecked, RequestCommitted, CopyBehind, Projecting
<1> QED
  BY <1>1, <1>2, LocalStep DEF StartBegin

\* Reading activeGeneration keeps the invariant and notes that a generation is left.
LEMMA BeginReadStep ==
    ASSUME PublicationInv, NEW p \in Processes, BeginRead(p)
    PROVE  Progress(p)
<1>0. LocalTypes /\ GlobalTypes
  BY InvFacts
<1>1. CASE Return(p)
  BY <1>0, <1>1, Returned, IdleInv, LocalStep DEF BeginRead
<1>2. CASE Goto(p, "beginInsert") /\ UNCHANGED <<request, seen, copy, tries>>
  <2>1. LocalTypes' /\ Others(p) /\ pc'[p] = "beginInsert"
    BY <1>0, <1>2 DEF Goto, LocalTypes, Others, PcValues
  <2>2. LocalInv(p)'
    BY <2>1 DEF LocalInv, SwapLeft, CommitChecked, RequestCommitted, CopyBehind, Projecting
  <2> QED
    BY <2>1, <2>2, LocalStep DEF BeginRead
<1>3. CASE /\ GenerationLeft /\ Goto(p, "beginSwap")
           /\ seen' = [seen EXCEPT ![p].active = active]
           /\ UNCHANGED <<request, copy, tries>>
  <2>1. /\ LocalTypes' /\ Others(p) /\ pc'[p] = "beginSwap"
        /\ seen'[p].active = active
    BY <1>0, <1>3 DEF Goto, LocalTypes, Others, PcValues, GlobalTypes, AnySeen
  <2>2. LocalInv(p)'
    BY <1>3, <2>1
    DEF LocalInv, SwapLeft, CommitChecked, RequestCommitted, CopyBehind, Projecting, GenerationLeft
  <2> QED
    BY <2>1, <2>2, LocalStep DEF BeginRead
<1> QED
  BY <1>1, <1>2, <1>3 DEF BeginRead

\* The insert of the first session finds no session handed out before it.
LEMMA BeginInsertStep ==
    ASSUME PublicationInv, NEW p \in Processes, BeginInsert(p)
    PROVE  Progress(p)
<1>0. /\ LocalTypes /\ GlobalTypes /\ ActiveIsLast /\ InOrder
  BY InvFacts
<1>1. LocalTypes' /\ Others(p) /\ pc'[p] = "beginConfirm"
  BY <1>0 DEF BeginInsert, Goto, LocalTypes, Others, PcValues
<1>2. LocalInv(p)'
  BY <1>1 DEF LocalInv, SwapLeft, CommitChecked, RequestCommitted, CopyBehind, Projecting
<1>3. ActiveIsLast'
  <2>1. CASE active = NoSession
    <3>1. issued = {}
      BY <1>0, <2>1 DEF ActiveIsLast, GlobalTypes, NoSession, Sessions
    <3> QED
      BY <3>1 DEF BeginInsert, ActiveIsLast, SessionsUnique
  <2>2. CASE active # NoSession
    BY <1>0, <2>2 DEF BeginInsert, ActiveIsLast, SessionsUnique
  <2> QED
    BY <2>1, <2>2
<1>4. GlobalTypes'
  BY <1>0, PublicationAssumption DEF BeginInsert, GlobalTypes, AnySession, Sessions
<1> QED
  BY <1>0, <1>1, <1>2, <1>3, <1>4 DEF Progress, BeginInsert, InOrder, Leq, Before

\* The first session is handed out only when the row shows it.
LEMMA BeginConfirmStep ==
    ASSUME PublicationInv, NEW p \in Processes, BeginConfirm(p)
    PROVE  Progress(p)
<1>0. LocalTypes /\ GlobalTypes /\ ActiveIsLast /\ InOrder
  BY InvFacts
<1>1. CASE active = [gen |-> 1, by |-> p] /\ issued' = issued \union {active} /\ Return(p)
  <2>1. LocalTypes' /\ Others(p) /\ LocalInv(p)'
    BY <1>0, <1>1, Returned, IdleInv
  <2>2. GlobalTypes'
    BY <1>0, <1>1, PublicationAssumption DEF BeginConfirm, GlobalTypes, Sessions
  <2>3. ActiveIsLast'
    BY <1>0, <1>1 DEF BeginConfirm, ActiveIsLast, SessionsUnique
  <2> QED
    BY <1>0, <2>1, <2>2, <2>3 DEF Progress, BeginConfirm, InOrder, Leq, Before
<1>2. CASE UNCHANGED issued /\ TryAgain(p, "beginRead", SyncLimit)
  <2>1. LocalTypes' /\ Others(p) /\ pc'[p] \in {"idle", "beginRead"}
    BY <1>0, <1>2, TriedAgain DEF PcValues
  <2>2. LocalInv(p)'
    BY <2>1 DEF LocalInv, SwapLeft, CommitChecked, RequestCommitted, CopyBehind, Projecting
  <2> QED
    BY <1>2, <2>1, <2>2, LocalStep DEF BeginConfirm
<1> QED
  BY <1>1, <1>2 DEF BeginConfirm

\* The conditional update hands out the generation after the last one.
LEMMA BeginSwapStep ==
    ASSUME PublicationInv, NEW p \in Processes, BeginSwap(p)
    PROVE  Progress(p)
<1>0. LocalTypes /\ GlobalTypes /\ ActiveIsLast /\ InOrder /\ SwapLeft(p) /\ seen[p] \in AnySeen
  BY InvFacts
<1> DEFINE session == [gen |-> seen[p].active.gen + 1, by |-> p]
<1>1. CASE /\ active.gen = seen[p].active.gen /\ active' = session
           /\ issued' = issued \union {session} /\ Return(p)
  <2>1. LocalTypes' /\ Others(p) /\ LocalInv(p)'
    BY <1>0, <1>1, Returned, IdleInv
  <2>2. active.gen \in Nat /\ active.gen < MaxGeneration
    BY <1>0, <1>1, ValueTypes DEF GlobalTypes, BeginSwap, SwapLeft
  <2>3. session \in Sessions /\ session.gen = active.gen + 1
    BY <1>1, <2>2, PublicationAssumption DEF Sessions
  <2>4. GlobalTypes'
    BY <1>0, <1>1, <2>3 DEF BeginSwap, GlobalTypes, AnySession
  <2>5. ActiveIsLast'
    <3>1. \A s \in issued : s.gen \in Nat /\ s.gen <= active.gen
      BY <1>0 DEF ActiveIsLast, GlobalTypes, Sessions
    <3> QED
      BY <1>0, <1>1, <2>2, <2>3, <3>1 DEF ActiveIsLast, SessionsUnique
  <2> QED
    BY <1>0, <2>1, <2>4, <2>5 DEF Progress, BeginSwap, InOrder, Leq, Before
<1>2. CASE UNCHANGED <<active, issued>> /\ TryAgain(p, "beginRead", SyncLimit)
  <2>1. LocalTypes' /\ Others(p) /\ pc'[p] \in {"idle", "beginRead"}
    BY <1>0, <1>2, TriedAgain DEF PcValues
  <2>2. LocalInv(p)'
    BY <2>1 DEF LocalInv, SwapLeft, CommitChecked, RequestCommitted, CopyBehind, Projecting
  <2> QED
    BY <1>2, <2>1, <2>2, LocalStep DEF BeginSwap
<1> QED
  BY <1>1, <1>2 DEF BeginSwap, GenerationIs

-----------------------------------------------------------------------------
(* SyncDefinitions *)

\* A snapshot request that arrives changes nothing but locals.
LEMMA StartReconcileStep ==
    ASSUME PublicationInv, NEW p \in Processes, NEW s \in Requests, StartReconcile(p, s)
    PROVE  Progress(p)
<1>1. LocalTypes' /\ Others(p) /\ pc'[p] = "accept"
  BY InvFacts DEF StartReconcile, Goto, LocalTypes, Others, PcValues, Requests, AnySnapshot
<1>2. LocalInv(p)'
  BY <1>1 DEF LocalInv, SwapLeft, CommitChecked, RequestCommitted, CopyBehind, Projecting
<1> QED
  BY <1>1, <1>2, LocalStep DEF StartReconcile

\* acceptFencedSnapshot: a replay is committed already, an accepted snapshot is checked.
LEMMA AcceptStep ==
    ASSUME PublicationInv, NEW p \in Processes, Accept(p)
    PROVE  Progress(p)
<1>0. LocalTypes /\ GlobalTypes /\ request[p] \in AnySnapshot
  BY InvFacts
<1> DEFINE disposition == Disposition(request[p], active, canonical)
<1>1. CASE Return(p)
  BY <1>0, <1>1, Returned, IdleInv, LocalStep DEF Accept
<1>2. CASE /\ disposition = "replay" /\ Goto(p, "state")
           /\ tries' = [tries EXCEPT ![p] = 0] /\ UNCHANGED <<request, seen, copy>>
  <2>1. LocalTypes' /\ Others(p) /\ pc'[p] = "state" /\ request'[p] = request[p]
    BY <1>0, <1>2 DEF Goto, LocalTypes, Others, PcValues
  <2>2. request[p] = canonical
    BY <1>2 DEF Disposition
  <2>3. LocalInv(p)'
    BY <2>1, <2>2
    DEF Accept, LocalInv, SwapLeft, CommitChecked, RequestCommitted, CopyBehind, Leq
  <2> QED
    BY <2>1, <2>3, LocalStep DEF Accept
<1>3. CASE /\ disposition = "apply" /\ Goto(p, "commit")
           /\ seen' = [seen EXCEPT ![p] = [active |-> active, cursor |-> canonical]]
           /\ UNCHANGED <<request, copy, tries>>
  <2>1. /\ LocalTypes' /\ Others(p) /\ pc'[p] = "commit" /\ request'[p] = request[p]
        /\ seen'[p].active = active /\ seen'[p].cursor = canonical
    BY <1>0, <1>3 DEF Goto, LocalTypes, Others, PcValues, GlobalTypes, AnySeen
  <2>2. LocalInv(p)'
    BY <1>3, <2>1
    DEF LocalInv, SwapLeft, CommitChecked, RequestCommitted, CopyBehind, Projecting
  <2> QED
    BY <2>1, <2>2, LocalStep DEF Accept
<1> QED
  BY <1>1, <1>2, <1>3 DEF Accept

\* The commit: the ordering checks still hold of the row, because it is still the row
\* they were made on.
LEMMA CommitStep ==
    ASSUME PublicationInv, NEW p \in Processes, Commit(p)
    PROVE  Progress(p)
<1>0. /\ LocalTypes /\ GlobalTypes /\ request[p] \in AnySnapshot
      /\ ActiveIsLast /\ InOrder /\ CommitChecked(p)
  BY InvFacts
<1>1. CASE /\ RowStill(p) /\ canonical' = request[p] /\ Goto(p, "state")
           /\ tries' = [tries EXCEPT ![p] = 0]
           /\ seen' = [seen EXCEPT ![p] = NothingSeen] /\ UNCHANGED <<request, copy>>
  <2>1. LocalTypes' /\ Others(p) /\ pc'[p] = "state" /\ request'[p] = request[p]
    BY <1>0, <1>1, ValueTypes DEF Goto, LocalTypes, Others, PcValues
  <2>2. LocalInv(p)'
    BY <1>1, <2>1 DEF LocalInv, SwapLeft, CommitChecked, RequestCommitted, CopyBehind, Leq
  <2>3. Before(canonical, canonical') /\ SessionOf(canonical') = active
    BY <1>0, <1>1, ApplyIsNewer DEF Commit, CommitChecked, RowStill, GlobalTypes
  <2>4. GlobalTypes' /\ ActiveIsLast'
    BY <1>0, <1>1 DEF Commit, GlobalTypes, ActiveIsLast, SessionsUnique
  <2>5. \A s \in issued : s.gen <= canonical'.gen
    BY <1>0, <2>3 DEF ActiveIsLast, SessionOf
  <2>6. \A s \in AnySnapshot : s.gen \in Nat /\ s.rev \in Nat
    BY ValueTypes
  <2>7. Leq(projected, canonical')
    BY <1>0, <1>1, <2>3, <2>6, OrderFacts DEF InOrder, GlobalTypes, Leq
  <2> QED
    BY <1>0, <2>1, <2>2, <2>3, <2>4, <2>5, <2>7 DEF Progress, Commit, InOrder, Leq
<1>2. CASE UNCHANGED canonical /\ TryAgain(p, "accept", SyncLimit)
  <2>1. LocalTypes' /\ Others(p) /\ pc'[p] \in {"idle", "accept"}
    BY <1>0, <1>2, TriedAgain DEF PcValues
  <2>2. LocalInv(p)'
    BY <2>1 DEF LocalInv, SwapLeft, CommitChecked, RequestCommitted, CopyBehind, Projecting
  <2> QED
    BY <1>2, <2>1, <2>2, LocalStep DEF Commit
<1> QED
  BY <1>1, <1>2 DEF Commit

-----------------------------------------------------------------------------
(* convergePersistedDefinitions *)

\* Reading the snapshot row fills the copy.
LEMMA ReadStateStep ==
    ASSUME PublicationInv, NEW p \in Processes, ReadState(p)
    PROVE  Progress(p)
<1>0. LocalTypes /\ GlobalTypes /\ RequestCommitted(p)
  BY InvFacts
<1>1. CASE Return(p)
  BY <1>0, <1>1, Returned, IdleInv, LocalStep DEF ReadState
<1>2. CASE /\ copy' = [copy EXCEPT ![p] = [NoCopy EXCEPT !.rev = canonical.rev,
                                                        !.hash = canonical.content]]
           /\ Goto(p, "rows") /\ UNCHANGED <<request, seen, tries>>
  <2>1. [NoCopy EXCEPT !.rev = canonical.rev, !.hash = canonical.content] \in Copies
    BY <1>0, ValueTypes DEF NoCopy, Copies, GlobalTypes
  <2>2. LocalTypes' /\ Others(p) /\ pc'[p] = "rows" /\ request'[p] = request[p]
    BY <1>0, <1>2, <2>1 DEF Goto, LocalTypes, Others, PcValues
  <2>3. LocalInv(p)'
    BY <1>0, <2>2 DEF ReadState, LocalInv, SwapLeft, CommitChecked, RequestCommitted,
                      CopyBehind, Projecting, Leq, Before
  <2> QED
    BY <2>2, <2>3, LocalStep DEF ReadState
<1> QED
  BY <1>1, <1>2 DEF ReadState

\* Reading the definition rows fills the copy.
LEMMA ReadRowsStep ==
    ASSUME PublicationInv, NEW p \in Processes, ReadRows(p)
    PROVE  Progress(p)
<1>0. LocalTypes /\ GlobalTypes /\ RequestCommitted(p) /\ copy[p] \in Copies
  BY InvFacts
<1>1. [copy[p] EXCEPT !.content = canonical.content] \in Copies
  BY <1>0, ValueTypes DEF Copies, GlobalTypes
<1>2. LocalTypes' /\ Others(p) /\ pc'[p] = "cursor" /\ request'[p] = request[p]
  BY <1>0, <1>1 DEF ReadRows, Goto, LocalTypes, Others, PcValues
<1>3. LocalInv(p)'
  BY <1>0, <1>2 DEF ReadRows, LocalInv, SwapLeft, CommitChecked, RequestCommitted,
                    CopyBehind, Projecting, Leq, Before
<1> QED
  BY <1>2, <1>3, LocalStep DEF ReadRows

\* The three statements of the read returned parts of one snapshot, or the call fails.
LEMMA ReadCursorStep ==
    ASSUME PublicationInv, NEW p \in Processes, ReadCursor(p)
    PROVE  Progress(p)
<1>0. LocalTypes /\ GlobalTypes /\ RequestCommitted(p) /\ copy[p] \in Copies
  BY InvFacts
<1>1. CASE Failed(p)
  <2>1. LocalTypes' /\ Others(p)
    BY <1>0, <1>1, FailedCall
  <2>2. pc'[p] = "idle" \/ (pc'[p] = "down" /\ request'[p] = NoSnapshot)
    BY <1>0, <1>1, FailedCall
  <2>3. Leq(NoSnapshot, canonical)
    BY <1>0, ValueTypes DEF GlobalTypes
  <2>4. LocalInv(p)'
    BY <2>2, <2>3 DEF ReadCursor, LocalInv, SwapLeft, CommitChecked, RequestCommitted,
                      CopyBehind, Projecting, Leq, Before
  <2> QED
    BY <2>1, <2>4, LocalStep DEF ReadCursor
<1>2. CASE /\ Consistent(copy[p])
           /\ copy' = [copy EXCEPT ![p].gen = canonical.gen, ![p].by = canonical.by]
           /\ Goto(p, "lock") /\ UNCHANGED <<request, seen, tries>>
  <2> DEFINE c == [copy[p] EXCEPT !.gen = canonical.gen, !.by = canonical.by]
  <2>1. c \in Copies /\ Fenced(c) = canonical
    BY <1>0, <1>2, ValueTypes DEF Copies, GlobalTypes, Consistent, Fenced
  <2>2. copy' = [copy EXCEPT ![p] = c]
    BY <1>0, <1>2 DEF LocalTypes
  <2>3. /\ LocalTypes' /\ Others(p) /\ pc'[p] = "lock" /\ request'[p] = request[p]
        /\ copy'[p] = c
    BY <1>0, <1>2, <2>1, <2>2 DEF Goto, LocalTypes, Others, PcValues
  <2>4. Leq(Fenced(copy'[p]), canonical')
    BY <2>1, <2>3 DEF ReadCursor, Leq
  <2>5. Leq(request'[p], canonical')
    BY <1>0, <2>3 DEF ReadCursor, RequestCommitted, Projecting, Leq, Before
  <2>6. LocalInv(p)'
    BY <2>3, <2>4, <2>5 DEF LocalInv, SwapLeft, CommitChecked, RequestCommitted, CopyBehind
  <2> QED
    BY <2>3, <2>6, LocalStep DEF ReadCursor
<1> QED
  BY <1>1, <1>2 DEF ReadCursor

\* The locking UPDATE takes the row exactly when the copy is still canonical.
LEMMA LockCursorStep ==
    ASSUME PublicationInv, NEW p \in Processes, LockCursor(p)
    PROVE  Progress(p)
<1>0. /\ LocalTypes /\ GlobalTypes /\ RequestCommitted(p) /\ CopyBehind(p)
      /\ ActiveIsLast /\ InOrder
  BY InvFacts
<1>1. /\ LocalTypes' /\ Others(p) /\ pc'[p] = "readback" /\ request'[p] = request[p]
      /\ copy'[p] = copy[p]
  BY <1>0 DEF LockCursor, Goto, LocalTypes, Others, PcValues
<1>2. \/ lock' = p /\ Fenced(copy'[p]) = canonical'
      \/ Before(Fenced(copy'[p]), canonical')
  BY <1>0, <1>1 DEF LockCursor, CopyBehind, Leq
<1>3. Leq(request'[p], canonical')
  BY <1>0, <1>1 DEF LockCursor, RequestCommitted, Projecting, Leq, Before
<1>4. LocalInv(p)'
  BY <1>1, <1>2, <1>3 DEF LocalInv, SwapLeft, CommitChecked, RequestCommitted, CopyBehind
<1>5. GlobalTypes' /\ \A q \in Processes \ {p} : lock = q => lock' = q
  BY <1>0, PublicationAssumption DEF LockCursor, GlobalTypes
<1> QED
  BY <1>0, <1>1, <1>4, <1>5 DEF LockCursor, Progress, ActiveIsLast, SessionsUnique,
                                InOrder, Leq, Before

\* A copy that is behind fails the read-back; nothing brings it back to the front.
LEMMA ReadBackStep ==
    ASSUME PublicationInv, NEW p \in Processes, ReadBack(p)
    PROVE  Progress(p)
<1>0. /\ LocalTypes /\ GlobalTypes /\ RequestCommitted(p) /\ CopyBehind(p)
      /\ ActiveIsLast /\ InOrder /\ copy[p] \in Copies
  BY InvFacts
<1>a. canonical.gen \in Nat /\ canonical.rev \in Nat
  BY <1>0, ValueTypes DEF GlobalTypes
<1>b. ~Before(canonical, canonical)
  BY <1>a DEF Before
<1>1. CASE /\ Current(copy[p]) /\ Goto(p, "apply")
           /\ UNCHANGED <<request, seen, copy, tries, lock>>
  <2>1. /\ LocalTypes' /\ Others(p) /\ pc'[p] = "apply" /\ request'[p] = request[p]
        /\ copy'[p] = copy[p]
    BY <1>0, <1>1 DEF Goto, LocalTypes, Others, PcValues
  <2>2. lock' = p /\ Fenced(copy'[p]) = canonical'
    BY <1>0, <1>1, <1>b, <2>1 DEF ReadBack, CopyBehind, Current
  <2>3. Leq(request'[p], canonical')
    BY <1>0, <2>1 DEF ReadBack, RequestCommitted, Projecting, Leq, Before
  <2>4. LocalInv(p)'
    BY <2>1, <2>2, <2>3 DEF LocalInv, SwapLeft, CommitChecked, RequestCommitted, CopyBehind
  <2> QED
    BY <1>1, <2>1, <2>4, LocalStep DEF ReadBack
<1>2. CASE /\ lock' = IF lock = p THEN NoProcess ELSE lock
           /\ TryAgain(p, "state", ConvergeLimit) \/ Failed(p)
  <2>1. LocalTypes' /\ Others(p)
    BY <1>0, <1>2, TriedAgain, FailedCall DEF PcValues
  <2>2. \/ pc'[p] = "idle"
        \/ pc'[p] = "state" /\ request'[p] = request[p]
        \/ pc'[p] = "down" /\ request'[p] = NoSnapshot
    BY <1>0, <1>2, TriedAgain, FailedCall DEF PcValues
  <2>3. pc'[p] = "idle" \/ (pc'[p] \in {"state", "down"} /\ Leq(request'[p], canonical'))
    BY <1>0, <2>2, ValueTypes
    DEF ReadBack, RequestCommitted, Projecting, GlobalTypes, Leq, Before
  <2>4. LocalInv(p)'
    BY <2>3 DEF LocalInv, SwapLeft, CommitChecked, RequestCommitted, CopyBehind, Projecting
  <2>5. GlobalTypes' /\ \A q \in Processes \ {p} : lock = q => lock' = q
    BY <1>0, <1>2 DEF ReadBack, GlobalTypes
  <2> QED
    BY <1>0, <2>1, <2>4, <2>5 DEF ReadBack, Progress, ActiveIsLast, SessionsUnique,
                                InOrder, Leq, Before
<1> QED
  BY <1>1, <1>2 DEF ReadBack

\* The projection: the lock holder writes what is canonical.
LEMMA ApplyStep ==
    ASSUME PublicationInv, NEW p \in Processes, Apply(p)
    PROVE  Progress(p)
<1>0. /\ LocalTypes /\ GlobalTypes /\ RequestCommitted(p) /\ CopyBehind(p)
      /\ ActiveIsLast /\ InOrder /\ request[p] \in AnySnapshot
  BY InvFacts
<1>1. LocalTypes' /\ Others(p) /\ LocalInv(p)'
  BY <1>0, Returned, IdleInv DEF Apply
<1>2. projected' = canonical /\ canonical' = canonical
  BY <1>0 DEF Apply, CopyBehind
<1>3. GlobalTypes' /\ \A q \in Processes \ {p} : lock = q => lock' = q
  BY <1>0, <1>2 DEF Apply, GlobalTypes
<1>4. \A s \in AnySnapshot : s.gen \in Nat /\ s.rev \in Nat
  BY ValueTypes
<1>5. Leq(acked, canonical)
  BY <1>0, <1>4, OrderFacts DEF InOrder, GlobalTypes
<1>6. Leq(request[p], canonical)
  BY <1>0 DEF Apply, RequestCommitted, Projecting
<1>7. Leq(acked', projected')
  BY <1>2, <1>5, <1>6 DEF Apply
<1>8. Leq(projected', canonical') /\ Leq(projected, projected')
  BY <1>0, <1>2 DEF InOrder, Leq
<1> QED
  BY <1>0, <1>1, <1>2, <1>3, <1>7, <1>8
  DEF Apply, Progress, ActiveIsLast, SessionsUnique, InOrder, Leq

-----------------------------------------------------------------------------
(* Failing calls and crashes *)

\* A call that fails drops the lock; rows it may have written are the canonical ones.
LEMMA CallFailsStep ==
    ASSUME PublicationInv, NEW p \in Processes, CallFails(p)
    PROVE  Progress(p)
<1>0. /\ LocalTypes /\ GlobalTypes /\ CopyBehind(p) /\ ActiveIsLast /\ InOrder
  BY InvFacts
<1>1. LocalTypes' /\ Others(p)
  BY <1>0, Returned, FailedCall DEF CallFails
<1>2. pc'[p] = "idle" \/ (pc'[p] = "down" /\ request'[p] = NoSnapshot)
  BY <1>0, Returned, FailedCall DEF CallFails
<1>3. Leq(NoSnapshot, canonical')
  BY <1>0, ValueTypes DEF CallFails, GlobalTypes
<1>4. LocalInv(p)'
  BY <1>2, <1>3 DEF LocalInv, SwapLeft, CommitChecked, RequestCommitted, CopyBehind, Projecting
<1>5. projected' \in {projected, canonical} /\ canonical' = canonical
  BY <1>0 DEF CallFails, CopyBehind
<1>6. GlobalTypes' /\ \A q \in Processes \ {p} : lock = q => lock' = q
  BY <1>0, <1>5, PublicationAssumption DEF CallFails, GlobalTypes
<1>7. \A s \in AnySnapshot : s.gen \in Nat /\ s.rev \in Nat
  BY ValueTypes
<1>8. Leq(acked, canonical)
  BY <1>0, <1>7, OrderFacts DEF InOrder, GlobalTypes
<1>9. InOrder' /\ Leq(projected, projected')
  BY <1>0, <1>5, <1>8 DEF CallFails, InOrder, Leq
<1> QED
  BY <1>0, <1>1, <1>4, <1>5, <1>6, <1>9
  DEF CallFails, Progress, ActiveIsLast, SessionsUnique, Leq

\* A crash drops the lock and the locals, and what was committed stays.
LEMMA CrashStep ==
    ASSUME PublicationInv, NEW p \in Processes, Crash(p)
    PROVE  Progress(p)
<1>0. LocalTypes /\ GlobalTypes /\ ActiveIsLast /\ InOrder
  BY InvFacts
<1>1. /\ LocalTypes' /\ Others(p) /\ pc'[p] = "down" /\ request'[p] = NoSnapshot
  BY <1>0, ValueTypes DEF Crash, Goto, LocalTypes, Others, PcValues, AnySnapshot
<1>2. Leq(NoSnapshot, canonical')
  BY <1>0, ValueTypes DEF Crash, GlobalTypes
<1>3. LocalInv(p)'
  BY <1>1, <1>2 DEF LocalInv, SwapLeft, CommitChecked, RequestCommitted, CopyBehind
<1>4. GlobalTypes' /\ \A q \in Processes \ {p} : lock = q => lock' = q
  BY <1>0, PublicationAssumption DEF Crash, GlobalTypes
<1> QED
  BY <1>0, <1>1, <1>3, <1>4 DEF Crash, Progress, ActiveIsLast, SessionsUnique,
                                InOrder, Leq, Before

\* A process that starts has no request of its own to account for.
LEMMA HydrateStep ==
    ASSUME PublicationInv, NEW p \in Processes, Hydrate(p)
    PROVE  Progress(p)
<1>0. LocalTypes /\ GlobalTypes /\ RequestCommitted(p)
  BY InvFacts
<1>1. /\ LocalTypes' /\ Others(p) /\ pc'[p] = "state" /\ request'[p] = request[p]
  BY <1>0, ValueTypes DEF Hydrate, Goto, LocalTypes, Others, PcValues
<1>2. Leq(request'[p], canonical')
  BY <1>0, <1>1 DEF Hydrate, RequestCommitted, Projecting, Leq, Before
<1>3. LocalInv(p)'
  BY <1>1, <1>2 DEF LocalInv, SwapLeft, CommitChecked, RequestCommitted, CopyBehind
<1> QED
  BY <1>1, <1>3, LocalStep DEF Hydrate

-----------------------------------------------------------------------------
(* The invariant holds *)

\* Every step is a step of one process that moves things forward.
LEMMA NextProgress ==
    ASSUME PublicationInv, Next
    PROVE  \E p \in Processes : Progress(p)
<1>1. PICK p \in Processes :
        \/ Step(p) \/ StartBegin(p) \/ (\E s \in Requests : StartReconcile(p, s))
        \/ CallFails(p) \/ Crash(p) \/ Hydrate(p)
  BY DEF Next
<1>2. Progress(p)
  BY <1>1, StartBeginStep, BeginReadStep, BeginInsertStep, BeginConfirmStep, BeginSwapStep,
     StartReconcileStep, AcceptStep, CommitStep, ReadStateStep, ReadRowsStep,
     ReadCursorStep, LockCursorStep, ReadBackStep, ApplyStep, CallFailsStep,
     CrashStep, HydrateStep
  DEF Step
<1> QED
  BY <1>2

\* The other processes keep their part of the invariant: while one of them holds the row
\* nobody commits, and a copy that is behind stays behind.
LEMMA OthersKeep ==
    ASSUME PublicationInv, NEW p \in Processes, Progress(p), NEW q \in Processes \ {p}
    PROVE  LocalInv(q)'
<1>0. /\ GlobalTypes /\ SwapLeft(q) /\ CommitChecked(q) /\ RequestCommitted(q) /\ CopyBehind(q)
      /\ request[q] \in AnySnapshot /\ copy[q] \in Copies
  BY InvFacts
<1>1. /\ pc'[q] = pc[q] /\ request'[q] = request[q] /\ seen'[q] = seen[q] /\ copy'[q] = copy[q]
      /\ Leq(canonical, canonical') /\ GlobalTypes'
      /\ canonical' # canonical => lock = NoProcess
      /\ lock = q => lock' = q
  BY DEF Progress, Others
<1>2. /\ \A s \in AnySnapshot : s.gen \in Nat /\ s.rev \in Nat
      /\ Fenced(copy[q]).gen \in Nat /\ Fenced(copy[q]).rev \in Nat
      /\ canonical \in AnySnapshot /\ canonical' \in AnySnapshot
  BY <1>0, <1>1, ValueTypes DEF GlobalTypes
<1>3. SwapLeft(q)' /\ CommitChecked(q)'
  BY <1>0, <1>1 DEF SwapLeft, CommitChecked
<1>4. Leq(request[q], canonical) => Leq(request[q], canonical')
  BY <1>0, <1>1, <1>2, OrderFacts
<1>5. RequestCommitted(q)'
  BY <1>0, <1>1, <1>4 DEF RequestCommitted
<1>6. /\ Leq(Fenced(copy[q]), canonical) => Leq(Fenced(copy[q]), canonical')
      /\ Before(Fenced(copy[q]), canonical) => Before(Fenced(copy[q]), canonical')
  BY <1>1, <1>2, OrderFacts
<1>7. lock = q => canonical' = canonical
  BY <1>1, PublicationAssumption
<1>8. CopyBehind(q)'
  BY <1>0, <1>1, <1>6, <1>7 DEF CopyBehind
<1> QED
  BY <1>3, <1>5, <1>8 DEF LocalInv

\* Every step keeps the invariant.
LEMMA InvStep == PublicationInv /\ [Next]_vars => PublicationInv'
<1>1. ASSUME PublicationInv, Next
      PROVE  PublicationInv'
  <2>1. PICK p \in Processes : Progress(p)
    BY <1>1, NextProgress
  <2>2. \A q \in Processes : LocalInv(q)'
    BY <1>1, <2>1, OthersKeep DEF Progress
  <2> QED
    BY <2>1, <2>2, TypesSplit DEF Progress, PublicationInv
<1>2. ASSUME PublicationInv, UNCHANGED vars
      PROVE  PublicationInv'
  BY <1>2 DEF PublicationInv, vars, PublicationTypeOK, ActiveIsLast, SessionsUnique, InOrder,
              LocalInv, SwapLeft, CommitChecked, RequestCommitted, CopyBehind, Leq, Before,
              Disposition, SessionOf, Fenced
<1> QED
  BY <1>1, <1>2

\* The invariant holds before the first session.
LEMMA InvInit == Init => PublicationInv
<1> SUFFICES ASSUME Init PROVE PublicationInv
  OBVIOUS
<1>1. GlobalTypes
  BY PublicationAssumption DEF Init, GlobalTypes, AnySession, AnySnapshot
<1>2. LocalTypes
  BY ValueTypes DEF Init, LocalTypes, AnySnapshot, PcValues
<1>3. \A p \in Processes : LocalInv(p)
  BY DEF Init, LocalInv, SwapLeft, CommitChecked, RequestCommitted, CopyBehind, Projecting
<1>4. ActiveIsLast /\ InOrder
  BY DEF Init, ActiveIsLast, SessionsUnique, InOrder, Leq
<1> QED
  BY <1>1, <1>2, <1>3, <1>4, TypesSplit DEF PublicationInv

\* The inductive invariant holds of fenced publication in every reachable state.
THEOREM PublicationInvariant == Spec => []PublicationInv
  BY InvInit, InvStep, PTL DEF Spec

-----------------------------------------------------------------------------
(* Theorems *)

\* Rows, requests and the locals of the processes keep their types.
THEOREM PublicationTypes == Spec => []PublicationTypeOK
<1>1. PublicationInv => PublicationTypeOK
  BY DEF PublicationInv
<1> QED
  BY <1>1, PublicationInvariant, PTL

\* BeginDefinitionPublisherSession never hands out a generation twice.
THEOREM NoTwoSessionsShareAGeneration == Spec => []SessionsUnique
<1>1. PublicationInv => SessionsUnique
  BY DEF PublicationInv, ActiveIsLast
<1> QED
  BY <1>1, PublicationInvariant, PTL

\* lockDefinitionSnapshotCursor: execution rows are written under the row lock, from the
\* canonical snapshot.
THEOREM ProjectionIsExclusive == Spec => []ApplyHoldsLock
<1>1. PublicationInv => ApplyHoldsLock
  BY InvFacts DEF ApplyHoldsLock, CopyBehind
<1> QED
  BY <1>1, PublicationInvariant, PTL

\* ReconcileSnapshot: what a Runtime was told is in force stays in force.
THEOREM AcknowledgedStaysProjected == Spec => []AckedIsProjected
<1>1. PublicationInv => AckedIsProjected
  <2> SUFFICES ASSUME PublicationInv PROVE AckedIsProjected
    OBVIOUS
  <2>1. Leq(acked, projected) /\ acked \in AnySnapshot /\ projected \in AnySnapshot
    BY TypesSplit DEF PublicationInv, InOrder, GlobalTypes
  <2>2. /\ acked.gen \in Nat /\ acked.rev \in Nat
        /\ projected.gen \in Nat /\ projected.rev \in Nat
    BY <2>1, ValueTypes
  <2> QED
    BY <2>1, <2>2 DEF AckedIsProjected, Leq, Before
<1> QED
  BY <1>1, PublicationInvariant, PTL

\* SyncDefinitions never brings an older snapshot back.
THEOREM CanonicalForward == Spec => CanonicalMovesForward
<1>1. PublicationInv /\ [Next]_vars =>
        [canonical' # canonical => Before(canonical, canonical')]_vars
  BY NextProgress DEF Progress, Leq
<1> QED
  BY <1>1, PublicationInvariant, PTL DEF Spec, CanonicalMovesForward

\* SyncDefinitions commits nothing for a session once a newer one has begun.
THEOREM FencedSessions == Spec => OlderSessionsFenced
<1>1. PublicationInv /\ [Next]_vars =>
        [canonical' # canonical => \A s \in issued : s.gen <= canonical'.gen]_vars
  BY NextProgress DEF Progress
<1> QED
  BY <1>1, PublicationInvariant, PTL DEF Spec, OlderSessionsFenced

\* ApplyDefinitionSnapshot never brings the execution rows back to an older snapshot.
THEOREM ProjectionForward == Spec => ProjectionMovesForward
<1>1. PublicationInv /\ [Next]_vars =>
        [projected' # projected => Before(projected, projected')]_vars
  BY NextProgress DEF Progress, Leq
<1> QED
  BY <1>1, PublicationInvariant, PTL DEF Spec, ProjectionMovesForward
=============================================================================
