------------------------ MODULE DefinitionPublication ------------------------
(***************************************************************************)
(* Fenced definition publication of one Runtime application in SaaS mode.  *)
(*                                                                         *)
(* A Runtime begins a publisher session, which takes the next generation,  *)
(* and publishes revisioned definition snapshots under it.  Any Scheduler  *)
(* process may receive a request, late, twice or out of order; it commits  *)
(* the snapshot as the canonical one by compare-and-swap and then projects *)
(* the canonical snapshot into the execution rows that the workers poll.   *)
(*                                                                         *)
(* One step is one database statement, or the statements of a transaction  *)
(* from the one that takes the row lock to the commit.  Reads see whatever *)
(* is committed at their own statement, the weakest isolation of the       *)
(* supported databases.  Within a process the reconcile mutexes admit one  *)
(* publication call at a time, so a process is one sequential machine.     *)
(***************************************************************************)
EXTENDS Naturals

CONSTANTS
    Processes,          \* Scheduler processes sharing the database
    NoProcess,
    Contents,           \* distinct definition lists, as their SHA-256 tells them apart
    NoContent,
    MaxGeneration,      \* maxDefinitionPublisherGeneration
    MaxRevision,        \* model bound on snapshot revisions
    SyncLimit,          \* attempts of SyncDefinitions and of Begin (64)
    ConvergeLimit,      \* attempts of convergePersistedDefinitions (64)
    Publishable,        \* model bound: generation, revision, content that are published
    MaxCrashes,         \* model bound on crashes
    MaxErrors           \* model bound on calls that end early with the process left up

ASSUME PublicationAssumption ==
    /\ NoProcess \notin Processes
    /\ NoContent \notin Contents
    /\ MaxGeneration \in Nat \ {0} /\ MaxRevision \in Nat
    /\ SyncLimit \in Nat \ {0} /\ ConvergeLimit \in Nat \ {0}
    /\ MaxCrashes \in Nat /\ MaxErrors \in Nat

\* A session: generation and nonce digest.  The nonce is random, so the process
\* that drew it and the generation it drew it for identify it.
Sessions == [gen: 1..MaxGeneration, by: Processes]
NoSession == [gen |-> 0, by |-> NoProcess]

\* A snapshot with its publisher fence: a request, the cursor, the canonical state.
Snapshots == [gen: 1..MaxGeneration, by: Processes, rev: 1..MaxRevision, content: Contents]
NoSnapshot == [gen |-> 0, by |-> NoProcess, rev |-> 0, content |-> NoContent]

\* The requests Runtimes send.
Requests == {s \in Snapshots : <<s.gen, s.rev, s.content>> \in Publishable}

SessionOf(s) == [gen |-> s.gen, by |-> s.by]

\* The publication order: generation first, then revision.
Before(s, t) == s.gen < t.gen \/ (s.gen = t.gen /\ s.rev < t.rev)

VARIABLES
    active,     \* active_generation and active_session_sha256; NoSession: no row
    canonical,  \* cursor columns, snapshot row and definition rows, committed together
    projected,  \* the snapshot the execution rows were last projected from
    lock,       \* the process whose open transaction locks the publication row
    issued,     \* sessions handed out to Runtimes
    acked,      \* history: the latest snapshot a Reconcile call reported as done
    pc, request, seen, copy, tries,     \* per process: control state and locals
    crashes,
    errors      \* calls that ended early so far

vars == <<active, canonical, projected, lock, issued, acked,
          pc, request, seen, copy, tries, crashes, errors>>

PcValues == {"idle", "beginRead", "beginInsert", "beginConfirm", "beginSwap",
             "accept", "commit", "state", "rows", "cursor",
             "lock", "readback", "apply", "down"}

\* What definitionSnapshotFrom has gathered so far; hash is schema_hash.
Copies == [gen: 0..MaxGeneration, by: Processes \union {NoProcess}, rev: 0..MaxRevision,
           content: Contents \union {NoContent}, hash: Contents \union {NoContent}]
NoCopy == [gen |-> 0, by |-> NoProcess, rev |-> 0, content |-> NoContent, hash |-> NoContent]

Fenced(c) == [gen |-> c.gen, by |-> c.by, rev |-> c.rev, content |-> c.content]

PublicationTypeOK ==
    /\ active \in Sessions \union {NoSession}
    /\ canonical \in Snapshots \union {NoSnapshot}
    /\ projected \in Snapshots \union {NoSnapshot}
    /\ lock \in Processes \union {NoProcess}
    /\ issued \subseteq Sessions
    /\ acked \in Snapshots \union {NoSnapshot}
    /\ pc \in [Processes -> PcValues]
    /\ request \in [Processes -> Snapshots \union {NoSnapshot}]
    /\ seen \in [Processes -> [active: Sessions \union {NoSession},
                               cursor: Snapshots \union {NoSnapshot}]]
    /\ copy \in [Processes -> Copies]
    /\ tries \in [Processes -> Nat]
    /\ crashes \in 0..MaxCrashes
    /\ errors \in 0..MaxErrors

NothingSeen == [active |-> NoSession, cursor |-> NoSnapshot]

Goto(p, label) == pc' = [pc EXCEPT ![p] = label]

\* The call of p returns, with or without an error.
Return(p) ==
    /\ Goto(p, "idle")
    /\ request' = [request EXCEPT ![p] = NoSnapshot]
    /\ seen'    = [seen EXCEPT ![p] = NothingSeen]
    /\ copy'    = [copy EXCEPT ![p] = NoCopy]
    /\ tries'   = [tries EXCEPT ![p] = 0]

\* A lost compare-and-swap: try again from the read, or give up.
TryAgain(p, label, limit) ==
    \/ /\ tries[p] + 1 < limit
       /\ Goto(p, label)
       /\ tries' = [tries EXCEPT ![p] = @ + 1]
       /\ seen'  = [seen EXCEPT ![p] = NothingSeen]
       /\ copy'  = [copy EXCEPT ![p] = NoCopy]
       /\ UNCHANGED request
    \/ tries[p] + 1 >= limit /\ Return(p)

-----------------------------------------------------------------------------
(* BeginDefinitionPublisherSession *)

StartBegin(p) ==
    /\ pc[p] = "idle"
    /\ Goto(p, "beginRead")
    /\ UNCHANGED <<active, canonical, projected, lock, issued, acked,
                   request, seen, copy, tries, crashes, errors>>

\* Faulty variant: the bound is checked one generation late.
GenerationAtMost == active.gen <= MaxGeneration

\* The exhaustion check before a generation is taken.
GenerationLeft == active.gen < MaxGeneration

\* activeGeneration: without a row the first session is inserted; at the largest
\* generation no session can begin any more.
BeginRead(p) ==
    /\ pc[p] = "beginRead"
    /\ \/ /\ active = NoSession
          /\ Goto(p, "beginInsert")
          /\ UNCHANGED <<request, seen, copy, tries>>
       \/ /\ active # NoSession /\ GenerationLeft
          /\ Goto(p, "beginSwap")
          /\ seen' = [seen EXCEPT ![p].active = active]
          /\ UNCHANGED <<request, copy, tries>>
       \/ /\ active # NoSession /\ ~GenerationLeft
          /\ Return(p)
    /\ UNCHANGED <<active, canonical, projected, lock, issued, acked, crashes, errors>>

\* INSERT ... ON CONFLICT DO NOTHING.
BeginInsert(p) ==
    /\ pc[p] = "beginInsert"
    /\ active' = IF active = NoSession THEN [gen |-> 1, by |-> p] ELSE active
    /\ Goto(p, "beginConfirm")
    /\ UNCHANGED <<canonical, projected, lock, issued, acked,
                   request, seen, copy, tries, crashes, errors>>

\* Ownership is confirmed from the stored fence, not from a row count.
BeginConfirm(p) ==
    /\ pc[p] = "beginConfirm"
    /\ \/ /\ active = [gen |-> 1, by |-> p]
          /\ issued' = issued \union {active}
          /\ Return(p)
       \/ /\ active # [gen |-> 1, by |-> p]
          /\ UNCHANGED issued
          /\ TryAgain(p, "beginRead", SyncLimit)
    /\ UNCHANGED <<active, canonical, projected, lock, acked, crashes, errors>>

\* Faulty variant: the update is not conditional on the generation that was read.
GenerationSeen(p) == seen[p].active.gen >= 1

\* The predicate of the update that takes the next generation.
GenerationIs(p) == active.gen = seen[p].active.gen

BeginSwap(p) ==
    LET session == [gen |-> seen[p].active.gen + 1, by |-> p]
    IN  /\ pc[p] = "beginSwap"
        /\ lock = NoProcess
        /\ \/ /\ GenerationIs(p)
              /\ active' = session
              /\ issued' = issued \union {session}
              /\ Return(p)
           \/ /\ ~GenerationIs(p)
              /\ UNCHANGED <<active, issued>>
              /\ TryAgain(p, "beginRead", SyncLimit)
        /\ UNCHANGED <<canonical, projected, lock, acked, crashes, errors>>

-----------------------------------------------------------------------------
(* ReconcileSnapshot: SyncDefinitions *)

\* A request of a session that some Runtime holds arrives, possibly not for the
\* first time.
StartReconcile(p, s) ==
    /\ pc[p] = "idle"
    /\ SessionOf(s) \in issued
    /\ Goto(p, "accept")
    /\ request' = [request EXCEPT ![p] = s]
    /\ UNCHANGED <<active, canonical, projected, lock, issued, acked,
                   seen, copy, tries, crashes, errors>>

\* Faulty variant: an older revision of the same session is not refused.
DispositionIgnoresRevision(s, act, cur) ==
    IF SessionOf(s) # act \/ s.gen < cur.gen THEN "refused"
    ELSE IF s = cur THEN "replay"
    ELSE "apply"

\* The ordering checks of acceptFencedSnapshot: stale, conflict, replay or apply.
Disposition(s, act, cur) ==
    IF \/ SessionOf(s) # act
       \/ s.gen < cur.gen
       \/ s.gen = cur.gen /\ s.by # cur.by
       \/ s.gen = cur.gen /\ s.rev < cur.rev
       \/ s.gen = cur.gen /\ s.rev = cur.rev /\ s.content # cur.content
    THEN "refused"
    ELSE IF s = cur THEN "replay"
    ELSE "apply"

Accept(p) ==
    LET disposition == Disposition(request[p], active, canonical)
    IN  /\ pc[p] = "accept"
        /\ \/ disposition = "refused" /\ Return(p)
           \/ /\ disposition = "replay"
              /\ Goto(p, "state")
              /\ tries' = [tries EXCEPT ![p] = 0]
              /\ UNCHANGED <<request, seen, copy>>
           \/ /\ disposition = "apply"
              /\ Goto(p, "commit")
              /\ seen' = [seen EXCEPT ![p] = [active |-> active, cursor |-> canonical]]
              /\ UNCHANGED <<request, copy, tries>>
        /\ UNCHANGED <<active, canonical, projected, lock, issued, acked, crashes, errors>>

\* Faulty variant: the active session is not compared again.
CursorStill(p) == canonical = seen[p].cursor

\* The predicate of the cursor update.
RowStill(p) == active = seen[p].active /\ canonical = seen[p].cursor

\* The cursor update and, in the same transaction, the snapshot row and the
\* definition rows.
Commit(p) ==
    /\ pc[p] = "commit"
    /\ lock = NoProcess
    /\ \/ /\ RowStill(p)
          /\ canonical' = request[p]
          /\ Goto(p, "state")
          /\ tries' = [tries EXCEPT ![p] = 0]
          /\ seen' = [seen EXCEPT ![p] = NothingSeen]
          /\ UNCHANGED <<request, copy>>
       \/ /\ ~RowStill(p)
          /\ UNCHANGED canonical
          /\ TryAgain(p, "accept", SyncLimit)
    /\ UNCHANGED <<active, projected, lock, issued, acked, crashes, errors>>

-----------------------------------------------------------------------------
(* convergePersistedDefinitions *)

\* The steps of a call whose snapshot is committed, and of a hydration.
Converging == {"state", "rows", "cursor", "lock", "readback", "apply"}

\* An error leaves the call; while hydrating it fails the start of the process.
Failed(p) ==
    IF request[p] = NoSnapshot
    THEN /\ Goto(p, "down")
         /\ copy'  = [copy EXCEPT ![p] = NoCopy]
         /\ tries' = [tries EXCEPT ![p] = 0]
         /\ UNCHANGED <<request, seen>>
    ELSE Return(p)

\* definitionSnapshotFrom reads the snapshot row, the definition rows and the
\* cursor with three statements.
ReadState(p) ==
    /\ pc[p] = "state"
    /\ \/ canonical = NoSnapshot /\ Return(p)
       \/ /\ canonical # NoSnapshot
          /\ copy' = [copy EXCEPT ![p] = [NoCopy EXCEPT !.rev = canonical.rev,
                                                        !.hash = canonical.content]]
          /\ Goto(p, "rows")
          /\ UNCHANGED <<request, seen, tries>>
    /\ UNCHANGED <<active, canonical, projected, lock, issued, acked, crashes, errors>>

ReadRows(p) ==
    /\ pc[p] = "rows"
    /\ copy' = [copy EXCEPT ![p].content = canonical.content]
    /\ Goto(p, "cursor")
    /\ UNCHANGED <<active, canonical, projected, lock, issued, acked,
                   request, seen, tries, crashes, errors>>

\* The checks that what the three statements returned belongs together.
Consistent(c) ==
    /\ c.hash = c.content
    /\ canonical.rev = c.rev
    /\ canonical.content = c.content

ReadCursor(p) ==
    /\ pc[p] = "cursor"
    /\ \/ /\ Consistent(copy[p])
          /\ copy' = [copy EXCEPT ![p].gen = canonical.gen, ![p].by = canonical.by]
          /\ Goto(p, "lock")
          /\ UNCHANGED <<request, seen, tries>>
       \/ ~Consistent(copy[p]) /\ Failed(p)
    /\ UNCHANGED <<active, canonical, projected, lock, issued, acked, crashes, errors>>

\* lockDefinitionSnapshotCursor, the UPDATE: it locks the row only if the cursor is
\* still the one that was read.
LockCursor(p) ==
    /\ pc[p] = "lock"
    /\ IF canonical = Fenced(copy[p])
       THEN lock = NoProcess /\ lock' = p
       ELSE UNCHANGED lock
    /\ Goto(p, "readback")
    /\ UNCHANGED <<active, canonical, projected, issued, acked,
                   request, seen, copy, tries, crashes, errors>>

\* Faulty variant: the result of the read-back is not compared.
Found(c) == canonical # NoSnapshot /\ c \in Copies

\* The comparison of the read-back with the snapshot to project.
Current(c) == canonical = Fenced(c)

\* lockDefinitionSnapshotCursor, the SELECT: a superseded snapshot is not
\* projected, and the loop reads the canonical one again.
ReadBack(p) ==
    /\ pc[p] = "readback"
    /\ \/ /\ Current(copy[p])
          /\ Goto(p, "apply")
          /\ UNCHANGED <<request, seen, copy, tries, lock>>
       \/ /\ ~Current(copy[p])
          /\ lock' = IF lock = p THEN NoProcess ELSE lock
          /\ IF tries[p] + 1 < ConvergeLimit
             THEN TryAgain(p, "state", ConvergeLimit)
             ELSE Failed(p)
    /\ UNCHANGED <<active, canonical, projected, issued, acked, crashes, errors>>

\* ApplyDefinitionSnapshot writes the execution rows and commits; the call returns.
Apply(p) ==
    /\ pc[p] = "apply"
    /\ projected' = Fenced(copy[p])
    /\ lock' = IF lock = p THEN NoProcess ELSE lock
    /\ acked' = IF Before(acked, request[p]) THEN request[p] ELSE acked
    /\ Return(p)
    /\ UNCHANGED <<active, canonical, issued, crashes, errors>>

-----------------------------------------------------------------------------
(* Faults.  A process that starts hydrates before it serves. *)

\* A statement fails or the request's context is cancelled: the transaction is rolled
\* back (a failed COMMIT may have taken effect), the call returns the error and the
\* process goes on.  Nothing takes up what the call has left undone.
CallFails(p) ==
    /\ pc[p] \notin {"idle", "down"}
    /\ errors < MaxErrors
    /\ errors' = errors + 1
    /\ lock' = IF lock = p THEN NoProcess ELSE lock
    /\ \/ UNCHANGED projected
       \/ pc[p] = "apply" /\ projected' = Fenced(copy[p])
    /\ IF pc[p] \in Converging THEN Failed(p) ELSE Return(p)
    /\ UNCHANGED <<active, canonical, issued, acked, crashes>>

Crash(p) ==
    /\ pc[p] \notin {"idle", "down"}
    /\ crashes < MaxCrashes
    /\ crashes' = crashes + 1
    /\ lock' = IF lock = p THEN NoProcess ELSE lock
    /\ Goto(p, "down")
    /\ request' = [request EXCEPT ![p] = NoSnapshot]
    /\ seen'    = [seen EXCEPT ![p] = NothingSeen]
    /\ copy'    = [copy EXCEPT ![p] = NoCopy]
    /\ tries'   = [tries EXCEPT ![p] = 0]
    /\ UNCHANGED <<active, canonical, projected, issued, acked, errors>>

\* Faulty variant: a process that starts serves without hydrating.
HydrateNothing(p) ==
    /\ pc[p] = "down"
    /\ Return(p)
    /\ UNCHANGED <<active, canonical, projected, lock, issued, acked, crashes, errors>>

\* HydrateDefinitions: converge on the stored snapshot without publishing one.
Hydrate(p) ==
    /\ pc[p] = "down"
    /\ Goto(p, "state")
    /\ UNCHANGED <<active, canonical, projected, lock, issued, acked,
                   request, seen, copy, tries, crashes, errors>>

-----------------------------------------------------------------------------
Init ==
    /\ active = NoSession
    /\ canonical = NoSnapshot
    /\ projected = NoSnapshot
    /\ lock = NoProcess
    /\ issued = {}
    /\ acked = NoSnapshot
    /\ pc = [p \in Processes |-> "idle"]
    /\ request = [p \in Processes |-> NoSnapshot]
    /\ seen = [p \in Processes |-> NothingSeen]
    /\ copy = [p \in Processes |-> NoCopy]
    /\ tries = [p \in Processes |-> 0]
    /\ crashes = 0
    /\ errors = 0

\* The steps of a call that has started.
Step(p) ==
    \/ BeginRead(p) \/ BeginInsert(p) \/ BeginConfirm(p) \/ BeginSwap(p)
    \/ Accept(p) \/ Commit(p)
    \/ ReadState(p) \/ ReadRows(p) \/ ReadCursor(p)
    \/ LockCursor(p) \/ ReadBack(p) \/ Apply(p)

Next ==
    \E p \in Processes :
        \/ Step(p)
        \/ StartBegin(p)
        \/ \E s \in Requests : StartReconcile(p, s)
        \/ CallFails(p)
        \/ Crash(p)
        \/ Hydrate(p)

Spec == Init /\ [][Next]_vars

\* Calls in progress proceed unless the row lock is held by somebody else time and
\* again, and a process that went down is started again.  Nothing is assumed
\* of the Runtimes.
FairSpec ==
    /\ Spec
    /\ \A p \in Processes : WF_vars(Step(p)) /\ WF_vars(Hydrate(p))

-----------------------------------------------------------------------------
(* Properties *)

\* No two Runtimes ever hold sessions of the same generation, although processes
\* begin sessions at the same time and may die between writing and answering.
SessionsUnique == \A s, t \in issued : s.gen = t.gen => s = t

\* The canonical snapshot only moves forward: a request that arrives late, twice or
\* after a newer one never brings an older snapshot back, nor replaces the content
\* of a revision.
CanonicalMovesForward == [][canonical' # canonical => Before(canonical, canonical')]_vars

\* "older sessions remain fenced after either process restarts": once a newer
\* session has begun nothing is committed for an older one, even when the older
\* request had passed all its checks before.
OlderSessionsFenced ==
    [][canonical' # canonical => \A s \in issued : s.gen <= canonical'.gen]_vars

\* A stale reader "cannot regress the shared worker projection after a newer
\* snapshot has committed": the execution rows never go back to an older snapshot.
ProjectionMovesForward ==
    [][projected' # projected => Before(projected, projected')]_vars

\* Whoever writes the execution rows holds the publication row and has the
\* canonical snapshot in hand, although the statement that should lock the row and
\* the one that checks it are two.
ApplyHoldsLock ==
    \A p \in Processes :
        pc[p] = "apply" => lock = p /\ Fenced(copy[p]) = canonical

\* A Runtime that was told its snapshot is in force can rely on it: the execution
\* rows show that snapshot or a later one from then on.
AckedIsProjected ==
    /\ ~Before(projected, acked)
    /\ (projected.gen = acked.gen /\ projected.rev = acked.rev) => projected = acked

\* Whoever committed a snapshot, repeats a commit or starts again brings the rows to
\* the canonical snapshot, although it may crash on the way, read a snapshot that changes
\* under it or lose the row to others, and whatever calls failed before: only a call
\* that fails now may leave the rows behind, and nothing but the next publication or the
\* next start of a process takes them up again.
ProjectionCatchesUp ==
    \A n \in 0..MaxErrors :
        (/\ projected # canonical /\ errors = n
         /\ \E p \in Processes : pc[p] \in {"state", "down"})
            ~> (projected = canonical \/ errors # n)
=============================================================================
