--------------------------- MODULE CommandReceipts ---------------------------
(***************************************************************************)
(* Idempotent management commands of the Module HTTP adapter.              *)
(*                                                                         *)
(* Every command carries an idempotency key.  withCommandReceipt claims a  *)
(* receipt row for the key, runs the command into a buffer, completes the  *)
(* row with the buffered response and only then answers; a later request   *)
(* with the key is answered from the row.  Handlers of any number of       *)
(* Runtime processes run at the same time, and a client that saw no answer *)
(* sends its request again.                                                *)
(*                                                                         *)
(* A request is its key and its hash; the hash covers action, path, reason *)
(* and body, so action_key and resource_key add nothing to it.  Requests   *)
(* refused before the claim (no key, key or body too long) touch no state. *)
(***************************************************************************)
EXTENDS Naturals

CONSTANTS
    Handlers,       \* concurrent HTTP handlers
    Keys,           \* idempotency keys
    Hashes,         \* request hashes
    Responses,      \* buffered responses: status and body, errors included
    NoResponse,
    NoRequest,
    MaxFaults       \* model bound on aborted handlers and failing statements

ASSUME ReceiptAssumption ==
    /\ NoResponse \notin Responses
    /\ NoRequest \notin [key: Keys, hash: Hashes]
    /\ MaxFaults \in Nat

VARIABLES
    receipt,        \* _scheduler_command_receipts by key
    executions,     \* history: how often the command of a key has run
    replies,        \* history: command results clients were answered with
    stranded,       \* history: keys whose receipt a fault left executing
    pc, request, response,      \* per handler
    faults

vars == <<receipt, executions, replies, stranded, pc, request, response, faults>>

Requests == [key: Keys, hash: Hashes]
Receipts == [status: {"executing"}, hash: Hashes, response: {NoResponse}]
            \union [status: {"completed"}, hash: Hashes, response: Responses]
NoReceipt == [status |-> "none"]

ReceiptTypeOK ==
    /\ receipt \in [Keys -> Receipts \union {NoReceipt}]
    /\ executions \in [Keys -> Nat]
    /\ replies \subseteq [key: Keys, hash: Hashes, response: Responses]
    /\ stranded \subseteq Keys
    /\ pc \in [Handlers -> {"idle", "claim", "read", "run", "complete"}]
    /\ request \in [Handlers -> Requests \union {NoRequest}]
    /\ response \in [Handlers -> Responses \union {NoResponse}]
    /\ faults \in 0..MaxFaults

-----------------------------------------------------------------------------
Executing(hash) == [status |-> "executing", hash |-> hash, response |-> NoResponse]

Goto(h, label) == pc' = [pc EXCEPT ![h] = label]

\* The handler answers, with a result or with an error code, and is free again.
Finish(h) ==
    /\ Goto(h, "idle")
    /\ request'  = [request EXCEPT ![h] = NoRequest]
    /\ response' = [response EXCEPT ![h] = NoResponse]

\* The answer of h is the command's result r.
Answer(h, r) ==
    replies' = replies \union {[key |-> request[h].key, hash |-> request[h].hash, response |-> r]}

\* A valid request arrives, for the first time or again.
Receive(h, req) ==
    /\ pc[h] = "idle"
    /\ Goto(h, "claim")
    /\ request' = [request EXCEPT ![h] = req]
    /\ UNCHANGED <<receipt, executions, replies, stranded, response, faults>>

\* Faulty variant: a receipt that is still executing may be claimed again.
UnclaimedOrExecuting(k) == receipt[k].status # "completed"

\* The primary key (runtime_id, idempotency_key) admits one insert.
Unclaimed(k) == receipt[k] = NoReceipt

\* ClaimCommand, the INSERT: the winner runs the command, the others read.
Claim(h) ==
    LET k == request[h].key
    IN  /\ pc[h] = "claim"
        /\ \/ /\ Unclaimed(k)
              /\ receipt' = [receipt EXCEPT ![k] = Executing(request[h].hash)]
              /\ Goto(h, "run")
           \/ /\ ~Unclaimed(k)
              /\ UNCHANGED receipt
              /\ Goto(h, "read")
        /\ UNCHANGED <<executions, replies, stranded, request, response, faults>>

\* Faulty variant: a receipt is replayed whatever request it belongs to.
ReplayableAny(h, rec) == rec.status = "completed" /\ pc[h] = "read"

\* The checks before a stored response is replayed.
Replayable(h, rec) == rec.status = "completed" /\ rec.hash = request[h].hash

\* The row is read by a statement of its own: replay it, or answer
\* idempotency_conflict or operation_in_progress.
ReadReceipt(h) ==
    LET rec == receipt[request[h].key]
    IN  /\ pc[h] = "read"
        /\ \/ Replayable(h, rec) /\ Answer(h, rec.response)
           \/ ~Replayable(h, rec) /\ UNCHANGED replies
        /\ Finish(h)
        /\ UNCHANGED <<receipt, executions, stranded, faults>>

\* The command runs to its end, well or badly, into the buffer.
Run(h, r) ==
    /\ pc[h] = "run"
    /\ executions' = [executions EXCEPT ![request[h].key] = @ + 1]
    /\ response' = [response EXCEPT ![h] = r]
    /\ Goto(h, "complete")
    /\ UNCHANGED <<receipt, replies, stranded, request, faults>>

\* The predicate of CompleteCommand's update.
Completable(h) == receipt[request[h].key] = Executing(request[h].hash)

\* Faulty variant: the response is stored and the status is not set.
StillExecuting(h) == [status |-> "executing", hash |-> request[h].hash, response |-> response[h]]

\* What the update stores.
Completed(h) == [status |-> "completed", hash |-> request[h].hash, response |-> response[h]]

\* CompleteCommand, under a context that outlives the client's: the row is
\* completed before the buffer is copied into the answer.
Complete(h) ==
    /\ pc[h] = "complete"
    /\ \/ /\ Completable(h)
          /\ receipt' = [receipt EXCEPT ![request[h].key] = Completed(h)]
          /\ Answer(h, response[h])
       \/ ~Completable(h) /\ UNCHANGED <<receipt, replies>>
    /\ Finish(h)
    /\ UNCHANGED <<executions, stranded, faults>>

-----------------------------------------------------------------------------
(* Faults *)

\* The key is lost to its clients if the row stays executing without a handler.
Strand(k) == stranded' = stranded \union {k}

\* The insert fails at the client's end: it may have taken effect all the same.
ClaimFails(h) ==
    LET k == request[h].key
    IN  /\ pc[h] = "claim"
        /\ faults < MaxFaults
        /\ faults' = faults + 1
        /\ \/ UNCHANGED <<receipt, stranded>>
           \/ /\ Unclaimed(k)
              /\ receipt' = [receipt EXCEPT ![k] = Executing(request[h].hash)]
              /\ Strand(k)
        /\ Finish(h)
        /\ UNCHANGED <<executions, replies>>

\* The update fails or times out after five seconds; it too may have taken effect.
CompleteFails(h) ==
    LET k == request[h].key
    IN  /\ pc[h] = "complete"
        /\ faults < MaxFaults
        /\ faults' = faults + 1
        /\ \/ UNCHANGED receipt /\ Strand(k)
           \/ /\ Completable(h)
              /\ receipt' = [receipt EXCEPT ![k] = Completed(h)]
              /\ UNCHANGED stranded
        /\ Finish(h)
        /\ UNCHANGED <<executions, replies>>

\* The process dies or the handler panics; the command may have had its effect.
Abort(h) ==
    LET k == request[h].key
    IN  /\ pc[h] # "idle"
        /\ faults < MaxFaults
        /\ faults' = faults + 1
        /\ \/ UNCHANGED executions
           \/ pc[h] = "run" /\ executions' = [executions EXCEPT ![k] = @ + 1]
        /\ IF pc[h] \in {"run", "complete"} THEN Strand(k) ELSE UNCHANGED stranded
        /\ Finish(h)
        /\ UNCHANGED <<receipt, replies>>

-----------------------------------------------------------------------------
Init ==
    /\ receipt = [k \in Keys |-> NoReceipt]
    /\ executions = [k \in Keys |-> 0]
    /\ replies = {}
    /\ stranded = {}
    /\ pc = [h \in Handlers |-> "idle"]
    /\ request = [h \in Handlers |-> NoRequest]
    /\ response = [h \in Handlers |-> NoResponse]
    /\ faults = 0

\* The steps of a request that is being handled.
Step(h) ==
    \/ Claim(h)
    \/ ReadReceipt(h)
    \/ \E r \in Responses : Run(h, r)
    \/ Complete(h)

Next ==
    \E h \in Handlers :
        \/ \E req \in Requests : Receive(h, req)
        \/ Step(h)
        \/ ClaimFails(h)
        \/ CompleteFails(h)
        \/ Abort(h)

Spec == Init /\ [][Next]_vars

\* Handlers go on by themselves; commands end, as every dispatch has a timeout.
FairSpec == Spec /\ \A h \in Handlers : WF_vars(Step(h))

-----------------------------------------------------------------------------
(* Properties *)

\* A command runs at most once per idempotency key, however often it is sent, also
\* after a crash whose effect nobody knows.
CommandAtMostOnce == \A k \in Keys : executions[k] <= 1

\* Every result a client was answered with is the one on durable record for its
\* request, so that all answers to a request agree for good and no request is ever
\* answered with the result of another ("completed before its HTTP response is
\* returned").
RepliesOnRecord ==
    \A a \in replies :
        receipt[a.key] = [status |-> "completed", hash |-> a.hash, response |-> a.response]

\* Only a fault strands a key: a claimed command is completed in the end, so that
\* its clients stop seeing operation_in_progress.
ClaimedIsCompleted ==
    \A k \in Keys :
        receipt[k].status = "executing" ~> receipt[k].status = "completed" \/ k \in stranded
=============================================================================
