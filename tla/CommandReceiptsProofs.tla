------------------------ MODULE CommandReceiptsProofs ------------------------
(***************************************************************************)
(* Proofs about CommandReceipts, for any number of handlers, keys and      *)
(* faults: a command runs at most once per key, and every answer is on     *)
(* durable record.                                                         *)
(***************************************************************************)
EXTENDS CommandReceipts, TLAPS

\* A handler that holds a request holds one of the right shape, and one that has
\* run its command holds a response.
BusyHasRequest ==
    \A h \in Handlers :
        /\ pc[h] # "idle" => request[h] \in Requests
        /\ pc[h] = "complete" => response[h] \in Responses

\* Every step keeps the types.
LEMMA TypeStep ==
    ReceiptTypeOK /\ BusyHasRequest /\ [Next]_vars => ReceiptTypeOK' /\ BusyHasRequest'
<1> SUFFICES ASSUME ReceiptTypeOK, BusyHasRequest, [Next]_vars
             PROVE  ReceiptTypeOK' /\ BusyHasRequest'
  OBVIOUS
<1> USE ReceiptAssumption DEF ReceiptTypeOK, BusyHasRequest
<1>1. ASSUME NEW h \in Handlers, NEW req \in Requests, Receive(h, req)
      PROVE  ReceiptTypeOK' /\ BusyHasRequest'
  BY <1>1 DEF Receive, Goto
<1>2. ASSUME NEW h \in Handlers, Claim(h)
      PROVE  ReceiptTypeOK' /\ BusyHasRequest'
  <2>1. request[h].key \in Keys /\ Executing(request[h].hash) \in Receipts
    BY <1>2 DEF Claim, Requests, Executing, Receipts
  <2> QED
    BY <1>2, <2>1 DEF Claim, Goto
<1>3. ASSUME NEW h \in Handlers, ReadReceipt(h)
      PROVE  ReceiptTypeOK' /\ BusyHasRequest'
  <2>1. request[h].key \in Keys /\ request[h].hash \in Hashes
    BY <1>3 DEF ReadReceipt, Requests
  <2>2. replies' \subseteq [key: Keys, hash: Hashes, response: Responses]
    <3>1. CASE Replayable(h, receipt[request[h].key])
      <4>1. receipt[request[h].key].response \in Responses
        BY <2>1, <3>1 DEF Replayable, Receipts, NoReceipt
      <4> QED
        BY <1>3, <2>1, <3>1, <4>1 DEF ReadReceipt, Answer
    <3> QED
      BY <1>3, <3>1 DEF ReadReceipt
  <2> QED
    BY <1>3, <2>2 DEF ReadReceipt, Finish, Goto
<1>4. ASSUME NEW h \in Handlers, NEW r \in Responses, Run(h, r)
      PROVE  ReceiptTypeOK' /\ BusyHasRequest'
  BY <1>4 DEF Run, Goto, Requests
<1>5. ASSUME NEW h \in Handlers, pc[h] = "complete"
      PROVE  /\ request[h].key \in Keys
             /\ request[h].hash \in Hashes
             /\ response[h] \in Responses
             /\ Completed(h) \in Receipts
  BY <1>5 DEF Requests, Completed, Receipts
<1>6. ASSUME NEW h \in Handlers, Complete(h)
      PROVE  ReceiptTypeOK' /\ BusyHasRequest'
  <2>1. /\ receipt' \in [Keys -> Receipts \union {NoReceipt}]
        /\ replies' \subseteq [key: Keys, hash: Hashes, response: Responses]
    BY <1>5, <1>6 DEF Complete, Answer
  <2> QED
    BY <1>6, <2>1 DEF Complete, Finish, Goto
<1>7. ASSUME NEW h \in Handlers, ClaimFails(h)
      PROVE  ReceiptTypeOK' /\ BusyHasRequest'
  <2>1. request[h].key \in Keys /\ Executing(request[h].hash) \in Receipts
    BY <1>7 DEF ClaimFails, Requests, Executing, Receipts
  <2> QED
    BY <1>7, <2>1 DEF ClaimFails, Strand, Finish, Goto
<1>8. ASSUME NEW h \in Handlers, CompleteFails(h)
      PROVE  ReceiptTypeOK' /\ BusyHasRequest'
  BY <1>5, <1>8 DEF CompleteFails, Strand, Finish, Goto
<1>9. ASSUME NEW h \in Handlers, Abort(h)
      PROVE  ReceiptTypeOK' /\ BusyHasRequest'
  <2>1. request[h].key \in Keys
    BY <1>9 DEF Abort, Requests
  <2> QED
    BY <1>9, <2>1 DEF Abort, Strand, Finish, Goto
<1>10. CASE UNCHANGED vars
  BY <1>10 DEF vars
<1> QED
  BY <1>1, <1>2, <1>3, <1>4, <1>6, <1>7, <1>8, <1>9, <1>10 DEF Next, Step

\* The rows, requests and responses keep their types, whatever fails.
THEOREM ReceiptTypeCorrect == Spec => [](ReceiptTypeOK /\ BusyHasRequest)
<1>1. Init => ReceiptTypeOK /\ BusyHasRequest
  BY ReceiptAssumption DEF Init, ReceiptTypeOK, BusyHasRequest
<1> QED
  BY <1>1, TypeStep, PTL DEF Spec

-----------------------------------------------------------------------------
(* Exclusive execution *)

\* The handlers that own the claim of a key.
Owning(h, k) == pc[h] \in {"run", "complete"} /\ request[h].key = k

\* A key has one owner at most; its row is executing under the owner's hash, and
\* until the owner has run the command nobody else has.
OwnerExclusive ==
    \A h \in Handlers, k \in Keys : Owning(h, k) =>
        /\ \A g \in Handlers : Owning(g, k) => g = h
        /\ receipt[k] = Executing(request[h].hash)
        /\ pc[h] = "run" => executions[k] = 0

\* Without a row nothing has run.
UnclaimedNotRun == \A k \in Keys : receipt[k] = NoReceipt => executions[k] = 0

ReceiptInv == OwnerExclusive /\ UnclaimedNotRun /\ CommandAtMostOnce /\ RepliesOnRecord

\* Executing and completed rows, and no row, are told apart.
LEMMA RowsDiffer ==
    \A h \in Handlers, x \in Hashes :
        /\ Executing(x) # NoReceipt
        /\ Completed(h) # NoReceipt
        /\ Executing(x).status = "executing"
        /\ Completed(h).status = "completed"
        /\ NoReceipt.status = "none"
  BY DEF Executing, Completed, NoReceipt

\* A row that is replaced is not on record yet.
LEMMA OnlyOpenRowsChange ==
    ASSUME RepliesOnRecord, NEW k \in Keys, receipt[k].status # "completed"
    PROVE  \A a \in replies : a.key # k
<1> SUFFICES ASSUME NEW a \in replies, a.key = k
             PROVE  FALSE
  OBVIOUS
<1>1. receipt[k] = [status |-> "completed", hash |-> a.hash, response |-> a.response]
  BY DEF RepliesOnRecord
<1>2. receipt[k].status = "completed"
  BY <1>1
<1> QED
  BY <1>2

\* Every step keeps the receipts exclusive and the answers on record.
LEMMA ReceiptStep ==
    ReceiptTypeOK /\ BusyHasRequest /\ ReceiptInv /\ [Next]_vars => ReceiptInv'
<1> SUFFICES ASSUME ReceiptTypeOK, BusyHasRequest, ReceiptInv, [Next]_vars
             PROVE  ReceiptInv'
  OBVIOUS
<1>a. /\ OwnerExclusive /\ UnclaimedNotRun /\ CommandAtMostOnce /\ RepliesOnRecord
  BY DEF ReceiptInv
<1> USE DEF ReceiptTypeOK, BusyHasRequest
<1>b. ASSUME NEW h \in Handlers, pc[h] # "idle"
      PROVE  request[h].key \in Keys /\ request[h].hash \in Hashes
  BY <1>b DEF Requests
<1>1. ASSUME NEW h \in Handlers, NEW req \in Requests, Receive(h, req)
      PROVE  ReceiptInv'
  BY <1>1, <1>a DEF Receive, Goto, ReceiptInv, OwnerExclusive, UnclaimedNotRun,
                    CommandAtMostOnce, RepliesOnRecord, Owning, Executing
<1>2. ASSUME NEW h \in Handlers, Claim(h)
      PROVE  ReceiptInv'
  <2> DEFINE k == request[h].key
  <2>0. k \in Keys /\ request[h].hash \in Hashes
    BY <1>2, <1>b DEF Claim
  <2>1. CASE Unclaimed(k)
    <3>1. /\ receipt' = [receipt EXCEPT ![k] = Executing(request[h].hash)]
          /\ pc' = [pc EXCEPT ![h] = "run"]
          /\ UNCHANGED <<executions, replies, stranded, request, response, faults>>
      BY <1>2, <2>1 DEF Claim, Goto
    <3>2. receipt[k] = NoReceipt /\ executions[k] = 0
      BY <2>0, <2>1, <1>a DEF Unclaimed, UnclaimedNotRun
    <3>3. \A g \in Handlers : ~Owning(g, k)
      BY <2>0, <3>2, <1>a, <1>b, RowsDiffer DEF OwnerExclusive, Owning
    <3>4. OwnerExclusive'
      BY <2>0, <3>1, <3>2, <3>3, <1>a DEF OwnerExclusive, Owning, Executing
    <3>5. UnclaimedNotRun' /\ CommandAtMostOnce'
      BY <2>0, <3>1, <1>a, RowsDiffer DEF UnclaimedNotRun, CommandAtMostOnce
    <3>6. RepliesOnRecord'
      BY <2>0, <3>1, <3>2, <1>a, OnlyOpenRowsChange, RowsDiffer DEF RepliesOnRecord
    <3> QED
      BY <3>4, <3>5, <3>6 DEF ReceiptInv
  <2>2. CASE ~Unclaimed(k)
    BY <1>2, <2>2, <1>a DEF Claim, Goto, ReceiptInv, OwnerExclusive, UnclaimedNotRun,
                            CommandAtMostOnce, RepliesOnRecord, Owning, Executing
  <2> QED
    BY <2>1, <2>2
<1>3. ASSUME NEW h \in Handlers, ReadReceipt(h)
      PROVE  ReceiptInv'
  <2> DEFINE k == request[h].key
  <2>0. k \in Keys /\ request[h].hash \in Hashes
    BY <1>3, <1>b DEF ReadReceipt
  <2>1. OwnerExclusive' /\ UnclaimedNotRun' /\ CommandAtMostOnce'
    BY <1>3, <1>a DEF ReadReceipt, Finish, Goto, OwnerExclusive, UnclaimedNotRun,
                      CommandAtMostOnce, Owning, Executing
  <2>2. RepliesOnRecord'
    <3>1. CASE Replayable(h, receipt[k])
      <4>1. receipt[k] = [status |-> "completed", hash |-> request[h].hash,
                          response |-> receipt[k].response]
        BY <2>0, <3>1 DEF Replayable, Receipts, NoReceipt
      <4>2. /\ UNCHANGED receipt
            /\ replies' = replies \union {[key |-> k, hash |-> request[h].hash,
                                           response |-> receipt[k].response]}
        BY <1>3, <3>1 DEF ReadReceipt, Answer
      <4> DEFINE new == [key |-> k, hash |-> request[h].hash, response |-> receipt[k].response]
      <4>3. receipt[new.key] = [status |-> "completed", hash |-> new.hash,
                                response |-> new.response]
        BY <4>1
      <4> HIDE DEF new
      <4>4. \A a \in replies' :
              receipt[a.key] = [status |-> "completed", hash |-> a.hash, response |-> a.response]
        BY <4>2, <4>3, <1>a DEF RepliesOnRecord, new
      <4> QED
        BY <4>2, <4>4 DEF RepliesOnRecord
    <3>2. CASE ~Replayable(h, receipt[k])
      BY <1>3, <3>2, <1>a DEF ReadReceipt, RepliesOnRecord
    <3> QED
      BY <3>1, <3>2
  <2> QED
    BY <2>1, <2>2 DEF ReceiptInv
<1>4. ASSUME NEW h \in Handlers, NEW r \in Responses, Run(h, r)
      PROVE  ReceiptInv'
  <2> DEFINE k == request[h].key
  <2>0. k \in Keys /\ request[h].hash \in Hashes
    BY <1>4, <1>b DEF Run
  <2>1. /\ executions[k] = 0
        /\ receipt[k] = Executing(request[h].hash)
        /\ \A g \in Handlers : Owning(g, k) => g = h
    BY <1>4, <2>0, <1>a DEF Run, OwnerExclusive, Owning
  <2>2. /\ executions' = [executions EXCEPT ![k] = executions[k] + 1]
        /\ pc' = [pc EXCEPT ![h] = "complete"]
        /\ UNCHANGED <<receipt, replies, request>>
    BY <1>4 DEF Run, Goto
  <2>3. OwnerExclusive'
    BY <2>0, <2>1, <2>2, <1>a DEF OwnerExclusive, Owning, Executing
  <2>4. UnclaimedNotRun' /\ CommandAtMostOnce'
    BY <2>0, <2>1, <2>2, <1>a, RowsDiffer DEF UnclaimedNotRun, CommandAtMostOnce
  <2>5. RepliesOnRecord'
    BY <2>2, <1>a DEF RepliesOnRecord
  <2> QED
    BY <2>3, <2>4, <2>5 DEF ReceiptInv
<1>c. ASSUME NEW h \in Handlers, pc[h] = "complete", Completable(h),
             receipt' = [receipt EXCEPT ![request[h].key] = Completed(h)],
             UNCHANGED executions, Finish(h),
             UNCHANGED replies \/ Answer(h, response[h])
      PROVE  ReceiptInv'
  <2> DEFINE k == request[h].key
  <2>0. k \in Keys /\ request[h].hash \in Hashes
    BY <1>c, <1>b
  <2>1. \A g \in Handlers : Owning(g, k) => g = h
    BY <1>c, <2>0, <1>a DEF OwnerExclusive, Owning
  <2>2. receipt[k].status # "completed"
    BY <1>c, <2>0, RowsDiffer DEF Completable
  <2>3. OwnerExclusive'
    BY <1>c, <2>0, <2>1, <1>a DEF OwnerExclusive, Owning, Finish, Goto, Executing
  <2>4. UnclaimedNotRun' /\ CommandAtMostOnce'
    BY <1>c, <2>0, <1>a, RowsDiffer DEF UnclaimedNotRun, CommandAtMostOnce
  <2>5. \A a \in replies : a.key # k
    BY <2>0, <2>2, <1>a, OnlyOpenRowsChange
  <2>6. \A a \in replies : a.key \in Keys
    OBVIOUS
  <2>7. \A a \in replies : receipt'[a.key] = receipt[a.key]
    BY <1>c, <2>5, <2>6
  <2>8. receipt'[k] = [status |-> "completed", hash |-> request[h].hash, response |-> response[h]]
    BY <1>c, <2>0 DEF Completed
  <2>9. RepliesOnRecord'
    <3> DEFINE new == [key |-> k, hash |-> request[h].hash, response |-> response[h]]
    <3>1. receipt'[new.key] = [status |-> "completed", hash |-> new.hash,
                               response |-> new.response]
      BY <2>8
    <3>2. replies' \subseteq replies \union {new}
      BY <1>c DEF Answer
    <3> HIDE DEF new
    <3> QED
      BY <2>7, <3>1, <3>2, <1>a DEF RepliesOnRecord
  <2> QED
    BY <2>3, <2>4, <2>9 DEF ReceiptInv
<1>d. ASSUME NEW h \in Handlers, Finish(h), UNCHANGED <<receipt, replies, executions>>
      PROVE  ReceiptInv'
  BY <1>d, <1>a DEF Finish, Goto, ReceiptInv, OwnerExclusive, UnclaimedNotRun,
                    CommandAtMostOnce, RepliesOnRecord, Owning, Executing
<1>5. ASSUME NEW h \in Handlers, Complete(h)
      PROVE  ReceiptInv'
  <2>1. CASE Completable(h)
    BY <1>5, <2>1, <1>c DEF Complete
  <2>2. CASE ~Completable(h)
    BY <1>5, <2>2, <1>d DEF Complete
  <2> QED
    BY <2>1, <2>2
<1>6. ASSUME NEW h \in Handlers, ClaimFails(h)
      PROVE  ReceiptInv'
  <2> DEFINE k == request[h].key
  <2>0. k \in Keys /\ request[h].hash \in Hashes
    BY <1>6, <1>b DEF ClaimFails
  <2>1. CASE UNCHANGED receipt
    BY <1>6, <2>1, <1>d DEF ClaimFails
  <2>2. CASE ~UNCHANGED receipt
    <3>1. /\ receipt' = [receipt EXCEPT ![k] = Executing(request[h].hash)]
          /\ Unclaimed(k)
          /\ Finish(h)
          /\ UNCHANGED <<executions, replies>>
      BY <1>6, <2>2 DEF ClaimFails
    <3>2. receipt[k] = NoReceipt
      BY <3>1 DEF Unclaimed
    <3>3. \A g \in Handlers : ~Owning(g, k)
      BY <2>0, <3>2, <1>a, <1>b, RowsDiffer DEF OwnerExclusive, Owning
    <3>4. OwnerExclusive'
      BY <2>0, <3>1, <3>3, <1>a DEF OwnerExclusive, Owning, Finish, Goto, Executing
    <3>5. UnclaimedNotRun' /\ CommandAtMostOnce'
      BY <2>0, <3>1, <1>a, RowsDiffer DEF UnclaimedNotRun, CommandAtMostOnce
    <3>6. RepliesOnRecord'
      BY <2>0, <3>1, <3>2, <1>a, OnlyOpenRowsChange, RowsDiffer DEF RepliesOnRecord
    <3> QED
      BY <3>4, <3>5, <3>6 DEF ReceiptInv
  <2> QED
    BY <2>1, <2>2
<1>7. ASSUME NEW h \in Handlers, CompleteFails(h)
      PROVE  ReceiptInv'
  <2>1. CASE UNCHANGED receipt
    BY <1>7, <2>1, <1>d DEF CompleteFails
  <2>2. CASE ~UNCHANGED receipt
    BY <1>7, <2>2, <1>c DEF CompleteFails
  <2> QED
    BY <2>1, <2>2
<1>8. ASSUME NEW h \in Handlers, Abort(h)
      PROVE  ReceiptInv'
  <2> DEFINE k == request[h].key
  <2>0. k \in Keys /\ request[h].hash \in Hashes
    BY <1>8, <1>b DEF Abort
  <2>1. CASE UNCHANGED executions
    BY <1>8, <2>1, <1>d DEF Abort
  <2>2. CASE ~UNCHANGED executions
    <3>1. /\ pc[h] = "run"
          /\ executions' = [executions EXCEPT ![k] = executions[k] + 1]
          /\ Finish(h)
          /\ UNCHANGED <<receipt, replies>>
      BY <1>8, <2>2 DEF Abort
    <3>2. /\ executions[k] = 0
          /\ receipt[k] = Executing(request[h].hash)
          /\ \A g \in Handlers : Owning(g, k) => g = h
      BY <3>1, <2>0, <1>a DEF OwnerExclusive, Owning
    <3>3. OwnerExclusive'
      BY <2>0, <3>1, <3>2, <1>a DEF OwnerExclusive, Owning, Finish, Goto, Executing
    <3>4. UnclaimedNotRun' /\ CommandAtMostOnce'
      BY <2>0, <3>1, <3>2, <1>a, RowsDiffer DEF UnclaimedNotRun, CommandAtMostOnce
    <3>5. RepliesOnRecord'
      BY <3>1, <1>a DEF RepliesOnRecord
    <3> QED
      BY <3>3, <3>4, <3>5 DEF ReceiptInv
  <2> QED
    BY <2>1, <2>2
<1>9. CASE UNCHANGED vars
  BY <1>9, <1>a DEF vars, ReceiptInv, OwnerExclusive, UnclaimedNotRun,
                    CommandAtMostOnce, RepliesOnRecord, Owning, Executing
<1> QED
  BY <1>1, <1>2, <1>3, <1>4, <1>5, <1>6, <1>7, <1>8, <1>9 DEF Next, Step

\* The receipts stay exclusive and every answer stays on record.
THEOREM ReceiptsCorrect == Spec => []ReceiptInv
<1>1. Init => ReceiptInv
  BY DEF Init, ReceiptInv, OwnerExclusive, UnclaimedNotRun, CommandAtMostOnce,
         RepliesOnRecord, Owning
<1> QED
  BY <1>1, ReceiptTypeCorrect, ReceiptStep, PTL DEF Spec

\* A command runs at most once per idempotency key.
THEOREM CommandsRunOnce == Spec => []CommandAtMostOnce
<1>1. ReceiptInv => CommandAtMostOnce
  BY DEF ReceiptInv
<1> QED
  BY <1>1, ReceiptsCorrect, PTL

\* Every result a client was answered with is the one on durable record.
THEOREM AnswersStayOnRecord == Spec => []RepliesOnRecord
<1>1. ReceiptInv => RepliesOnRecord
  BY DEF ReceiptInv
<1> QED
  BY <1>1, ReceiptsCorrect, PTL
=============================================================================
