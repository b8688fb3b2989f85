SPECIFICATION FairSpec
CONSTANTS
  Handlers = {h1, h2, h3}
  Keys = {k1, k2}
  Hashes = {x1, x2}
  Responses = {ok, failed}
  NoResponse = NoResponse
  NoRequest = NoRequest
  MaxFaults = 2
INVARIANTS ReceiptTypeOK CommandAtMostOnce RepliesOnRecord
PROPERTY ClaimedIsCompleted
