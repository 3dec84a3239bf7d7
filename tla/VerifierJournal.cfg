SPECIFICATION FairSpec
CONSTANTS
    verifier = verifier
    Threads = {th1, th2}
    Processes <- MCProcesses
    ProcessOf <- MCProcessOf
    Dispatches = {d1, d2}
    Identities = {i1}
    Receipts = {r1, r2}
    NoReceipt = NoReceipt
    MaxRecords = 1
    MaxReceipts = 1
    MaxCrashes = 1
    MaxErrors = 1
INVARIANTS OneOwner OneExecution SnapshotReleased FailureRemembered ReceiptAfterCleanup StoresBounded
PROPERTIES ReceiptRetryCompletes
CHECK_DEADLOCK FALSE
