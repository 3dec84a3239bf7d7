SPECIFICATION Spec
CONSTANTS
    verifier = verifier
    Threads = {th1, th2}
    Processes <- MCProcesses
    ProcessOf <- MCProcessOf
    Dispatches = {d1}
    Identities = {i1}
    Receipts = {r1}
    NoReceipt = NoReceipt
    MaxRecords = 1
    MaxReceipts = 1
    MaxCrashes = 0
    MaxErrors = 1
INVARIANTS ReceiptBacked
CHECK_DEADLOCK FALSE
