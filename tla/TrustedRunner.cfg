SPECIFICATION VerifySpec
CONSTANTS
    c1 = c1
    c2 = c2
    many = many
    link = link
    cased = cased
    large = large
    Commits = {c1, c2, many, link, cased, large}
    Entries <- TreeOf
    MaxEntries = 4
    MaxArchived = 3
    None = None
    Cases <- Manifests
CHECK_DEADLOCK FALSE
INVARIANTS
    PassedReceiptSound
    ProjectionAgrees
    LeaseSettled
