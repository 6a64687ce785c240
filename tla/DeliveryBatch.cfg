SPECIFICATION Spec
CONSTANTS
    Mode = "json"
    Subs = {1, 2, 3}
    NoSub = NoSub
    Count <- MCCount
    Payload <- MCPayload
    Size <- MCSize
    BatchBytes = 20
INVARIANTS
    ByteSizeIsBodyLength
    ClosedFormsAgree
    NeverOutgrows
