CONSTANTS
    Handle = 4
    MaxSize = 3
    Path = 3
    SizeInt = 2
    SizeI64 = 3
    MaxAmt = 5
SPECIFICATION Spec
INVARIANTS RequestArrives ReplyArrives
