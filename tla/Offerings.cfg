SPECIFICATION Spec
CONSTANTS
    Words <- MCWords
    Lower <- MCLower
    Bytes <- MCBytes
    Within <- MCWithin
    BuyIntent = {"order"}
    Products <- MCProducts
    Messages <- MCMessages
    Limits <- MCLimits
    DefaultResults = 2
    PromptLimit = 2
INVARIANTS
    PreviewsAreRight
    RepliesAreRight
