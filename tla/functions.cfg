CONSTANTS
    UEC_SERVICE_INVALID_VALUE = {"acm", "error"}
    c1 = c1
    c2 = c2
    Callers = {c1, c2}
    Tokens = {"hdc", "acm", "none", "comma"}
    MaxTokens = 3
    MaxEvents = 3
SPECIFICATION FairSpec
INVARIANTS TypeOK StringsAreLists AgreeUnlessRaced
PROPERTIES BroadcastNamesFunctions BroadcastFollowsCable
