CONSTANTS
    main = main
    w1 = w1
    JsArray = JsArray
    Callers = {main, w1}
    MaxPromises = 2
    MaxLives = 2
SPECIFICATION FairNapiSpec
INVARIANTS NapiTypeOK OkMeansServed ResolvedIsServed SendsWhatWasGiven ContextsAreFreed
PROPERTIES NoWriteUnderUse PromisesSettle
CHECK_DEADLOCK FALSE
