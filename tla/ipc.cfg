CONSTANT MaxItems = 4
SPECIFICATION Spec
INVARIANTS ServedAsAsked OkMeansAnswered CleanCallsSucceed
