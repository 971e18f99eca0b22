CONSTANTS
    c1 = c1
    c2 = c2
    Callers = {c1, c2}
    MaxLives = 3
SPECIFICATION Spec
INVARIANTS SetFunctionsIsTruthful
