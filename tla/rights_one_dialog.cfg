CONSTANTS
    t1 = t1
    t2 = t2
    b1 = b1
    b2 = b2
    d1 = d1
    Threads = {t1, t2}
    Bundles = {b1, b2}
    Devices = {d1}
    DialogMayFail = FALSE
SPECIFICATION Spec
INVARIANTS OneDialogAtATime
