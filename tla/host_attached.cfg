CONSTANTS
    a1 = a1
    a2 = a2
    zero = zero
    Addrs = {a1, a2}
    Nameless = zero
    MaxPlugs = 2
    BadDescriptors = FALSE
    ClientsMayClose = FALSE
SPECIFICATION Spec
PROPERTIES AttachedIsValid
