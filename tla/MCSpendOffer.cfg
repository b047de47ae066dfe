\* SpendOffer
SPECIFICATION Spec
CONSTANTS
    a1 = a1  a2 = a2  a3 = a3  k1 = k1  k2 = k2  b1 = b1  b2 = b2
    nokey = nokey  nopay = nopay
    NoKey = nokey
    NoPayment = nopay
    Attempts <- Three
    Keys <- OneKey
    Bodies <- OneBody
    Requests <- MCOffer
    Faults <- Unknown
SYMMETRY Symmetry
CHECK_DEADLOCK FALSE
INVARIANT AtMostOncePerKey
