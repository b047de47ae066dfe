\* One caller of advance() at a time, late or not, and the user.
SPECIFICATION Spec
CONSTANTS
    d1 = d1
    o1 = o1
    Nobody = Nobody
    Drivers <- OneDriver
    Operators <- User
    Swaps <- TwoSwaps
    Subs <- TwoSwaps
    Sources = {"onchain", "ext_lightning", "ext_onchain", "ext_onchain_channel"}
    MaxEvents = 2
CHECK_DEADLOCK FALSE
INVARIANTS TypeOK RowIsTrue PaidOnce FundedOnce NotBoth
PROPERTY EndIsFinal
