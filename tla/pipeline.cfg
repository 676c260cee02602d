SPECIFICATION Spec
CONSTANTS
    Order = {}
    Ids = {}
    Prices = {1, 2}
    OrderIds = {i1, i2, i3, i4}
    ZeroId = ZeroId
    Quantities = {1, 2}
    Stamps = {1}
    MaxOrders = 4
    MaxTime = 2
    Slips = {"loss", "restart", "order"}
    MaxSlips = 1
INVARIANTS
    NoFalsePositive
    AcceptedIsUnbroken
SYMMETRY MCSymmetry
CHECK_DEADLOCK FALSE
