SPECIFICATION Spec
CONSTANTS
    Addresses = {x, y}
    x = x
    y = y
    Capacity = 2
    Window = 1
    MaxTime = 3
    Calls = {c1, c2, c3}
    c1 = c1
    c2 = c2
    c3 = c3
    Free = free
    MaxRestarts = 1
SYMMETRY Interchangeable
INVARIANTS
    LessThanTwiceCapacity
    ExchangesAreWhole
    OneReceiptPerAnsweredTurn
    MutexIsReleased
