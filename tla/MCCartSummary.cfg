CONSTANTS
    CartItems <- MCCartItems
    QtyBound = 2
    Scale = 100
    RoundErr = 3

SPECIFICATION Spec
INVARIANT CartTotalsExact
