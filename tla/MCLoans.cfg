CONSTANTS
    Players = {p1, p2}
    NoLoan = none
    MaxUid = 2
    Amounts = {3, 4}
    Payments = {3}
    Rates = {1}
    Terms = {1}
    StartMoney = 4
    MaxDays = 2
    MaxRepays = 2
    MaxFaults = 1
SYMMETRY PlayerSymmetry
SPECIFICATION Spec
INVARIANTS
    WithinBounds
    MoneyConserved
    HandedOver
PROPERTIES
    Lifecycle
