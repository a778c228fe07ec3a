SPECIFICATION Spec
CONSTANTS
    c1 = c1
    c2 = c2
    c3 = c3
    n1 = n1
    p1 = p1
    Agents = {"agent"}
    Ids = {"i1"}
    Inputs = {"x", "y"}
    Calls = {c1, c2, c3}
    Machines = {"m1"}
    Nonces = {n1}
    NoNonce = NoNonce
    Payments = {p1}
    NoPayment = NoPayment
    Requests <- JsonRequests
    NoRow <- MCNoRow
    Sessions = {"s1"}
    Owner <- MCOwner
    Price <- MCPrice
    Opening <- MCOpening
    TopUpAmount <- MCTopUpAmount
    Faults = {}
    MaxInFlight = 2
INVARIANTS
    ServedOnce
