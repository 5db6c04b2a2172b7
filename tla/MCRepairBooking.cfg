SPECIFICATION Spec
CONSTANTS
    d1 = d1
    d2 = d2
    m1 = m1
    m2 = m2
    NoRow = NoRow
    Diagnoses = {d1, d2}
    Members = {m1, m2}
    Owner <- TwoMembers
    Stores = {st1, st2}
    ActiveStores = {st1}
    Slots = {t1}
    Reservations = {v1, v2}
    Sessions = {s1, s2}
    MaxCrashes = 1
INVARIANTS
    TypeOK
    LaterBookingYields
    ReservedForDamage
    StatusIsTrue
PROPERTIES
    ReservationsStay
SYMMETRY Symmetry
