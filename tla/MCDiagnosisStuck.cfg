SPECIFICATION FairSpec
CONSTANTS
    d1 = d1
    d2 = d2
    m1 = m1
    m2 = m2
    NoRow = NoRow
    Diagnoses = {d1}
    Members = {m1, m2}
    Owner <- OneMember
    Stores = {st1, st2}
    ActiveStores = {st1}
    Slots = {t1}
    Reservations = {v1}
    Sessions = {s1}
    MaxCrashes = 1
PROPERTIES
    JobSettles
