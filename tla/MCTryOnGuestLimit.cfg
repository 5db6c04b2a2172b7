SPECIFICATION Spec
CONSTANTS
    r1 = r1
    r2 = r2
    g1 = g1
    m1 = m1
    Requests = {r1, r2}
    Photo = {r1, r2}
    Guests = {g1}
    Members = {m1}
    Owner <- OneGuest
    PhotoLimit = 1
    Calls = {c1, c2}
    MaxCrashes = 0
INVARIANTS
    GuestPhotoLimit
