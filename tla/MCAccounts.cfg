\* Two requests of the application and one login at the gateway.
CONSTANTS
    p = p
    Blank = Blank
    Workers = {w1, w2}
    Visitors = {v1}
    Ids = {i1, i2}
    Logins = {anna, jan}
    Texts = {p, Blank}
    Legal = {p}
    LeadingZero = {}
    NoId = NoId
    NoLogin = NoLogin
SPECIFICATION Spec
INVARIANTS TypeOK OneAccountPerLogin HashedOnce LoginsAreAtomic
PROPERTIES DeletedStaysDeleted
SYMMETRY Symmetry
