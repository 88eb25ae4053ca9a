\* A registered password whose digest begins with a zero.
CONSTANTS
    p = p
    Blank = Blank
    Workers = {w1, w2}
    Visitors = {v1}
    Ids = {i1, i2}
    Logins = {anna, jan}
    Texts = {p, Blank}
    Legal = {p}
    LeadingZero = {p}
    NoId = NoId
    NoLogin = NoLogin
SPECIFICATION Spec
INVARIANTS DigestsAgree
SYMMETRY Symmetry
