\* An update with the password fields left empty.
CONSTANTS
    p = p
    Blank = Blank
    Workers = {w1, w2}
    Visitors = {v1}
    Ids = {i1, i2}
    Logins = {anna, jan}
    Texts = {p, Blank}
    Legal = {p}
    LeadingZero = {}
    NoId = NoId
    NoLogin = NoLogin
SPECIFICATION Spec
INVARIANTS PasswordsAreLegal
SYMMETRY Symmetry
