\* Two requests at a time of a patient and an impatient browser of one user.
CONSTANTS
    Threads = {t1, t2}
    Browsers = {b1, b2}
    Patient = {b1}
    Users = {u1}
    NoUser = NoUser
    Series = {s1, s2}
    Tokens = {k1, k2}
    NoCookie = NoCookie
    Unchanged = Unchanged
SPECIFICATION Spec
INVARIANTS TypeOK AutoLoginsAreAtomic PatientIsNoThief RevocationIsFinal
SYMMETRY Symmetry
