\* A login while its user is deactivated.
SPECIFICATION SSpec
CONSTANTS
    Tokens = {t1, t2}
    Calls = {c1, c2}
    Admins = {a1}
    NoToken = NoToken
SYMMETRY Symmetry
INVARIANT DeactivationRevokes
