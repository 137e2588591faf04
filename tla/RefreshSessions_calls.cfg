\* Two concurrent calls, three tokens, one administrator.
SPECIFICATION SSpec
CONSTANTS
    Tokens = {t1, t2, t3}
    Calls = {c1, c2}
    Admins = {a1}
    NoToken = NoToken
SYMMETRY Symmetry
VIEW View
INVARIANTS TypeOK ForkOnlyByRace RevokedStaysOver SessionKept InactiveGetsNothing
