\* Two overlapping requests and two rows.
SPECIFICATION GSpec
CONSTANTS
    Rows = {i1, i2}
    Requests = {r1, r2}
    NoRow = NoRow
SYMMETRY Symmetry
INVARIANTS TypeOK DuplicatesOnlyByRace RevokeRevokes GrantSticks CascadeOnlyRaces
