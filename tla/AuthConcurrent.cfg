SPECIFICATION AuthSpec
CONSTANTS
    Users = {"ann", "Ann"}
    ConfigUsers = {"Ann"}
    Enrolled = {"ann"}
    Escaped = {}
    Alike = {{"ann", "Ann"}}
    Roles = {"admin"}
    Tasks = {t1, t2}
    Tokens = {k1, k2}
    Codes = {c1}
    MaxFailed = 0
SYMMETRY Symmetry
INVARIANTS
    RevokedStaysRevoked
PROPERTIES
    NoLateReplay
