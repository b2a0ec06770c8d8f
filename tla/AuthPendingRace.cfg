SPECIFICATION AuthSpec
CONSTANTS
    Users = {"ann"}
    ConfigUsers = {}
    Enrolled = {"ann"}
    Escaped = {}
    Alike = {}
    Roles = {"admin"}
    Tasks = {t1, t2}
    Tokens = {k1, k2, k3, k4}
    Codes = {c1, c2}
    MaxFailed = 2
INVARIANTS
    PendingUsedOnce
