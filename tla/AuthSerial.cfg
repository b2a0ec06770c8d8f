SPECIFICATION AuthSpec
CONSTANTS
    Users = {"ann", "quoted"}
    ConfigUsers = {}
    Enrolled = {"ann"}
    Escaped = {"quoted"}
    Alike = {}
    Roles = {"admin"}
    Tasks = {t1}
    Tokens = {k1, k2, k3}
    Codes = {c1, c2}
    MaxFailed = 2
SYMMETRY Symmetry
INVARIANTS
    CredentialsAreSound
    DeletedIsRevoked
    LockedAtThreshold
