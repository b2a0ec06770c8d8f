----------------------------- MODULE AuthProofs -----------------------------
(***************************************************************************)
(* Proofs about Auth, for every set of users, tasks, tokens and codes.     *)
(***************************************************************************)
EXTENDS Auth, TLAPS

\* What a row written or deleted does to the keys of a table.
LEMMA PutDomain ==
    ASSUME NEW f, NEW k, NEW v
    PROVE  DOMAIN Put(f, k, v) = DOMAIN f \cup {k}
BY DEF Put

LEMMA WithoutDomain ==
    ASSUME NEW f, NEW S
    PROVE  DOMAIN Without(f, S) = DOMAIN f \ S
BY DEF Without, Restrict

\* Sessions and revoked sessions have tokens that were drawn before.
RevocationInv ==
    /\ DOMAIN sessions \subseteq minted
    /\ revoked \subseteq minted
    /\ RevokedStaysRevoked

\* A step that stores no new session, draws tokens and deletes sessions as
\* revoked keeps the invariant.
LEMMA RevocationShrinks ==
    ASSUME RevocationInv, minted \subseteq minted',
           NEW S, S \subseteq DOMAIN sessions,
           DOMAIN sessions' = DOMAIN sessions \ S, revoked' = revoked \cup S
    PROVE  RevocationInv'
BY DEF RevocationInv, RevokedStaysRevoked

LEMMA RevocationInductive ==
    ASSUME RevocationInv, [AuthNext]_authVars
    PROVE  RevocationInv'
<1>1. ASSUME minted \subseteq minted', DOMAIN sessions' = DOMAIN sessions,
             revoked' = revoked
      PROVE  RevocationInv'
    BY <1>1, RevocationShrinks, SMT DEF RevocationInv, RevokedStaysRevoked
<1>2. CASE UNCHANGED authVars
    BY <1>1, <1>2 DEF authVars, tables, ghosts
<1>3. ASSUME NEW t \in Tasks, Request(t) PROVE RevocationInv'
    <2>1. sessions' = sessions /\ revoked' = revoked /\ minted \subseteq minted'
        BY <1>3 DEF Request, Login, Setup, DeleteUser, CreateUser, UpdateUser,
              SelectPending, Validate, Logout, OidcCallback, OidcLogin, tables, ghosts
    <2> QED
        BY <1>1, <2>1
<1>4. ASSUME NEW t \in Tasks, IssueSession(t) PROVE RevocationInv'
    <2>1. PICK tok \in Tokens \ minted :
             /\ minted' = minted \cup {tok}
             /\ sessions' = Put(sessions, tok,
                   [user |-> task[t].user, role |-> Parse(task[t].row.role),
                    via |-> task[t].then, used |-> "recent"])
        BY <1>4 DEF IssueSession
    <2>2. DOMAIN sessions' = DOMAIN sessions \cup {tok}
        BY <2>1, PutDomain
    <2>3. revoked' = revoked
        BY <1>4 DEF IssueSession, ghosts
    <2> QED
        BY <2>1, <2>2, <2>3 DEF RevocationInv, RevokedStaysRevoked
<1>5. ASSUME NEW t \in Tasks, RevokeSessions(t) PROVE RevocationInv'
    <2>1. DOMAIN sessions' = DOMAIN sessions \ SessionsOf(task[t].user)
        BY <1>5, WithoutDomain DEF RevokeSessions
    <2>2. SessionsOf(task[t].user) \subseteq DOMAIN sessions
        BY DEF SessionsOf
    <2> QED
        BY <1>5, <2>1, <2>2, RevocationShrinks DEF RevokeSessions
<1>6. ASSUME NEW t \in Tasks, DropSession(t) PROVE RevocationInv'
    <2> DEFINE S == {task[t].tok} \cap DOMAIN sessions
    <2>1. DOMAIN sessions' = DOMAIN sessions \ {task[t].tok}
        BY <1>6, WithoutDomain DEF DropSession
    <2>2. DOMAIN sessions' = DOMAIN sessions \ S /\ revoked' = revoked \cup S
        BY <1>6, <2>1 DEF DropSession
    <2>3. minted' = minted
        BY <1>6 DEF DropSession
    <2> QED
        BY <2>2, <2>3, RevocationShrinks
<1>7. ASSUME NEW t \in Tasks, Touch(t) PROVE RevocationInv'
    <2>1. DOMAIN sessions' = DOMAIN sessions
        <3>1. CASE task[t].tok \in DOMAIN sessions
            <4>1. sessions' = Put(sessions, task[t].tok, task[t].row)
                BY <1>7, <3>1 DEF Touch
            <4>2. DOMAIN sessions' = DOMAIN sessions \cup {task[t].tok}
                BY <4>1, PutDomain
            <4> QED
                BY <3>1, <4>2
        <3>2. CASE task[t].tok \notin DOMAIN sessions
            BY <1>7, <3>2 DEF Touch
        <3> QED
            BY <3>1, <3>2
    <2> QED
        BY <1>1, <1>7, <2>1 DEF Touch, ghosts
<1>8. ASSUME NEW t \in Tasks, Handle(t) PROVE RevocationInv'
    <2>1. \/ IssueSession(t) \/ RevokeSessions(t) \/ DropSession(t) \/ Touch(t)
          \/ sessions' = sessions /\ revoked' = revoked /\ minted \subseteq minted'
        BY <1>8 DEF Handle, CheckPassword, ClearLockout, CheckEnrolled, IssuePending,
              LogLogin, FailRead, FailPut, ConsumePending, VerifyCode, BeginEnrollment,
              ConfirmEnrollment, LoadNobody, SaveUser, DeleteRow, OidcConsume, tables, ghosts
    <2> QED
        BY <1>1, <1>4, <1>5, <1>6, <1>7, <2>1
<1>9. CASE PurgeSessions
    <2> DEFINE S == DOMAIN sessions \cap lapsed
    <2>1. DOMAIN sessions' = DOMAIN sessions \ lapsed
        BY <1>9, WithoutDomain DEF PurgeSessions
    <2>2. DOMAIN sessions' = DOMAIN sessions \ S /\ revoked' = revoked \cup S /\ minted' = minted
        BY <1>9, <2>1 DEF PurgeSessions
    <2> QED
        BY <2>2, RevocationShrinks
<1>10. ASSUME NEW tok \in Tokens, Idles(tok) PROVE RevocationInv'
    BY <1>1, <1>10 DEF Idles, ghosts
<1>11. CASE PurgeOidc \/ (\E tok \in Tokens : Expires(tok)) \/ (\E u \in Users : LockLapses(u))
    BY <1>1, <1>11 DEF PurgeOidc, Expires, LockLapses, tables, ghosts
<1> QED
    BY <1>2, <1>3, <1>8, <1>9, <1>10, <1>11 DEF AuthNext

\* A revoked session never validates again, whatever requests are in flight
\* when it is revoked.
THEOREM RevokedStaysRevokedHolds == AuthSpec => []RevokedStaysRevoked
<1>1. AuthInit => RevocationInv
    BY DEF AuthInit, RevocationInv, RevokedStaysRevoked
<1>2. RevocationInv /\ [AuthNext]_authVars => RevocationInv'
    BY RevocationInductive
<1>3. RevocationInv => RevokedStaysRevoked
    BY DEF RevocationInv
<1> QED
    BY <1>1, <1>2, <1>3, PTL DEF AuthSpec
-----------------------------------------------------------------------------
(* Types: the rows of the tables, and what a handler holds at each step. *)

UserRow == [role : Roles, secret : BOOLEAN, enabled : BOOLEAN, backup : SUBSET Codes]
LockRow == [failures : 0..MaxFailed, lock : {"none", "locked", "lapsed"}]
PendingRow == [user : Users, kind : {"verify", "enroll"}]
SessionRow == [user : Users, role : {"admin", "operator", "auditor", "viewer"},
               via : {"config", "mfa", "oidc"}, used : {"recent", "old", "idle"}]

Locals ==
    [at : {"idle", "password", "clear", "fail", "failPut", "enrolled", "pending", "session",
           "log", "consume", "load", "save", "delete", "revoke", "drop", "touch", "oidc"},
     user : Users \cup {""},
     tok : Tokens \cup {""},
     row : UserRow \cup LockRow \cup PendingRow \cup SessionRow \cup {<<>>},
     then : {"", "verify", "enroll", "begin", "confirm", "setup", "create", "update",
             "config", "mfa", "oidc"}]

\* What the locals hold where a handler uses them.
Holds(l) ==
    /\ l.at \in {"password", "clear", "fail", "failPut", "enrolled", "pending", "session",
                 "consume", "load", "save", "delete", "revoke"} => l.user \in Users
    /\ l.at \in {"save", "session"} => l.row \in UserRow
    /\ l.at = "save" => l.user \notin ConfigUsers
                     /\ l.then \in {"verify", "begin", "confirm", "setup", "create", "update"}
    /\ l.at = "session" => l.then \in {"config", "mfa", "oidc"}
    /\ l.at = "load" => l.then \in {"verify", "begin", "confirm"}
    /\ l.at = "failPut" => l.row \in LockRow /\ MaxFailed > 0
    /\ l.at = "consume" => l.row \in PendingRow /\ l.tok \in Tokens
                        /\ l.then \in {"verify", "begin", "confirm"}
    /\ l.at = "touch" => l.row \in SessionRow
    /\ l.at \in {"oidc", "touch"} => l.tok \in Tokens

TablesTyped ==
    /\ DOMAIN users \subseteq Users \ ConfigUsers /\ \A u \in DOMAIN users : users[u] \in UserRow
    /\ DOMAIN sessions \subseteq Tokens /\ \A k \in DOMAIN sessions : sessions[k] \in SessionRow
    /\ DOMAIN pending \subseteq Tokens /\ \A k \in DOMAIN pending : pending[k] \in PendingRow
    /\ DOMAIN lockout \subseteq Users
    /\ \A u \in DOMAIN lockout : lockout[u] \in LockRow /\ lockout[u].failures > 0
    /\ oidc \subseteq Tokens /\ lapsed \subseteq Tokens /\ minted \subseteq Tokens \cup Codes

TasksTyped == task \in [Tasks -> Locals] /\ \A t \in Tasks : Holds(task[t])

LEMMA IdleTyped == Idle \in Locals /\ Holds(Idle)
BY DEF Idle, Locals, Holds

\* A step of t's handler changes t's locals only.
LEMMA TaskMoves ==
    ASSUME TasksTyped, NEW t \in Tasks, NEW l \in Locals, Holds(l), Become(t, l)
    PROVE  /\ TasksTyped'
           /\ task'[t] = l
           /\ \A s \in Tasks : s # t => task'[s] = task[s]
BY DEF TasksTyped, Become

LEMMA StepIsBecome ==
    ASSUME TasksTyped, NEW t \in Tasks, NEW at, Step(t, at)
    PROVE  Become(t, [task[t] EXCEPT !.at = at])
BY DEF TasksTyped, Step, Become

\* The locals that a step of t's handler leaves.
Leaves(t, l) == l \in Locals /\ Holds(l) /\ Become(t, l)

LEMMA RequestLocals ==
    ASSUME TablesTyped, TasksTyped, NEW t \in Tasks, Request(t)
    PROVE  task' = task \/ \E l : Leaves(t, l)
<1>1. ASSUME NEW u \in Users, Login(t, u) PROVE task' = task \/ \E l : Leaves(t, l)
    BY <1>1 DEF Login, Leaves, Idle, Locals, Holds
<1>2. ASSUME NEW u \in Users, DeleteUser(t, u) PROVE \E l : Leaves(t, l)
    BY <1>2 DEF DeleteUser, Leaves, Idle, Locals, Holds
<1>3. ASSUME NEW u \in Users, Setup(t, u) PROVE \E l : Leaves(t, l)
    <2>1. NewUser("admin") \in UserRow
        BY AuthAssumption DEF NewUser, UserRow
    <2> QED
        BY <1>3, <2>1 DEF Setup, Leaves, Locals, Holds
<1>4. ASSUME NEW u \in Users, NEW role \in Roles, CreateUser(t, u, role) PROVE \E l : Leaves(t, l)
    <2>1. NewUser(role) \in UserRow
        BY DEF NewUser, UserRow
    <2> QED
        BY <1>4, <2>1 DEF CreateUser, Leaves, Locals, Holds
<1>5. ASSUME NEW u \in Users, NEW role \in Roles, UpdateUser(t, u, role) PROVE \E l : Leaves(t, l)
    <2>1. [users[u] EXCEPT !.role = role] \in UserRow /\ u \notin ConfigUsers
        BY <1>5 DEF UpdateUser, UserRow, TablesTyped
    <2> QED
        BY <1>5, <2>1 DEF UpdateUser, Leaves, Locals, Holds
<1>6. ASSUME NEW tok \in Tokens, NEW step \in {"verify", "begin", "confirm"}, SelectPending(t, tok, step)
      PROVE  task' = task \/ \E l : Leaves(t, l)
    <2>1. CASE tok \in DOMAIN pending
        <3>1. pending[tok] \in PendingRow /\ pending[tok].user \in Users
            BY <2>1 DEF TablesTyped, PendingRow
        <3> QED
            BY <1>6, <3>1 DEF SelectPending, Leaves, Locals, Holds
    <2> QED
        BY <1>6, <2>1 DEF SelectPending
<1>7. ASSUME NEW tok \in Tokens, Validate(t, tok) PROVE task' = task \/ \E l : Leaves(t, l)
    <2>1. tok \in DOMAIN sessions => [sessions[tok] EXCEPT !.used = "recent"] \in SessionRow
        BY DEF TablesTyped, SessionRow
    <2> QED
        BY <1>7, <2>1 DEF Validate, Leaves, Idle, Locals, Holds
<1>8. ASSUME NEW tok \in Tokens, Logout(t, tok) \/ OidcCallback(t, tok) PROVE \E l : Leaves(t, l)
    BY <1>8 DEF Logout, OidcCallback, Leaves, Idle, Locals, Holds
<1>9. CASE OidcLogin(t)
    BY <1>9 DEF OidcLogin
<1> QED
    BY <1>1, <1>2, <1>3, <1>4, <1>5, <1>6, <1>7, <1>8, <1>9 DEF Request
\* ... in the middle of a handler, which presents no token there.
Midway(l) == l \in Locals /\ Holds(l) /\ l.at \notin {"consume", "oidc"}

LEMMA HandleLocals ==
    ASSUME TablesTyped, TasksTyped, NEW t \in Tasks, Handle(t)
    PROVE  \E l : Midway(l) /\ Become(t, l)
<1>1. task[t] \in Locals /\ Holds(task[t])
    BY DEF TasksTyped
<1>2. ASSUME NEW at, Midway([task[t] EXCEPT !.at = at]), Step(t, at)
      PROVE  \E l : Midway(l) /\ Become(t, l)
    BY <1>2, StepIsBecome
<1>3. ASSUME Return(t) PROVE \E l : Midway(l) /\ Become(t, l)
    <2>1. Midway(Idle)
        BY IdleTyped DEF Midway, Idle
    <2> QED
        BY <1>3, <2>1 DEF Return
<1>4. CASE CheckPassword(t)
    <2>1. \E at \in {"clear", "fail"} : Step(t, at)
        BY <1>4 DEF CheckPassword
    <2>2. \A at \in {"clear", "fail"} :
             Midway([task[t] EXCEPT !.at = at])
        BY <1>1, <1>4 DEF CheckPassword, At, Midway, Locals, Holds
    <2> QED
        BY <1>2, <2>1, <2>2
<1>5. CASE ClearLockout(t)
    <2>1. ASSUME NEW role \in Roles
          PROVE  LET l == [task[t] EXCEPT !.at = "session", !.row = NewUser(role), !.then = "config"]
                 IN  Midway(l)
        <3>1. NewUser(role) \in UserRow
            BY DEF NewUser, UserRow
        <3> QED
            BY <1>1, <1>5, <3>1 DEF ClearLockout, At, Midway, Locals, Holds
    <2>2. Midway([task[t] EXCEPT !.at = "enrolled"])
        <3>1. task[t].user \in Users
            BY <1>1, <1>5 DEF ClearLockout, At, Holds
        <3>2. LET l == [task[t] EXCEPT !.at = "enrolled"]
              IN  l \in Locals /\ l.at = "enrolled" /\ l.user = task[t].user
            BY <1>1, ZenonT(40) DEF Locals
        <3> QED
            BY <3>1, <3>2 DEF Midway, Holds
    <2> QED
        BY <1>2, <1>5, <2>1, <2>2 DEF ClearLockout
<1>6. CASE CheckEnrolled(t)
    <2>1. \E then \in {"verify", "enroll"} : Become(t, [task[t] EXCEPT !.at = "pending", !.then = then])
        BY <1>6 DEF CheckEnrolled
    <2>2. ASSUME NEW then \in {"verify", "enroll"}
          PROVE  LET l == [task[t] EXCEPT !.at = "pending", !.then = then]
                 IN  Midway(l)
        BY <1>1, <1>6 DEF CheckEnrolled, At, Midway, Locals, Holds
    <2> QED
        BY <2>1, <2>2
<1>7. CASE IssuePending(t) \/ IssueSession(t)
    <2>1. ASSUME NEW tok \in Tokens
          PROVE  LET l == [task[t] EXCEPT !.at = "log", !.tok = tok]
                 IN  Midway(l)
        <3> DEFINE l == [task[t] EXCEPT !.at = "log", !.tok = tok]
        <3>1. l \in Locals /\ l.at = "log"
            BY <1>1 DEF Locals
        <3> QED
            BY <3>1 DEF Midway, Holds
    <2>2. Return(t) \/ \E tok \in Tokens : Become(t, [task[t] EXCEPT !.at = "log", !.tok = tok])
        BY <1>7 DEF IssuePending, IssueSession
    <2> QED
        BY <1>3, <2>1, <2>2
<1>8. CASE FailRead(t)
    <2>1. CASE MaxFailed = 0
        BY <1>3, <1>8, <2>1 DEF FailRead
    <2>2. CASE MaxFailed # 0
        <3>1. PICK row : /\ Become(t, [task[t] EXCEPT !.at = "failPut", !.row = row])
                         /\ row = IF task[t].user \in DOMAIN lockout THEN lockout[task[t].user] ELSE NoFailures
            BY <1>8, <2>2 DEF FailRead
        <3>2. row \in LockRow
            BY <3>1, AuthAssumption DEF TablesTyped, NoFailures, LockRow
        <3>3. LET l == [task[t] EXCEPT !.at = "failPut", !.row = row]
              IN  l \in Locals /\ l.at = "failPut"
            BY <1>1, <3>2 DEF Locals
        <3>4. Holds([task[t] EXCEPT !.at = "failPut", !.row = row])
            <4>1. MaxFailed > 0
                BY <2>2, AuthAssumption
            <4> QED
                BY <1>1, <1>8, <3>2, <4>1 DEF FailRead, At, Holds, Locals
        <3> QED
            BY <3>1, <3>3, <3>4 DEF Midway
    <2> QED
        BY <2>1, <2>2
<1>9. CASE ConsumePending(t)
    <2>1. Return(t) \/ Step(t, "load")
        BY <1>9 DEF ConsumePending
    <2>2. Midway([task[t] EXCEPT !.at = "load"])
        BY <1>1, <1>9 DEF ConsumePending, At, Midway, Locals, Holds
    <2> QED
        BY <1>2, <1>3, <2>1, <2>2
<1>10. CASE VerifyCode(t)
    <2> DEFINE row == users[task[t].user]
    <2>1. row \in UserRow /\ task[t].user \in Users \ ConfigUsers
        BY <1>10 DEF VerifyCode, TablesTyped
    <2>2. LET l == [task[t] EXCEPT !.at = "session", !.row = row, !.then = "mfa"]
          IN  Midway(l)
        BY <1>1, <2>1 DEF Midway, Locals, Holds
    <2>3. ASSUME NEW c \in row.backup
          PROVE  LET l == [task[t] EXCEPT !.at = "save", !.row = Spend(row, c)]
                 IN  Midway(l)
        <3>1. Spend(row, c) \in UserRow
            BY <2>1 DEF Spend, UserRow
        <3> QED
            BY <1>1, <1>10, <2>1, <3>1 DEF VerifyCode, Midway, Locals, Holds
    <2>4. Midway([task[t] EXCEPT !.at = "fail"])
        <3>1. task[t].user \in Users
            BY <1>1, <1>10 DEF VerifyCode, At, Holds
        <3>2. LET l == [task[t] EXCEPT !.at = "fail"]
              IN  l \in Locals /\ l.at = "fail" /\ l.user = task[t].user
            BY <1>1, ZenonT(40) DEF Locals
        <3> QED
            BY <3>1, <3>2 DEF Midway, Holds
    <2>5. \/ Become(t, [task[t] EXCEPT !.at = "session", !.row = row, !.then = "mfa"])
          \/ \E c \in row.backup : Become(t, [task[t] EXCEPT !.at = "save", !.row = Spend(row, c)])
          \/ Step(t, "fail")
        BY <1>10 DEF VerifyCode
    <2> HIDE DEF row
    <2> QED
        BY <1>2, <2>2, <2>3, <2>4, <2>5
<1>11. CASE BeginEnrollment(t) \/ ConfirmEnrollment(t)
    <2>1. /\ users[task[t].user] \in UserRow /\ task[t].user \in Users \ ConfigUsers
          /\ task[t].then \in {"begin", "confirm"}
        BY <1>11 DEF BeginEnrollment, ConfirmEnrollment, TablesTyped
    <2>2. \/ Return(t)
          \/ \E row \in UserRow : Become(t, [task[t] EXCEPT !.at = "save", !.row = row])
        <3>1. CASE BeginEnrollment(t)
            BY <2>1, <3>1 DEF BeginEnrollment, UserRow
        <3>2. CASE ConfirmEnrollment(t)
            BY <2>1, <3>2 DEF ConfirmEnrollment, UserRow
        <3> QED
            BY <1>11, <3>1, <3>2
    <2>3. ASSUME NEW row \in UserRow
          PROVE  LET l == [task[t] EXCEPT !.at = "save", !.row = row]
                 IN  Midway(l)
        BY <1>1, <2>1 DEF Midway, Locals, Holds
    <2> QED
        BY <1>3, <2>2, <2>3
<1>12. CASE SaveUser(t)
    <2>1. /\ LET l == [task[t] EXCEPT !.at = "session", !.then = "mfa"]
             IN  Midway(l)
          /\ Midway([task[t] EXCEPT !.at = "pending"])
        BY <1>1, <1>12 DEF SaveUser, At, Midway, Locals, Holds
    <2> QED
        BY <1>2, <1>3, <1>12, <2>1 DEF SaveUser
<1>13. CASE DeleteRow(t)
    <2>1. Midway([task[t] EXCEPT !.at = "revoke"])
        <3>1. task[t].user \in Users
            BY <1>1, <1>13 DEF DeleteRow, At, Holds
        <3>2. LET l == [task[t] EXCEPT !.at = "revoke"]
              IN  l \in Locals /\ l.at = "revoke" /\ l.user = task[t].user
            BY <1>1, ZenonT(40) DEF Locals
        <3> QED
            BY <3>1, <3>2 DEF Midway, Holds
    <2> QED
        BY <1>2, <1>13, <2>1 DEF DeleteRow
<1>14. CASE OidcConsume(t)
    <2>1. ASSUME NEW u \in Users, NEW role \in Roles
          PROVE  LET l == [task[t] EXCEPT !.at = "session", !.user = u, !.row = NewUser(role), !.then = "oidc"]
                 IN  Midway(l)
        <3>1. NewUser(role) \in UserRow
            BY DEF NewUser, UserRow
        <3> QED
            BY <1>1, <3>1 DEF Midway, Locals, Holds
    <2> QED
        BY <1>3, <1>14, <2>1 DEF OidcConsume
<1>15. CASE LogLogin(t) \/ FailPut(t) \/ LoadNobody(t) \/ RevokeSessions(t) \/ Touch(t) \/ DropSession(t)
    BY <1>3, <1>15 DEF LogLogin, FailPut, LoadNobody, RevokeSessions, Touch, DropSession
<1> QED
    BY <1>4, <1>5, <1>6, <1>7, <1>8, <1>9, <1>10, <1>11, <1>12, <1>13, <1>14, <1>15 DEF Handle
-----------------------------------------------------------------------------
(* Who writes what. *)

\* A request only draws a token and stores an OIDC state.
LEMMA RequestWrites ==
    ASSUME NEW t \in Tasks, Request(t)
    PROVE  /\ UNCHANGED <<users, sessions, pending, lockout, lapsed, ghosts>>
           /\ OidcLogin(t) \/ UNCHANGED <<oidc, minted>>
BY DEF Request, Login, Setup, DeleteUser, CreateUser, UpdateUser, SelectPending, Validate,
      Logout, OidcCallback, OidcLogin, tables, ghosts

\* Each table is written by a few statements only.
LEMMA HandleWrites ==
    ASSUME NEW t \in Tasks, Handle(t)
    PROVE  /\ users' = users \/ SaveUser(t) \/ DeleteRow(t)
           /\ sessions' = sessions \/ IssueSession(t) \/ RevokeSessions(t) \/ Touch(t) \/ DropSession(t)
           /\ pending' = pending \/ IssuePending(t) \/ ConsumePending(t)
           /\ (lockout' = lockout /\ streak' = streak) \/ ClearLockout(t) \/ FailPut(t)
           /\ oidc' = oidc \/ OidcConsume(t)
           /\ minted' = minted \/ IssuePending(t) \/ IssueSession(t) \/ ConfirmEnrollment(t)
           /\ lapsed' = lapsed
           /\ uses' = uses \/ ConsumePending(t) \/ VerifyCode(t) \/ OidcConsume(t)
           /\ deleted' = deleted \/ SaveUser(t) \/ DeleteRow(t)
<1> USE DEF Handle, tables, ghosts
<1>1. CASE CheckPassword(t) \/ CheckEnrolled(t) \/ FailRead(t) \/ BeginEnrollment(t) \/ LoadNobody(t)
    BY <1>1 DEF CheckPassword, CheckEnrolled, FailRead, BeginEnrollment, LoadNobody
<1>2. CASE ClearLockout(t) \/ FailPut(t) \/ SaveUser(t) \/ DeleteRow(t) \/ LogLogin(t)
    BY <1>2 DEF ClearLockout, FailPut, SaveUser, DeleteRow, LogLogin
<1>3. CASE IssuePending(t) \/ IssueSession(t) \/ ConsumePending(t) \/ VerifyCode(t) \/ ConfirmEnrollment(t)
    BY <1>3 DEF IssuePending, IssueSession, ConsumePending, VerifyCode, ConfirmEnrollment
<1>4. CASE RevokeSessions(t) \/ Touch(t) \/ DropSession(t) \/ OidcConsume(t)
    BY <1>4 DEF RevokeSessions, Touch, DropSession, OidcConsume
<1> QED
    BY <1>1, <1>2, <1>3, <1>4

-----------------------------------------------------------------------------

LEMMA TablesRequest ==
    ASSUME TablesTyped, NEW t \in Tasks, Request(t)
    PROVE  TablesTyped'
<1>1. UNCHANGED <<users, sessions, pending, lockout, lapsed>>
    BY RequestWrites
<1>2. oidc' \subseteq Tokens /\ minted' \subseteq Tokens \cup Codes
    BY RequestWrites DEF OidcLogin, TablesTyped
<1> QED
    BY <1>1, <1>2 DEF TablesTyped

\* The role of a session is a built-in one.
LEMMA ParseTyped ==
    ASSUME NEW role
    PROVE  Parse(role) \in {"admin", "operator", "auditor", "viewer"} /\ Parse(Parse(role)) = Parse(role)
BY DEF Parse

LEMMA TablesHandle ==
    ASSUME TablesTyped, TasksTyped, NEW t \in Tasks, Handle(t)
    PROVE  TablesTyped'
<1>0. task[t] \in Locals /\ Holds(task[t])
    BY DEF TasksTyped
<1>1. DOMAIN users' \subseteq Users \ ConfigUsers /\ \A u \in DOMAIN users' : users'[u] \in UserRow
    <2>1. CASE SaveUser(t)
        BY <1>0, <2>1 DEF Put, SaveUser, At, Holds, TablesTyped
    <2>2. CASE DeleteRow(t)
        BY <2>2 DEF Without, Restrict, DeleteRow, TablesTyped
    <2> QED
        BY <2>1, <2>2, HandleWrites DEF TablesTyped
<1>2. DOMAIN sessions' \subseteq Tokens /\ \A k \in DOMAIN sessions' : sessions'[k] \in SessionRow
    <2>1. CASE IssueSession(t)
        <3>1. [user |-> task[t].user, role |-> Parse(task[t].row.role), via |-> task[t].then,
               used |-> "recent"] \in SessionRow
            BY <1>0, <2>1, ParseTyped DEF IssueSession, At, Holds, SessionRow
        <3> QED
            BY <2>1, <3>1 DEF Put, IssueSession, TablesTyped
    <2>2. CASE RevokeSessions(t) \/ DropSession(t)
        BY <2>2 DEF Without, Restrict, RevokeSessions, DropSession, TablesTyped
    <2>3. CASE Touch(t)
        BY <1>0, <2>3 DEF Put, Touch, At, Holds, TablesTyped
    <2> QED
        BY <2>1, <2>2, <2>3, HandleWrites DEF TablesTyped
<1>3. DOMAIN pending' \subseteq Tokens /\ \A k \in DOMAIN pending' : pending'[k] \in PendingRow
    <2>1. CASE IssuePending(t)
        <3>1. [user |-> task[t].user, kind |-> IF task[t].then = "verify" THEN "verify" ELSE "enroll"]
                 \in PendingRow
            BY <1>0, <2>1 DEF IssuePending, At, Holds, PendingRow
        <3> QED
            BY <2>1, <3>1 DEF Put, IssuePending, TablesTyped
    <2>2. CASE ConsumePending(t)
        BY <2>2 DEF Without, Restrict, ConsumePending, DeletePending, TablesTyped
    <2> QED
        BY <2>1, <2>2, HandleWrites DEF TablesTyped
<1>4. DOMAIN lockout' \subseteq Users /\ \A u \in DOMAIN lockout' : lockout'[u] \in LockRow /\ lockout'[u].failures > 0
    <2>1. CASE ClearLockout(t)
        BY <2>1 DEF Without, Restrict, ClearLockout, TablesTyped
    <2>2. CASE FailPut(t)
        <3>1. task[t].user \in Users /\ task[t].row \in LockRow /\ MaxFailed \in Nat /\ MaxFailed > 0
            BY <1>0, <2>2, AuthAssumption DEF FailPut, At, Holds
        <3>2. CountFailure(task[t].row) \in LockRow /\ CountFailure(task[t].row).failures > 0
            BY <3>1 DEF CountFailure, LockRow
        <3> QED
            BY <2>2, <3>1, <3>2 DEF Put, FailPut, TablesTyped
    <2> QED
        BY <2>1, <2>2, HandleWrites DEF TablesTyped
<1>5. oidc' \subseteq Tokens /\ lapsed' \subseteq Tokens /\ minted' \subseteq Tokens \cup Codes
    BY HandleWrites DEF OidcConsume, IssuePending, IssueSession, ConfirmEnrollment, TablesTyped
<1> QED
    BY <1>1, <1>2, <1>3, <1>4, <1>5 DEF TablesTyped

LEMMA TypesInductive ==
    ASSUME TablesTyped, TasksTyped, [AuthNext]_authVars
    PROVE  TablesTyped' /\ TasksTyped'
<1>1. ASSUME NEW t \in Tasks, Request(t) PROVE TablesTyped' /\ TasksTyped'
    <2>1. TasksTyped'
        BY <1>1, RequestLocals, TaskMoves DEF Leaves, TasksTyped
    <2> QED
        BY <1>1, <2>1, TablesRequest
<1>2. ASSUME NEW t \in Tasks, Handle(t) PROVE TablesTyped' /\ TasksTyped'
    <2>1. TasksTyped'
        BY <1>2, HandleLocals, TaskMoves DEF Midway
    <2> QED
        BY <1>2, <2>1, TablesHandle
<1>3. CASE PurgeSessions
    BY <1>3 DEF Without, Restrict, PurgeSessions, TablesTyped, TasksTyped
<1>4. CASE PurgeOidc \/ \E tok \in Tokens : Expires(tok)
    BY <1>4 DEF PurgeOidc, Expires, TablesTyped, TasksTyped, tables, ghosts
<1>5. ASSUME NEW tok \in Tokens, Idles(tok) PROVE TablesTyped' /\ TasksTyped'
    <2>1. DOMAIN sessions' = DOMAIN sessions /\ \A k \in DOMAIN sessions : sessions'[k] \in SessionRow
        BY <1>5 DEF Idles, SessionRow, TablesTyped
    <2> QED
        BY <1>5, <2>1 DEF Idles, TablesTyped, TasksTyped
<1>6. ASSUME NEW u \in Users, LockLapses(u) PROVE TablesTyped' /\ TasksTyped'
    <2>1. /\ DOMAIN lockout' = DOMAIN lockout
          /\ \A v \in DOMAIN lockout : lockout'[v] \in LockRow /\ lockout'[v].failures > 0
        BY <1>6 DEF LockLapses, LockRow, TablesTyped
    <2> QED
        BY <1>6, <2>1 DEF LockLapses, TablesTyped, TasksTyped
<1>7. CASE UNCHANGED authVars
    BY <1>7 DEF authVars, tables, TablesTyped, TasksTyped
<1> QED
    BY <1>1, <1>2, <1>3, <1>4, <1>5, <1>6, <1>7 DEF AuthNext

LEMMA TypesInitially == AuthInit => TablesTyped /\ TasksTyped
<1> SUFFICES ASSUME AuthInit PROVE TablesTyped /\ TasksTyped
    OBVIOUS
<1>0. PICK E \in {{}, Enrolled} : \E code \in Injection(E, Codes) :
         /\ users = [u \in E |-> [role |-> "admin", secret |-> TRUE, enabled |-> TRUE, backup |-> {code[u]}]]
         /\ minted = Range(code)
    BY DEF AuthInit
<1>1. PICK code \in Injection(E, Codes) :
         /\ users = [u \in E |-> [role |-> "admin", secret |-> TRUE, enabled |-> TRUE, backup |-> {code[u]}]]
         /\ minted = Range(code)
    BY <1>0
<1>2. code \in [E -> Codes] /\ minted \subseteq Codes
    BY <1>1 DEF Injection, Range
<1>3. DOMAIN users \subseteq Users \ ConfigUsers /\ \A u \in DOMAIN users : users[u] \in UserRow
    BY <1>1, <1>2, AuthAssumption DEF UserRow
<1>4. TasksTyped
    BY IdleTyped DEF AuthInit, TasksTyped
<1> QED
    BY <1>2, <1>3, <1>4 DEF AuthInit, TablesTyped

-----------------------------------------------------------------------------
(* One-time tokens. *)

\* A token that is still in its table has not been accepted, and a handler that
\* is about to consume one presents a token of the right table.
TokenInv ==
    /\ DOMAIN pending \cup oidc \subseteq minted
    /\ DOMAIN pending \cap oidc = {}
    /\ uses \in [Tokens \cup Codes -> 0..2]
    /\ \A k \in Tokens \ minted : uses[k] = 0
    /\ \A k \in DOMAIN pending \cup oidc : uses[k] = 0
    /\ \A t \in Tasks : At(t, "consume") => task[t].tok \in minted \ oidc
    /\ \A t \in Tasks : At(t, "oidc") => task[t].tok \in minted \ DOMAIN pending

\* A request that presents a token presents one that is in its table.
LEMMA RequestPresents ==
    ASSUME TasksTyped, TablesTyped, NEW t \in Tasks, Request(t)
    PROVE  /\ \A s \in Tasks : s # t => task'[s] = task[s]
           /\ task'[t].at = "consume" => task'[t].tok \in DOMAIN pending
           /\ task'[t].at = "oidc" => task'[t].tok \in oidc
           /\ At(t, "idle")
<1>1. task \in [Tasks -> Locals]
    BY DEF TasksTyped
<1>2. CASE OidcLogin(t)
    BY <1>1, <1>2 DEF OidcLogin, At
<1>3. ASSUME NEW u \in Users, Login(t, u) \/ Setup(t, u) \/ DeleteUser(t, u)
      PROVE  /\ task'[t].at \notin {"consume", "oidc"} /\ At(t, "idle")
             /\ \A s \in Tasks : s # t => task'[s] = task[s]
    <2>1. CASE Login(t, u)
        BY <1>1, <2>1 DEF Login, At, Become, Idle
    <2>2. CASE Setup(t, u)
        BY <1>1, <2>2 DEF Setup, At, Become
    <2>3. CASE DeleteUser(t, u)
        BY <1>1, <2>3 DEF DeleteUser, At, Become
    <2> QED
        BY <1>3, <2>1, <2>2, <2>3
<1>4. ASSUME NEW u \in Users, NEW role \in Roles, CreateUser(t, u, role) \/ UpdateUser(t, u, role)
      PROVE  /\ task'[t].at \notin {"consume", "oidc"} /\ At(t, "idle")
             /\ \A s \in Tasks : s # t => task'[s] = task[s]
    <2>1. CASE CreateUser(t, u, role)
        BY <1>1, <2>1 DEF CreateUser, At, Become
    <2>2. CASE UpdateUser(t, u, role)
        BY <1>1, <2>2 DEF UpdateUser, At, Become
    <2> QED
        BY <1>4, <2>1, <2>2
<1>5. ASSUME NEW tok \in Tokens, Validate(t, tok) \/ Logout(t, tok)
      PROVE  /\ task'[t].at \notin {"consume", "oidc"} /\ At(t, "idle")
             /\ \A s \in Tasks : s # t => task'[s] = task[s]
    BY <1>1, <1>5 DEF Validate, Logout, At, Become, Idle
<1>6. ASSUME NEW tok \in Tokens, NEW step \in {"verify", "begin", "confirm"}, SelectPending(t, tok, step)
      PROVE  /\ task'[t].at # "oidc" /\ At(t, "idle")
             /\ task'[t].at = "consume" => task'[t].tok \in DOMAIN pending
             /\ \A s \in Tasks : s # t => task'[s] = task[s]
    BY <1>1, <1>6 DEF SelectPending, At, Become
<1>7. ASSUME NEW tok \in Tokens, OidcCallback(t, tok)
      PROVE  /\ task'[t].at = "oidc" /\ task'[t].tok \in oidc /\ At(t, "idle")
             /\ \A s \in Tasks : s # t => task'[s] = task[s]
    BY <1>1, <1>7 DEF OidcCallback, At, Become, Idle
<1> QED
    BY <1>2, <1>3, <1>4, <1>5, <1>6, <1>7 DEF Request

\* No handler presents a token in the middle.
LEMMA HandlePresents ==
    ASSUME TasksTyped, TablesTyped, NEW t \in Tasks, Handle(t)
    PROVE  /\ \A s \in Tasks : s # t => task'[s] = task[s]
           /\ task'[t].at \notin {"consume", "oidc"}
           /\ ~At(t, "idle")
<1>1. PICK l : Midway(l) /\ Become(t, l)
    BY HandleLocals
<1>2. task'[t] = l /\ \A s \in Tasks : s # t => task'[s] = task[s]
    BY <1>1, TaskMoves DEF Midway
<1>3. ~At(t, "idle")
    BY DEF Handle, CheckPassword, ClearLockout, CheckEnrolled, IssuePending, IssueSession,
          LogLogin, FailRead, FailPut, ConsumePending, VerifyCode, BeginEnrollment,
          ConfirmEnrollment, LoadNobody, SaveUser, DeleteRow, RevokeSessions, Touch,
          DropSession, OidcConsume, At
<1> QED
    BY <1>1, <1>2, <1>3 DEF Midway
LEMMA AcceptedUses ==
    ASSUME TokenInv, NEW x \in Tokens \cup Codes, Accepted(x)
    PROVE  /\ uses' \in [Tokens \cup Codes -> 0..2]
           /\ \A y \in Tokens \cup Codes : y # x => uses'[y] = uses[y]
BY DEF TokenInv, Accepted

LEMMA TokensRequest ==
    ASSUME TablesTyped, TasksTyped, TokenInv, NEW t \in Tasks, Request(t)
    PROVE  TokenInv'
<1>1. pending' = pending /\ uses' = uses
    BY RequestWrites DEF ghosts
<1>2. CASE OidcLogin(t)
    <2>1. PICK tok \in Tokens \ minted : minted' = minted \cup {tok} /\ oidc' = oidc \cup {tok}
        BY <1>2 DEF OidcLogin
    <2>2. task' = task
        BY <1>2 DEF OidcLogin
    <2> QED
        BY <1>1, <2>1, <2>2 DEF TokenInv, At
<1>3. CASE UNCHANGED <<oidc, minted>>
    <2>1. \A s \in Tasks : At(s, "consume")' => task'[s].tok \in minted \ oidc
        BY RequestPresents DEF TokenInv, At
    <2>2. \A s \in Tasks : At(s, "oidc")' => task'[s].tok \in minted \ DOMAIN pending
        BY RequestPresents DEF TokenInv, At
    <2> QED
        BY <1>1, <1>3, <2>1, <2>2 DEF TokenInv
<1> QED
    BY <1>2, <1>3, RequestWrites

LEMMA TokensHandle ==
    ASSUME TablesTyped, TasksTyped, TokenInv, NEW t \in Tasks, Handle(t)
    PROVE  TokenInv'
<1>1. /\ \A s \in Tasks : At(s, "consume")' => task'[s].tok \in minted \ oidc
      /\ \A s \in Tasks : At(s, "oidc")' => task'[s].tok \in minted \ DOMAIN pending
    BY HandlePresents DEF TokenInv, At
<1>2. CASE ConsumePending(t)
    <2>1. /\ DOMAIN pending' = DOMAIN pending \ {task[t].tok} /\ oidc' = oidc /\ minted' = minted
          /\ uses' = uses \/ Accepted(task[t].tok)
        BY <1>2 DEF ConsumePending, DeletePending, Without, Restrict
    <2>2. task[t].tok \in Tokens /\ task[t].tok \in minted \ oidc
        BY <1>2 DEF ConsumePending, At, TasksTyped, Holds, TokenInv
    <2>3. uses' \in [Tokens \cup Codes -> 0..2] /\ \A y \in Tokens \cup Codes : y # task[t].tok => uses'[y] = uses[y]
        BY <2>1, <2>2, AcceptedUses DEF TokenInv
    <2> QED
        BY <1>1, <2>1, <2>2, <2>3 DEF TokenInv, TablesTyped
<1>3. CASE OidcConsume(t)
    <2>1. /\ oidc' = oidc \ {task[t].tok} /\ pending' = pending /\ minted' = minted
          /\ uses' = uses \/ Accepted(task[t].tok)
        BY <1>3 DEF OidcConsume
    <2>2. task[t].tok \in Tokens /\ task[t].tok \in minted \ DOMAIN pending
        BY <1>3 DEF OidcConsume, At, TasksTyped, Holds, TokenInv
    <2>3. uses' \in [Tokens \cup Codes -> 0..2] /\ \A y \in Tokens \cup Codes : y # task[t].tok => uses'[y] = uses[y]
        BY <2>1, <2>2, AcceptedUses DEF TokenInv
    <2> QED
        BY <1>1, <2>1, <2>2, <2>3 DEF TokenInv, TablesTyped
<1>4. CASE VerifyCode(t)
    <2>1. UNCHANGED <<pending, oidc, minted>>
        BY <1>4 DEF VerifyCode, tables
    <2>2. uses' = uses \/ \E c \in Codes : Accepted(c)
        BY <1>4 DEF VerifyCode, TablesTyped, UserRow
    <2>3. uses' \in [Tokens \cup Codes -> 0..2] /\ \A y \in Tokens : uses'[y] = uses[y]
        BY <2>2, AcceptedUses, AuthAssumption DEF TokenInv
    <2> QED
        BY <1>1, <2>1, <2>3 DEF TokenInv, TablesTyped
<1>5. CASE IssuePending(t)
    <2>1. PICK tok \in Tokens \ minted : minted' = minted \cup {tok} /\ DOMAIN pending' = DOMAIN pending \cup {tok}
        BY <1>5 DEF IssuePending, Put
    <2>2. oidc' = oidc /\ uses' = uses
        BY <1>5 DEF IssuePending, ghosts
    <2> QED
        BY <1>1, <2>1, <2>2 DEF TokenInv
<1>6. CASE ~(ConsumePending(t) \/ OidcConsume(t) \/ VerifyCode(t) \/ IssuePending(t))
    <2>1. pending' = pending /\ oidc' = oidc /\ uses' = uses
        BY <1>6, HandleWrites
    <2>2. minted \subseteq minted'
        BY HandleWrites DEF IssuePending, IssueSession, ConfirmEnrollment
    <2> QED
        BY <1>1, <2>1, <2>2 DEF TokenInv
<1> QED
    BY <1>2, <1>3, <1>4, <1>5, <1>6

LEMMA TokensInductive ==
    ASSUME TablesTyped, TasksTyped, TokenInv, [AuthNext]_authVars
    PROVE  TokenInv'
<1>1. CASE PurgeOidc
    BY <1>1 DEF PurgeOidc, TokenInv, ghosts, At
<1>2. CASE PurgeSessions \/ (\E tok \in Tokens : Expires(tok) \/ Idles(tok))
             \/ (\E u \in Users : LockLapses(u)) \/ UNCHANGED authVars
    <2>1. UNCHANGED <<pending, oidc, minted, uses, task>>
        BY <1>2 DEF PurgeSessions, Expires, Idles, LockLapses, authVars, tables, ghosts
    <2> QED
        BY <2>1 DEF TokenInv, At
<1> QED
    BY <1>1, <1>2, TokensRequest, TokensHandle DEF AuthNext

\* The invariants of Auth that concurrency does not disturb.
AuthInv == TablesTyped /\ TasksTyped /\ TokenInv /\ RevocationInv

LEMMA AuthInvHolds == AuthSpec => []AuthInv
<1>1. AuthInit => AuthInv
    <2> SUFFICES ASSUME AuthInit PROVE TokenInv /\ RevocationInv
        BY TypesInitially DEF AuthInv
    <2>1. RevocationInv
        BY DEF AuthInit, RevocationInv, RevokedStaysRevoked
    <2>2. TokenInv
        <3>1. DOMAIN pending = {} /\ oidc = {} /\ uses = [x \in Tokens \cup Codes |-> 0]
            BY DEF AuthInit
        <3>2. \A t \in Tasks : task[t].at = "idle"
            BY DEF AuthInit, Idle
        <3> QED
            BY <3>1, <3>2 DEF TokenInv, At
    <2> QED
        BY <2>1, <2>2
<1>2. AuthInv /\ [AuthNext]_authVars => AuthInv'
    BY TypesInductive, TokensInductive, RevocationInductive DEF AuthInv
<1> QED
    BY <1>1, <1>2, PTL DEF AuthSpec

\* Any number of concurrent handlers leave the tables of qw-store well formed:
\* a runtime user never shadows a config user, every session has a built-in role,
\* and every lockout row counts between one and max_failed_logins failures.
THEOREM AuthTypeCorrect == AuthSpec => []AuthTypeOK
<1>1. AuthInv => AuthTypeOK
    <2> SUFFICES ASSUME AuthInv PROVE AuthTypeOK
        OBVIOUS
    <2>1. \A k \in DOMAIN sessions : sessions[k].user \in Users /\ Parse(sessions[k].role) = sessions[k].role
        BY DEF AuthInv, TablesTyped, SessionRow, Parse
    <2>2. \A k \in DOMAIN pending : pending[k].user \in Users
        BY DEF AuthInv, TablesTyped, PendingRow
    <2>3. \A u \in DOMAIN users : users[u].role \in Roles /\ users[u].backup \subseteq Codes
        BY DEF AuthInv, TablesTyped, UserRow
    <2>4. \A u \in DOMAIN lockout : lockout[u].failures \in 1..MaxFailed
        BY AuthAssumption DEF AuthInv, TablesTyped, LockRow
    <2>5. \A t \in Tasks : task[t].user \in Users \cup {""}
        BY DEF AuthInv, TasksTyped, Locals
    <2>6. DOMAIN sessions \cup DOMAIN pending \cup oidc \subseteq minted
        BY DEF AuthInv, TokenInv, RevocationInv
    <2> QED
        BY <2>1, <2>2, <2>3, <2>4, <2>5, <2>6 DEF AuthTypeOK, AuthInv, TablesTyped
<1> QED
    BY <1>1, AuthInvHolds, PTL

\* A request that presents a challenge or an OIDC state after it was accepted is
\* refused, for any number of concurrent handlers (consume_mfa_pending,
\* consume_oidc_state).
THEOREM NoLateReplayHolds == AuthSpec => NoLateReplay
<1>1. ASSUME AuthInv, [AuthNext]_authVars
      PROVE  [\A t \in Tasks : At(t, "idle") /\ task'[t].at \in {"consume", "oidc"} =>
                 uses[task'[t].tok] = 0]_authVars
    <2> SUFFICES ASSUME AuthNext, NEW t \in Tasks, At(t, "idle"), task'[t].at \in {"consume", "oidc"}
                 PROVE  uses[task'[t].tok] = 0
        BY <1>1
    <2>1. ASSUME NEW s \in Tasks, Request(s) PROVE uses[task'[t].tok] = 0
        BY <1>1, <2>1, RequestPresents DEF AuthInv, TokenInv, At
    <2>2. ASSUME NEW s \in Tasks, Handle(s) PROVE FALSE
        BY <1>1, <2>2, HandlePresents DEF AuthInv, At
    <2>3. ASSUME task' = task PROVE FALSE
        BY <2>3 DEF At
    <2> QED
        BY <2>1, <2>2, <2>3 DEF AuthNext, PurgeSessions, PurgeOidc, Expires, Idles, LockLapses
<1> QED
    BY <1>1, AuthInvHolds, PTL DEF AuthSpec, NoLateReplay
-----------------------------------------------------------------------------
(* One request at a time. *)

\* The locals after a step: those it assigns, or a new position.
LEMMA BecomeArrives ==
    ASSUME TasksTyped, NEW t \in Tasks, NEW l, Become(t, l)
    PROVE  task'[t] = l
BY DEF TasksTyped, Become

LEMMA StepArrives ==
    ASSUME TasksTyped, NEW t \in Tasks, NEW at, Step(t, at)
    PROVE  /\ task'[t].at = at /\ task'[t].user = task[t].user /\ task'[t].tok = task[t].tok
           /\ task'[t].row = task[t].row /\ task'[t].then = task[t].then
BY DEF TasksTyped, Step, Locals

LEMMA ReturnArrives ==
    ASSUME TasksTyped, NEW t \in Tasks, Return(t)
    PROVE  task'[t].at = "idle"
<1>1. task'[t] = Idle
    BY BecomeArrives DEF Return
<1>2. Idle.at = "idle"
    BY DEF Idle
<1> QED
    BY <1>1, <1>2

LEMMA AssignArrives ==
    ASSUME TasksTyped, NEW t \in Tasks, NEW at, NEW row, NEW then,
           Become(t, [task[t] EXCEPT !.at = at, !.row = row, !.then = then])
    PROVE  task'[t].at = at /\ task'[t].user = task[t].user /\ task'[t].row = row /\ task'[t].then = then
<1>1. task'[t] = [task[t] EXCEPT !.at = at, !.row = row, !.then = then]
    BY BecomeArrives
<1>2. task[t] \in Locals
    BY DEF TasksTyped
<1> QED
    BY <1>1, <1>2, ZenonT(40) DEF Locals

LEMMA RowArrives ==
    ASSUME TasksTyped, NEW t \in Tasks, NEW at, NEW row, Become(t, [task[t] EXCEPT !.at = at, !.row = row])
    PROVE  task'[t].at = at /\ task'[t].user = task[t].user /\ task'[t].row = row /\ task'[t].then = task[t].then
<1>1. task'[t] = [task[t] EXCEPT !.at = at, !.row = row]
    BY BecomeArrives
<1>2. task[t] \in Locals
    BY DEF TasksTyped
<1> QED
    BY <1>1, <1>2, ZenonT(40) DEF Locals

LEMMA ThenArrives ==
    ASSUME TasksTyped, NEW t \in Tasks, NEW at, NEW then, Become(t, [task[t] EXCEPT !.at = at, !.then = then])
    PROVE  task'[t].at = at /\ task'[t].user = task[t].user /\ task'[t].row = task[t].row /\ task'[t].then = then
<1>1. task'[t] = [task[t] EXCEPT !.at = at, !.then = then]
    BY BecomeArrives
<1>2. task[t] \in Locals
    BY DEF TasksTyped
<1> QED
    BY <1>1, <1>2, ZenonT(40) DEF Locals

LEMMA TokenArrives ==
    ASSUME TasksTyped, NEW t \in Tasks, NEW at, NEW tok, Become(t, [task[t] EXCEPT !.at = at, !.tok = tok])
    PROVE  task'[t].at = at
BY BecomeArrives DEF TasksTyped, Locals

\* Where the statements of a handler lead.
LEMMA HandleArrives ==
    ASSUME TasksTyped, NEW t \in Tasks, Handle(t)
    PROVE  /\ task'[t].at = "save" => VerifyCode(t) \/ BeginEnrollment(t) \/ ConfirmEnrollment(t)
           /\ task'[t].at = "session" /\ task'[t].then = "mfa" => VerifyCode(t) \/ SaveUser(t)
           /\ task'[t].at = "failPut" => FailRead(t)
           /\ task'[t].at = "revoke" => DeleteRow(t)
           /\ task'[t].at # "touch"
<1>1. CASE CheckPassword(t)
    <2>1. Step(t, "clear") \/ Step(t, "fail")
        BY <1>1 DEF CheckPassword
    <2> QED
        BY <2>1, StepArrives
<1>2. CASE ClearLockout(t)
    <2>1. CASE Step(t, "enrolled")
        BY <2>1, StepArrives
    <2>2. ASSUME NEW row, Become(t, [task[t] EXCEPT !.at = "session", !.row = row, !.then = "config"])
          PROVE  task'[t].at = "session" /\ task'[t].then = "config"
        BY <2>2, AssignArrives
    <2> QED
        BY <1>2, <2>1, <2>2 DEF ClearLockout
<1>3. CASE CheckEnrolled(t)
    <2>1. task'[t].at = "pending"
        BY <1>3, ThenArrives DEF CheckEnrolled
    <2> QED
        BY <2>1
<1>4. CASE IssuePending(t) \/ IssueSession(t)
    <2>1. Return(t) \/ \E tok : Become(t, [task[t] EXCEPT !.at = "log", !.tok = tok])
        BY <1>4 DEF IssuePending, IssueSession
    <2>2. task'[t].at \in {"log", "idle"}
        BY <2>1, TokenArrives, ReturnArrives
    <2> QED
        BY <2>2
<1>5. CASE LogLogin(t) \/ FailPut(t) \/ LoadNobody(t) \/ RevokeSessions(t) \/ Touch(t) \/ DropSession(t)
    <2>1. Return(t)
        BY <1>5 DEF LogLogin, FailPut, LoadNobody, RevokeSessions, Touch, DropSession
    <2> QED
        BY <2>1, ReturnArrives
<1>6. CASE FailRead(t)
    <2>1. Return(t) \/ \E row : Become(t, [task[t] EXCEPT !.at = "failPut", !.row = row])
        BY <1>6 DEF FailRead
    <2>2. task'[t].at \in {"failPut", "idle"}
        BY <2>1, RowArrives, ReturnArrives
    <2> QED
        BY <1>6, <2>2
<1>7. CASE ConsumePending(t)
    <2>1. Return(t) \/ Step(t, "load")
        BY <1>7 DEF ConsumePending
    <2> QED
        BY <2>1, StepArrives, ReturnArrives
<1>8. CASE VerifyCode(t)
    <2>1. \/ Step(t, "fail")
          \/ \E row : \/ Become(t, [task[t] EXCEPT !.at = "session", !.row = row, !.then = "mfa"])
                      \/ Become(t, [task[t] EXCEPT !.at = "save", !.row = row])
        BY <1>8 DEF VerifyCode
    <2>2. task'[t].at \in {"session", "save", "fail"}
        <3>1. CASE Step(t, "fail")
            BY <3>1, StepArrives
        <3>2. CASE \E row : Become(t, [task[t] EXCEPT !.at = "session", !.row = row, !.then = "mfa"])
            BY <3>2, AssignArrives
        <3>3. CASE \E row : Become(t, [task[t] EXCEPT !.at = "save", !.row = row])
            BY <3>3, RowArrives
        <3> QED
            BY <2>1, <3>1, <3>2, <3>3
    <2> QED
        BY <1>8, <2>2
<1>9. CASE BeginEnrollment(t) \/ ConfirmEnrollment(t)
    <2>1. Return(t) \/ \E row : Become(t, [task[t] EXCEPT !.at = "save", !.row = row])
        BY <1>9 DEF BeginEnrollment, ConfirmEnrollment
    <2>2. task'[t].at \in {"save", "idle"}
        BY <2>1, RowArrives, ReturnArrives
    <2> QED
        BY <1>9, <2>2
<1>10. CASE SaveUser(t)
    <2>1. \/ Return(t) \/ Step(t, "pending")
          \/ Become(t, [task[t] EXCEPT !.at = "session", !.then = "mfa"])
        BY <1>10 DEF SaveUser
    <2>2. task'[t].at \in {"session", "pending", "idle"}
        <3>1. CASE Return(t)
            BY <3>1, ReturnArrives
        <3>2. CASE Step(t, "pending")
            BY <3>2, StepArrives
        <3>3. CASE Become(t, [task[t] EXCEPT !.at = "session", !.then = "mfa"])
            BY <3>3, ThenArrives
        <3> QED
            BY <2>1, <3>1, <3>2, <3>3
    <2> QED
        BY <1>10, <2>2
<1>11. CASE DeleteRow(t)
    <2>1. task'[t].at = "revoke"
        BY <1>11, StepArrives DEF DeleteRow
    <2> QED
        BY <1>11, <2>1
<1>12. CASE OidcConsume(t)
    <2>1. CASE Return(t)
        BY <2>1, ReturnArrives
    <2>2. ASSUME NEW u, NEW row,
                 Become(t, [task[t] EXCEPT !.at = "session", !.user = u, !.row = row, !.then = "oidc"])
          PROVE  task'[t].at = "session" /\ task'[t].then = "oidc"
        <3>1. task'[t] = [task[t] EXCEPT !.at = "session", !.user = u, !.row = row, !.then = "oidc"]
            BY <2>2, BecomeArrives
        <3>2. task[t] \in Locals
            BY DEF TasksTyped
        <3> QED
            BY <3>1, <3>2, ZenonT(40) DEF Locals
    <2> QED
        BY <1>12, <2>1, <2>2 DEF OidcConsume
<1> QED
    BY <1>1, <1>2, <1>3, <1>4, <1>5, <1>6, <1>7, <1>8, <1>9, <1>10, <1>11, <1>12 DEF Handle

\* One handler: requests do not overlap.
OneAtATime == \A s, t \in Tasks : s = t

\* A challenge or state that a handler is about to consume has not been accepted.
OnceInv ==
    /\ \A t \in Tasks : task[t].at \in {"consume", "oidc"} => uses[task[t].tok] = 0
    /\ PendingUsedOnce

\* Backup codes are fresh when they are minted, belong to one user, and the only
\* accepted one that is still in its row is about to be taken out of it.
CodesInv ==
    /\ \A c \in Codes : uses[c] <= 1
    /\ \A c \in Codes \ minted : uses[c] = 0
    /\ \A u \in DOMAIN users : users[u].backup \subseteq minted
    /\ \A u, v \in DOMAIN users : u # v => users[u].backup \cap users[v].backup = {}
    /\ \A u \in DOMAIN users : \A c \in users[u].backup :
          \/ uses[c] = 0
          \/ \E t \in Tasks : At(t, "save") /\ task[t].user = u
    /\ \A t \in Tasks : At(t, "save") =>
          /\ task[t].row.backup \subseteq minted
          /\ \A c \in task[t].row.backup : uses[c] = 0
          /\ \A v \in DOMAIN users : v # task[t].user => users[v].backup \cap task[t].row.backup = {}

\* A handler that writes a user back, or issues a session after the second
\* factor, has a user that is there; one that touches a session keeps its owner.
DeletionInv ==
    /\ \A t \in Tasks : At(t, "save") /\ task[t].then \in {"verify", "begin", "confirm", "update"} =>
          task[t].user \in DOMAIN users
    /\ \A t \in Tasks : At(t, "session") /\ task[t].then = "mfa" => task[t].user \in DOMAIN users
    /\ deleted \cap DOMAIN users = {}
    /\ \A t \in Tasks : At(t, "touch") /\ task[t].tok \in DOMAIN sessions =>
          /\ sessions[task[t].tok].user = task[t].row.user
          /\ sessions[task[t].tok].via = task[t].row.via
    /\ \A u \in deleted \ Escaped : (\A t \in Tasks : ~(At(t, "revoke") /\ task[t].user = u)) =>
          \A k \in DOMAIN sessions : sessions[k].user = u => sessions[k].via # "mfa"

\* The lockout row counts at least the failures in a row, and so does the copy
\* that record_login_failure is about to write back.
LockInv ==
    /\ streak \in [Users -> 0..MaxFailed]
    /\ \A u \in Users \ DOMAIN lockout : streak[u] = 0
    /\ \A u \in DOMAIN lockout :
          /\ streak[u] <= lockout[u].failures
          /\ lockout[u].lock = "lapsed" => streak[u] = 0
          /\ lockout[u].lock = "none" => lockout[u].failures < MaxFailed
    /\ \A t \in Tasks : At(t, "failPut") =>
          /\ streak[task[t].user] <= task[t].row.failures
          /\ task[t].row.lock = "lapsed" => streak[task[t].user] = 0
\* What a request starts with.
LEMMA RequestStarts ==
    ASSUME TasksTyped, TablesTyped, NEW t \in Tasks, Request(t)
    PROVE  /\ task'[t].at \notin {"session", "failPut", "revoke"}
           /\ task'[t].at = "save" =>
                 \/ task'[t].then \in {"create", "setup"} /\ task'[t].row.backup = {}
                 \/ /\ task'[t].then = "update" /\ task'[t].user \in DOMAIN users
                    /\ task'[t].row.backup = users[task'[t].user].backup
           /\ task'[t].at = "touch" =>
                 /\ task'[t].tok \in DOMAIN sessions
                 /\ task'[t].row.user = sessions[task'[t].tok].user
                 /\ task'[t].row.via = sessions[task'[t].tok].via
<1>1. CASE task' = task
    BY <1>1, RequestPresents DEF At
<1>2. ASSUME NEW u \in Users, Login(t, u) \/ DeleteUser(t, u)
      PROVE  task'[t].at \in {"password", "delete", "idle"}
    <2>1. At(t, "idle")
        BY <1>2 DEF Login, DeleteUser
    <2>2. task' = task \/ \E at \in {"password", "delete"} : Become(t, [Idle EXCEPT !.at = at, !.user = u])
        BY <1>2 DEF Login, DeleteUser
    <2>3. \A at : [Idle EXCEPT !.at = at, !.user = u].at = at
        BY DEF Idle
    <2> QED
        BY <2>1, <2>2, <2>3, BecomeArrives DEF At
<1>3. ASSUME NEW u \in Users, Setup(t, u)
      PROVE  task'[t].at = "save" /\ task'[t].then = "setup" /\ task'[t].row.backup = {}
    <2> DEFINE l == [at |-> "save", user |-> u, tok |-> "", row |-> NewUser("admin"), then |-> "setup"]
    <2>1. task'[t] = l
        BY <1>3, BecomeArrives DEF Setup
    <2>2. l.at = "save" /\ l.then = "setup" /\ l.row = NewUser("admin")
        OBVIOUS
    <2>3. NewUser("admin").backup = {}
        BY DEF NewUser
    <2> HIDE DEF l
    <2> QED
        BY <2>1, <2>2, <2>3
<1>4. ASSUME NEW u \in Users, NEW role \in Roles, CreateUser(t, u, role)
      PROVE  task'[t].at = "save" /\ task'[t].then = "create" /\ task'[t].row.backup = {}
    <2> DEFINE l == [at |-> "save", user |-> u, tok |-> "", row |-> NewUser(role), then |-> "create"]
    <2>1. task'[t] = l
        BY <1>4, BecomeArrives DEF CreateUser
    <2>2. l.at = "save" /\ l.then = "create" /\ l.row = NewUser(role)
        OBVIOUS
    <2>3. NewUser(role).backup = {}
        BY DEF NewUser
    <2> HIDE DEF l
    <2> QED
        BY <2>1, <2>2, <2>3
<1>5. ASSUME NEW u \in Users, NEW role \in Roles, UpdateUser(t, u, role)
      PROVE  /\ task'[t].at = "save" /\ task'[t].then = "update" /\ task'[t].user \in DOMAIN users
             /\ task'[t].row.backup = users[task'[t].user].backup
    <2>1. [users[u] EXCEPT !.role = role].backup = users[u].backup /\ u \in DOMAIN users
        BY <1>5 DEF UpdateUser, TablesTyped, UserRow
    <2> DEFINE l == [at |-> "save", user |-> u, tok |-> "", row |-> [users[u] EXCEPT !.role = role],
                     then |-> "update"]
    <2>2. task'[t] = l
        BY <1>5, BecomeArrives DEF UpdateUser
    <2>3. l.at = "save" /\ l.then = "update" /\ l.user = u /\ l.row = [users[u] EXCEPT !.role = role]
        OBVIOUS
    <2> HIDE DEF l
    <2> QED
        BY <2>1, <2>2, <2>3
<1>6. ASSUME NEW tok \in Tokens, NEW step \in {"verify", "begin", "confirm"}, SelectPending(t, tok, step)
      PROVE  task' = task \/ task'[t].at = "consume"
    BY <1>6, BecomeArrives DEF SelectPending
<1>7. ASSUME NEW tok \in Tokens, Logout(t, tok) \/ OidcCallback(t, tok)
      PROVE  task'[t].at \in {"drop", "oidc"}
    <2>1. \E at \in {"drop", "oidc"} : Become(t, [Idle EXCEPT !.at = at, !.tok = tok])
        BY <1>7 DEF Logout, OidcCallback
    <2>2. \A at : [Idle EXCEPT !.at = at, !.tok = tok].at = at
        BY DEF Idle
    <2> QED
        BY <2>1, <2>2, BecomeArrives
<1>8. ASSUME NEW tok \in Tokens, Validate(t, tok)
      PROVE  \/ task' = task \/ task'[t].at = "drop"
             \/ /\ task'[t].at = "touch" /\ task'[t].tok \in DOMAIN sessions
                /\ task'[t].row.user = sessions[task'[t].tok].user
                /\ task'[t].row.via = sessions[task'[t].tok].via
    <2>1. CASE Become(t, [Idle EXCEPT !.at = "drop", !.tok = tok])
        <3>1. [Idle EXCEPT !.at = "drop", !.tok = tok].at = "drop"
            BY DEF Idle
        <3> QED
            BY <2>1, <3>1, BecomeArrives
    <2>2. CASE /\ tok \in DOMAIN sessions
               /\ Become(t, [Idle EXCEPT !.at = "touch", !.tok = tok,
                                !.row = [sessions[tok] EXCEPT !.used = "recent"]])
        <3>1. LET m == [Idle EXCEPT !.at = "touch", !.tok = tok, !.row = [sessions[tok] EXCEPT !.used = "recent"]]
              IN  m.at = "touch" /\ m.tok = tok /\ m.row = [sessions[tok] EXCEPT !.used = "recent"]
            BY DEF Idle
        <3>2. LET m == [sessions[tok] EXCEPT !.used = "recent"]
              IN  m.user = sessions[tok].user /\ m.via = sessions[tok].via
            BY <2>2 DEF TablesTyped, SessionRow
        <3> QED
            BY <2>2, <3>1, <3>2, BecomeArrives
    <2> QED
        BY <1>8, <2>1, <2>2 DEF Validate
<1>9. OidcLogin(t) => task' = task
    BY DEF OidcLogin
<1> QED
    BY <1>1, <1>2, <1>3, <1>4, <1>5, <1>6, <1>7, <1>8, <1>9 DEF Request

LEMMA OnceInductive ==
    ASSUME OneAtATime, AuthInv, OnceInv, [AuthNext]_authVars
    PROVE  OnceInv'
<1>1. ASSUME NEW t \in Tasks, Request(t) PROVE OnceInv'
    <2>1. uses' = uses
        BY <1>1, RequestWrites DEF ghosts
    <2>2. task'[t].at \in {"consume", "oidc"} => uses[task'[t].tok] = 0
        BY <1>1, RequestPresents DEF AuthInv, TokenInv
    <2> QED
        BY <2>1, <2>2 DEF OnceInv, PendingUsedOnce, OneAtATime
<1>2. ASSUME NEW t \in Tasks, Handle(t) PROVE OnceInv'
    <2>1. task'[t].at \notin {"consume", "oidc"}
        BY <1>2, HandlePresents DEF AuthInv
    <2>2. PendingUsedOnce'
        <3>1. CASE uses' = uses
            BY <3>1 DEF OnceInv, PendingUsedOnce
        <3>2. CASE ConsumePending(t) \/ OidcConsume(t)
            <4>1. uses' = uses \/ Accepted(task[t].tok)
                BY <3>2 DEF ConsumePending, OidcConsume
            <4>2. uses[task[t].tok] = 0
                BY <3>2 DEF ConsumePending, OidcConsume, At, OnceInv
            <4> QED
                BY <4>1, <4>2 DEF Accepted, AuthInv, TokenInv, OnceInv, PendingUsedOnce
        <3>3. CASE VerifyCode(t)
            <4>1. uses' = uses \/ \E c \in Codes : Accepted(c)
                BY <3>3 DEF VerifyCode, AuthInv, TablesTyped, UserRow
            <4>2. \A k \in Tokens : uses'[k] = uses[k]
                BY <4>1, AcceptedUses, AuthAssumption DEF AuthInv
            <4> QED
                BY <4>2 DEF OnceInv, PendingUsedOnce
        <3> QED
            BY <1>2, <3>1, <3>2, <3>3, HandleWrites
    <2> QED
        BY <2>1, <2>2 DEF OnceInv, OneAtATime
<1>3. CASE UNCHANGED <<task, uses>>
    BY <1>3 DEF OnceInv, PendingUsedOnce
<1> QED
    BY <1>1, <1>2, <1>3 DEF AuthNext, PurgeSessions, PurgeOidc, Expires, Idles, LockLapses,
          authVars, tables, ghosts
\* What the background tasks and time leave alone.
LEMMA OtherWrites ==
    ASSUME [AuthNext]_authVars, \A t \in Tasks : ~Request(t) /\ ~Handle(t)
    PROVE  /\ UNCHANGED <<users, pending, task, minted, uses, deleted>>
           /\ sessions' = sessions \/ PurgeSessions \/ \E tok \in Tokens : Idles(tok)
           /\ UNCHANGED <<lockout, streak>> \/ \E u \in Users : LockLapses(u)
BY DEF AuthNext, PurgeSessions, PurgeOidc, Expires, Idles, LockLapses, authVars, tables, ghosts

\* Only SaveUser leaves "save", only RevokeSessions leaves "revoke".
LEMMA HandleLeaves ==
    ASSUME NEW t \in Tasks, Handle(t)
    PROVE  (At(t, "save") => SaveUser(t)) /\ (At(t, "revoke") => RevokeSessions(t))
<1>1. CASE CheckPassword(t) \/ ClearLockout(t) \/ CheckEnrolled(t) \/ IssuePending(t) \/ IssueSession(t)
             \/ LogLogin(t) \/ FailRead(t) \/ FailPut(t) \/ ConsumePending(t)
    BY <1>1 DEF CheckPassword, ClearLockout, CheckEnrolled, IssuePending, IssueSession,
          LogLogin, FailRead, FailPut, ConsumePending, At
<1>2. CASE VerifyCode(t) \/ BeginEnrollment(t) \/ ConfirmEnrollment(t) \/ LoadNobody(t)
             \/ DeleteRow(t) \/ Touch(t) \/ DropSession(t) \/ OidcConsume(t)
    BY <1>2 DEF VerifyCode, BeginEnrollment, ConfirmEnrollment, LoadNobody, DeleteRow, Touch,
          DropSession, OidcConsume, At
<1>3. CASE SaveUser(t)
    BY <1>3 DEF SaveUser, At
<1>4. CASE RevokeSessions(t)
    BY <1>4 DEF RevokeSessions, At
<1> QED
    BY <1>1, <1>2, <1>3, <1>4 DEF Handle

LEMMA CodesInductive ==
    ASSUME OneAtATime, AuthInv, CodesInv, [AuthNext]_authVars
    PROVE  CodesInv'
<1> USE DEF At, OneAtATime
<1>1. ASSUME NEW t \in Tasks, Request(t) PROVE CodesInv'
    <2>1. users' = users /\ uses' = uses /\ minted \subseteq minted'
        BY <1>1, RequestWrites DEF ghosts, OidcLogin
    <2>2. \A u \in DOMAIN users : \A c \in users[u].backup : uses[c] = 0
        BY <1>1, RequestPresents DEF CodesInv, AuthInv
    <2>3. task'[t].at = "save" =>
             \/ task'[t].row.backup = {}
             \/ task'[t].user \in DOMAIN users /\ task'[t].row.backup = users[task'[t].user].backup
        BY <1>1, RequestStarts DEF AuthInv
    <2> QED
        BY <2>1, <2>2, <2>3 DEF CodesInv
<1>2. ASSUME NEW t \in Tasks, VerifyCode(t) PROVE CodesInv'
    <2> DEFINE u == task[t].user
    <2>1. users' = users /\ minted' = minted /\ u \in DOMAIN users /\ users[u] \in UserRow
        BY <1>2 DEF VerifyCode, tables, AuthInv, TablesTyped
    <2>2. \A v \in DOMAIN users : \A c \in users[v].backup : uses[c] = 0
        <3>1. \A s \in Tasks : ~At(s, "save")
            BY <1>2 DEF VerifyCode
        <3> QED
            BY <3>1 DEF CodesInv
    <2>3. CASE uses' = uses /\ task'[t].at # "save"
        BY <2>1, <2>2, <2>3 DEF CodesInv
    <2>4. ASSUME NEW c \in users[u].backup, Accepted(c),
                 Become(t, [task[t] EXCEPT !.at = "save", !.row = Spend(users[u], c)])
          PROVE  CodesInv'
        <3>1. task'[t].at = "save" /\ task'[t].user = u /\ task'[t].row = Spend(users[u], c)
            <4>1. TasksTyped
                BY DEF AuthInv
            <4> HIDE DEF OneAtATime, At
            <4> QED
                BY <2>4, <4>1, RowArrives, ZenonT(40)
        <3>2. Spend(users[u], c).backup = users[u].backup \ {c}
            BY <2>1 DEF Spend, UserRow
        <3>3. c \in Codes /\ c \in minted /\ uses[c] = 0
            BY <2>1, <2>2 DEF UserRow, CodesInv
        <3>4. uses'[c] = 1 /\ \A d \in Codes : d # c => uses'[d] = uses[d]
            BY <2>4, <3>3 DEF Accepted, AuthInv, TokenInv
        <3>5. \A v \in DOMAIN users : users[v].backup \subseteq Codes
            BY DEF AuthInv, TablesTyped, UserRow
        <3>6. \A v \in DOMAIN users : v # u => \A d \in users[v].backup : d # c
            BY <2>1 DEF CodesInv
        <3>7. \A d \in task'[t].row.backup : uses'[d] = 0 /\ d \in minted
            BY <2>1, <2>2, <3>1, <3>2, <3>4, <3>5 DEF CodesInv
        <3>8. \A v \in DOMAIN users : v # u => users[v].backup \cap task'[t].row.backup = {}
            BY <2>1, <3>1, <3>2 DEF CodesInv
        <3>9. \A v \in DOMAIN users : \A d \in users[v].backup : uses'[d] = 0 \/ v = u
            BY <2>2, <3>4, <3>5, <3>6
        <3>10. \A d \in Codes : uses'[d] <= 1 /\ (d \notin minted => uses'[d] = 0)
            BY <3>3, <3>4 DEF CodesInv
        <3> QED
            BY <2>1, <3>1, <3>7, <3>8, <3>9, <3>10 DEF CodesInv
    <2>5. \/ uses' = uses /\ Become(t, [task[t] EXCEPT !.at = "session", !.row = users[u], !.then = "mfa"])
          \/ uses' = uses /\ Step(t, "fail")
          \/ \E c \in users[u].backup : Accepted(c) /\ Become(t, [task[t] EXCEPT !.at = "save", !.row = Spend(users[u], c)])
        BY <1>2 DEF VerifyCode
    <2>6. /\ Step(t, "fail") => task'[t].at = "fail"
          /\ Become(t, [task[t] EXCEPT !.at = "session", !.row = users[u], !.then = "mfa"]) =>
                task'[t].at = "session"
        <3>1. Step(t, "fail") => task'[t].at = "fail"
            BY StepArrives DEF AuthInv
        <3>2. ASSUME NEW row, Become(t, [task[t] EXCEPT !.at = "session", !.row = row, !.then = "mfa"])
              PROVE  task'[t].at = "session"
            BY <3>2, AssignArrives DEF AuthInv
        <3> QED
            BY <3>1, <3>2
    <2> QED
        BY <2>3, <2>4, <2>5, <2>6
<1>3. ASSUME NEW t \in Tasks, BeginEnrollment(t) \/ ConfirmEnrollment(t) PROVE CodesInv'
    <2> DEFINE u == task[t].user
    <2>0. ASSUME NEW row, Become(t, [task[t] EXCEPT !.at = "save", !.row = row])
          PROVE  task'[t].at = "save" /\ task'[t].user = u /\ task'[t].row = row
        <3>1. TasksTyped
            BY DEF AuthInv
        <3> HIDE DEF OneAtATime, At
        <3> QED
            BY <2>0, <3>1, RowArrives, ZenonT(40)
    <2>1. users' = users /\ uses' = uses /\ u \in DOMAIN users /\ users[u] \in UserRow
        BY <1>3 DEF BeginEnrollment, ConfirmEnrollment, tables, ghosts, AuthInv, TablesTyped
    <2>2. \A v \in DOMAIN users : \A c \in users[v].backup : uses[c] = 0
        <3>1. \A s \in Tasks : ~At(s, "save")
            BY <1>3 DEF BeginEnrollment, ConfirmEnrollment
        <3> QED
            BY <3>1 DEF CodesInv
    <2>3. CASE Return(t) /\ minted' = minted
        <3>1. task'[t].at = "idle"
            BY <2>3, ReturnArrives DEF AuthInv
        <3> QED
            BY <2>1, <2>2, <2>3, <3>1 DEF CodesInv
    <2>4. ASSUME NEW row, row.backup = users[u].backup, minted' = minted,
                 Become(t, [task[t] EXCEPT !.at = "save", !.row = row])
          PROVE  CodesInv'
        <3>1. task'[t].at = "save" /\ task'[t].user = u /\ task'[t].row = row
            BY <2>0, <2>4
        <3> QED
            BY <2>1, <2>2, <2>4, <3>1 DEF CodesInv
    <2>5. ASSUME NEW row, NEW c \in Codes \ minted, row.backup = {c}, minted' = minted \cup {c},
                 Become(t, [task[t] EXCEPT !.at = "save", !.row = row])
          PROVE  CodesInv'
        <3>1. task'[t].at = "save" /\ task'[t].user = u /\ task'[t].row = row
            BY <2>0, <2>5
        <3> QED
            BY <2>1, <2>2, <2>5, <3>1 DEF CodesInv
    <2>6. CASE BeginEnrollment(t)
        <3>1. [users[u] EXCEPT !.secret = TRUE, !.enabled = FALSE].backup = users[u].backup
            BY <2>1 DEF UserRow
        <3> QED
            BY <2>3, <2>4, <2>6, <3>1 DEF BeginEnrollment
    <2>7. CASE ConfirmEnrollment(t)
        <3>1. \A c : [users[u] EXCEPT !.enabled = TRUE, !.backup = {c}].backup = {c}
            BY <2>1 DEF UserRow
        <3> QED
            BY <2>3, <2>5, <2>7, <3>1 DEF ConfirmEnrollment
    <2> QED
        BY <1>3, <2>6, <2>7
<1>4. ASSUME NEW t \in Tasks, SaveUser(t) PROVE CodesInv'
    <2> DEFINE u == task[t].user
    <2>1. users' = Put(users, u, task[t].row) /\ uses' = uses /\ minted' = minted /\ task[t].at = "save"
        BY <1>4 DEF SaveUser
    <2>2. task'[t].at # "save"
        BY <1>4, HandleArrives DEF Handle, SaveUser, VerifyCode, BeginEnrollment, ConfirmEnrollment, AuthInv
    <2>3. /\ DOMAIN users' = DOMAIN users \cup {u} /\ users'[u] = task[t].row
          /\ \A v \in DOMAIN users : v # u => users'[v] = users[v]
        BY <2>1 DEF Put
    <2>4. /\ task[t].row.backup \subseteq minted
          /\ \A c \in task[t].row.backup : uses[c] = 0
          /\ \A v \in DOMAIN users : v # u => users[v].backup \cap task[t].row.backup = {}
        BY <2>1 DEF CodesInv
    <2>5. \A v \in DOMAIN users' : \A c \in users'[v].backup : uses[c] = 0 /\ c \in minted
        BY <2>3, <2>4 DEF CodesInv
    <2>6. \A v, w \in DOMAIN users' : v # w => users'[v].backup \cap users'[w].backup = {}
        BY <2>3, <2>4 DEF CodesInv
    <2> QED
        BY <2>1, <2>2, <2>5, <2>6 DEF CodesInv
<1>5. ASSUME NEW t \in Tasks, Handle(t),
             ~(VerifyCode(t) \/ BeginEnrollment(t) \/ ConfirmEnrollment(t) \/ SaveUser(t))
      PROVE  CodesInv'
    <2>1. task'[t].at # "save" /\ task[t].at # "save"
        BY <1>5, HandleArrives, HandleLeaves DEF AuthInv
    <2>2. \A v \in DOMAIN users : \A c \in users[v].backup : uses[c] = 0
        BY <2>1 DEF CodesInv
    <2>3. users' = users \/ users' = Without(users, {task[t].user})
        BY <1>5, HandleWrites DEF DeleteRow
    <2>4. DOMAIN users' \subseteq DOMAIN users /\ \A v \in DOMAIN users' : users'[v] = users[v]
        BY <2>3 DEF Without, Restrict
    <2>5. uses' = uses \/ (task[t].tok \in Tokens /\ Accepted(task[t].tok))
        BY <1>5, HandleWrites DEF ConsumePending, OidcConsume, AuthInv, TasksTyped, Holds
    <2>6. \A c \in Codes : uses'[c] = uses[c]
        BY <2>5, AcceptedUses, AuthAssumption DEF AuthInv
    <2>7. minted \subseteq minted'
        BY <1>5, HandleWrites DEF IssuePending, IssueSession
    <2>8. \A v \in DOMAIN users : users[v].backup \subseteq Codes
        BY DEF AuthInv, TablesTyped, UserRow
    <2> QED
        BY <2>1, <2>2, <2>4, <2>6, <2>7, <2>8 DEF CodesInv
<1>6. CASE UNCHANGED <<users, task, minted, uses>>
    BY <1>6 DEF CodesInv
<1> QED
    BY <1>1, <1>2, <1>3, <1>4, <1>5, <1>6, OtherWrites
LEMMA DeletionInductive ==
    ASSUME OneAtATime, AuthInv, DeletionInv, [AuthNext]_authVars
    PROVE  DeletionInv'
<1> USE DEF At, OneAtATime
<1>1. ASSUME NEW t \in Tasks, Request(t) PROVE DeletionInv'
    <2>1. users' = users /\ sessions' = sessions /\ deleted' = deleted
        BY <1>1, RequestWrites DEF ghosts
    <2>2. task[t].at = "idle"
        BY <1>1, RequestPresents DEF AuthInv
    <2>3. /\ task'[t].at \notin {"session", "revoke"}
          /\ task'[t].at = "save" /\ task'[t].then \in {"verify", "begin", "confirm", "update"} =>
                task'[t].user \in DOMAIN users
          /\ task'[t].at = "touch" => /\ task'[t].row.user = sessions[task'[t].tok].user
                                      /\ task'[t].row.via = sessions[task'[t].tok].via
        BY <1>1, RequestStarts DEF AuthInv
    <2> QED
        BY <2>1, <2>2, <2>3 DEF DeletionInv
<1>2. ASSUME NEW t \in Tasks, VerifyCode(t) \/ BeginEnrollment(t) \/ ConfirmEnrollment(t)
      PROVE  DeletionInv'
    <2>1. /\ users' = users /\ sessions' = sessions /\ deleted' = deleted
          /\ task[t].user \in DOMAIN users /\ task[t].at = "load"
        BY <1>2 DEF VerifyCode, BeginEnrollment, ConfirmEnrollment, tables, ghosts
    <2>2. task'[t].at \in {"save", "session"} => task'[t].user = task[t].user
        <3>1. \/ Return(t) \/ Step(t, "fail")
              \/ \E row : \/ Become(t, [task[t] EXCEPT !.at = "session", !.row = row, !.then = "mfa"])
                          \/ Become(t, [task[t] EXCEPT !.at = "save", !.row = row])
            BY <1>2 DEF VerifyCode, BeginEnrollment, ConfirmEnrollment
        <3> QED
            BY <3>1, ReturnArrives, StepArrives, AssignArrives, RowArrives DEF AuthInv
    <2>3. task'[t].at \notin {"touch", "revoke"}
        BY <1>2, HandleArrives DEF AuthInv, Handle, VerifyCode, BeginEnrollment, ConfirmEnrollment, DeleteRow
    <2> QED
        BY <2>1, <2>2, <2>3 DEF DeletionInv
<1>3. ASSUME NEW t \in Tasks, SaveUser(t) PROVE DeletionInv'
    <2> DEFINE u == task[t].user
    <2>1. /\ DOMAIN users' = DOMAIN users \cup {u} /\ sessions' = sessions /\ task[t].at = "save"
          /\ task[t].then \in {"verify", "begin", "confirm", "setup", "create", "update"}
          /\ deleted' = IF task[t].then \in {"setup", "create"} THEN deleted \ {u} ELSE deleted
        BY <1>3 DEF SaveUser, Put, AuthInv, TasksTyped, Holds
    <2>2. task'[t].at = "session" => task'[t].user = u
        <3>1. \/ Return(t) \/ Step(t, "pending")
              \/ Become(t, [task[t] EXCEPT !.at = "session", !.then = "mfa"])
            BY <1>3 DEF SaveUser
        <3> QED
            BY <3>1, ReturnArrives, StepArrives, ThenArrives DEF AuthInv
    <2>3. task'[t].at \notin {"save", "touch", "revoke"}
        BY <1>3, HandleArrives DEF AuthInv, Handle, SaveUser, VerifyCode, BeginEnrollment,
              ConfirmEnrollment, DeleteRow
    <2> QED
        BY <2>1, <2>2, <2>3 DEF DeletionInv
<1>4. ASSUME NEW t \in Tasks, DeleteRow(t) PROVE DeletionInv'
    <2>1. /\ DOMAIN users' = DOMAIN users \ {task[t].user} /\ sessions' = sessions
          /\ deleted' = deleted \cup {task[t].user} /\ task[t].at = "delete"
        BY <1>4 DEF DeleteRow, Without, Restrict
    <2>2. task'[t].at = "revoke" /\ task'[t].user = task[t].user
        BY <1>4, StepArrives DEF DeleteRow, AuthInv
    <2> QED
        BY <2>1, <2>2 DEF DeletionInv
<1>5. ASSUME NEW t \in Tasks, Handle(t),
             ~(VerifyCode(t) \/ BeginEnrollment(t) \/ ConfirmEnrollment(t) \/ SaveUser(t) \/ DeleteRow(t))
      PROVE  DeletionInv'
    <2>1. users' = users /\ deleted' = deleted
        BY <1>5, HandleWrites
    <2>2. /\ task'[t].at \notin {"save", "touch", "revoke"}
          /\ ~(task'[t].at = "session" /\ task'[t].then = "mfa")
        BY <1>5, HandleArrives DEF AuthInv
    <2>3. SUFFICES ASSUME NEW u \in deleted \ Escaped, NEW k \in DOMAIN sessions', sessions'[k].user = u
                   PROVE  sessions'[k].via # "mfa"
        BY <2>1, <2>2 DEF DeletionInv
    <2>4. CASE IssueSession(t)
        <3>1. PICK tok \in Tokens : sessions' = Put(sessions, tok,
                 [user |-> task[t].user, role |-> Parse(task[t].row.role), via |-> task[t].then, used |-> "recent"])
            BY <2>4 DEF IssueSession
        <3>2. task[t].at = "session"
            BY <2>4 DEF IssueSession
        <3>3. CASE k = tok
            <4>1. sessions'[k].user = task[t].user /\ sessions'[k].via = task[t].then
                BY <3>1, <3>3 DEF Put
            <4> QED
                BY <2>3, <3>2, <4>1 DEF DeletionInv
        <3>4. CASE k # tok
            <4>1. k \in DOMAIN sessions /\ sessions'[k] = sessions[k]
                BY <2>3, <3>1, <3>4 DEF Put
            <4> QED
                BY <2>3, <3>2, <4>1 DEF DeletionInv
        <3> QED
            BY <3>3, <3>4
    <2>5. CASE RevokeSessions(t)
        <3>1. /\ task[t].at = "revoke" /\ k \in DOMAIN sessions /\ sessions'[k] = sessions[k]
              /\ task[t].user \in Escaped \/ sessions[k].user # task[t].user
            BY <2>3, <2>5 DEF RevokeSessions, SessionsOf, Without, Restrict
        <3> QED
            BY <2>3, <3>1 DEF DeletionInv
    <2>6. CASE Touch(t)
        <3>1. task[t].at = "touch"
            BY <2>6 DEF Touch
        <3>2. k \in DOMAIN sessions /\ sessions'[k].user = sessions[k].user /\ sessions'[k].via = sessions[k].via
            BY <2>3, <2>6, <3>1 DEF Touch, Put, DeletionInv
        <3> QED
            BY <2>3, <3>1, <3>2 DEF DeletionInv
    <2>7. CASE DropSession(t) \/ sessions' = sessions
        <3>1. k \in DOMAIN sessions /\ sessions'[k] = sessions[k]
            BY <2>3, <2>7 DEF DropSession, Without, Restrict
        <3>2. CASE task[t].at # "revoke"
            BY <2>3, <3>1, <3>2 DEF DeletionInv
        <3>3. CASE RevokeSessions(t)
            BY <2>5, <3>3
        <3> QED
            BY <1>5, <3>2, <3>3, HandleLeaves
    <2> QED
        BY <1>5, <2>4, <2>5, <2>6, <2>7, HandleWrites
<1>6. CASE UNCHANGED <<users, task, deleted>> /\ (sessions' = sessions \/ PurgeSessions)
    <2>1. DOMAIN sessions' \subseteq DOMAIN sessions /\ \A k \in DOMAIN sessions' : sessions'[k] = sessions[k]
        BY <1>6 DEF PurgeSessions, Without, Restrict
    <2> QED
        BY <1>6, <2>1 DEF DeletionInv
<1>7. ASSUME UNCHANGED <<users, task, deleted>>, NEW tok \in Tokens, Idles(tok) PROVE DeletionInv'
    <2>1. /\ DOMAIN sessions' = DOMAIN sessions
          /\ \A k \in DOMAIN sessions : sessions'[k].user = sessions[k].user /\ sessions'[k].via = sessions[k].via
        BY <1>7 DEF Idles, AuthInv, TablesTyped, SessionRow
    <2> QED
        BY <1>7, <2>1 DEF DeletionInv
<1> QED
    BY <1>1, <1>2, <1>3, <1>4, <1>5, <1>6, <1>7, OtherWrites

LEMMA LockInductive ==
    ASSUME OneAtATime, AuthInv, LockInv, [AuthNext]_authVars
    PROVE  LockInv'
<1> USE DEF At, OneAtATime
<1>1. ASSUME NEW t \in Tasks, Request(t) PROVE LockInv'
    <2>1. lockout' = lockout /\ streak' = streak
        BY <1>1, RequestWrites DEF ghosts
    <2>2. task'[t].at # "failPut"
        BY <1>1, RequestStarts DEF AuthInv
    <2> QED
        BY <2>1, <2>2 DEF LockInv
<1>2. ASSUME NEW t \in Tasks, ClearLockout(t) PROVE LockInv'
    <2>1. task[t].user \in Users
        BY <1>2 DEF ClearLockout, AuthInv, TasksTyped, Holds
    <2>2. /\ DOMAIN lockout' = DOMAIN lockout \ {task[t].user}
          /\ \A u \in DOMAIN lockout' : lockout'[u] = lockout[u]
        BY <1>2 DEF ClearLockout, Without, Restrict
    <2>3. /\ streak' \in [Users -> 0..MaxFailed] /\ streak'[task[t].user] = 0
          /\ \A u \in Users : u # task[t].user => streak'[u] = streak[u]
        <3>1. streak' = [streak EXCEPT ![task[t].user] = 0]
            BY <1>2 DEF ClearLockout
        <3> QED
            BY <2>1, <3>1, AuthAssumption DEF LockInv
    <2>4. task'[t].at # "failPut"
        BY <1>2, HandleArrives DEF AuthInv, Handle, FailRead, ClearLockout
    <2>5. DOMAIN lockout \subseteq Users
        BY DEF AuthInv, TablesTyped
    <2> QED
        BY <2>2, <2>3, <2>4, <2>5 DEF LockInv
<1>3. ASSUME NEW t \in Tasks, FailRead(t) PROVE LockInv'
    <2>1. lockout' = lockout /\ streak' = streak
        BY <1>3 DEF FailRead, tables, ghosts
    <2>2. CASE Return(t)
        <3>1. task'[t].at = "idle"
            BY <2>2, ReturnArrives DEF AuthInv
        <3> QED
            BY <2>1, <3>1 DEF LockInv
    <2>3. CASE ~Return(t)
        <3>1. PICK row : /\ Become(t, [task[t] EXCEPT !.at = "failPut", !.row = row])
                         /\ row = IF task[t].user \in DOMAIN lockout THEN lockout[task[t].user] ELSE NoFailures
            BY <1>3, <2>3 DEF FailRead
        <3>2. task'[t].user = task[t].user /\ task'[t].row = row
            <4>1. Become(t, [task[t] EXCEPT !.at = "failPut", !.row = row]) /\ TasksTyped
                BY <3>1 DEF AuthInv
            <4> QED
                BY <4>1, RowArrives, ZenonT(40)
        <3>3. task[t].user \in Users
            BY <1>3 DEF FailRead, AuthInv, TasksTyped, Holds
        <3>4. streak[task[t].user] <= row.failures /\ (row.lock = "lapsed" => streak[task[t].user] = 0)
            BY <3>1, <3>3 DEF LockInv, NoFailures
        <3> QED
            BY <2>1, <3>2, <3>4 DEF LockInv
    <2> QED
        BY <2>2, <2>3
<1>4. ASSUME NEW t \in Tasks, FailPut(t) PROVE LockInv'
    <2> DEFINE u == task[t].user
               row == task[t].row
    <2>1. /\ u \in Users /\ row \in LockRow /\ MaxFailed \in Nat /\ MaxFailed > 0
          /\ streak[u] <= row.failures /\ (row.lock = "lapsed" => streak[u] = 0)
        BY <1>4, AuthAssumption DEF FailPut, AuthInv, TasksTyped, Holds, LockInv
    <2>2. streak[u] \in 0..MaxFailed
        BY <2>1 DEF LockInv
    <2>3. /\ streak' \in [Users -> 0..MaxFailed] /\ streak'[u] = IF streak[u] < MaxFailed THEN streak[u] + 1 ELSE MaxFailed
          /\ \A v \in Users : v # u => streak'[v] = streak[v]
        BY <1>4, <2>1, <2>2 DEF FailPut, LockInv
    <2>4. /\ DOMAIN lockout' = DOMAIN lockout \cup {u} /\ lockout'[u] = CountFailure(row)
          /\ \A v \in DOMAIN lockout : v # u => lockout'[v] = lockout[v]
        BY <1>4 DEF FailPut, Put
    <2>5. /\ streak'[u] <= CountFailure(row).failures
          /\ CountFailure(row).lock # "lapsed"
          /\ CountFailure(row).lock = "none" => CountFailure(row).failures < MaxFailed
        BY <2>1, <2>2, <2>3 DEF CountFailure, LockRow
    <2>6. task'[t].at # "failPut"
        BY <1>4, HandleArrives DEF AuthInv, Handle, FailPut, FailRead
    <2>7. DOMAIN lockout \subseteq Users
        BY DEF AuthInv, TablesTyped
    <2> HIDE DEF u, row
    <2> QED
        BY <2>3, <2>4, <2>5, <2>6, <2>7 DEF LockInv
<1>5. ASSUME NEW t \in Tasks, Handle(t), ~(ClearLockout(t) \/ FailRead(t) \/ FailPut(t)) PROVE LockInv'
    <2>1. lockout' = lockout /\ streak' = streak /\ task'[t].at # "failPut"
        BY <1>5, HandleWrites, HandleArrives DEF AuthInv
    <2> QED
        BY <2>1 DEF LockInv
<1>6. ASSUME NEW u \in Users, LockLapses(u) PROVE LockInv'
    <2>1. /\ DOMAIN lockout' = DOMAIN lockout /\ task' = task /\ u \in DOMAIN lockout
          /\ lockout'[u].failures = lockout[u].failures /\ lockout'[u].lock = "lapsed"
          /\ \A v \in DOMAIN lockout : v # u => lockout'[v] = lockout[v]
        BY <1>6 DEF LockLapses, AuthInv, TablesTyped, LockRow
    <2>2. /\ streak' \in [Users -> 0..MaxFailed] /\ streak'[u] = 0
          /\ \A v \in Users : v # u => streak'[v] = streak[v]
        BY <1>6, AuthAssumption DEF LockLapses, LockInv
    <2>3. DOMAIN lockout \subseteq Users /\ lockout[u].failures \in Nat
        BY <2>1, AuthAssumption DEF AuthInv, TablesTyped, LockRow
    <2>4. \A t \in Tasks : task[t].at = "failPut" => task[t].row.failures \in Nat /\ task[t].user \in Users
        BY AuthAssumption DEF AuthInv, TasksTyped, Holds, LockRow
    <2> QED
        BY <2>1, <2>2, <2>3, <2>4 DEF LockInv
<1>7. CASE UNCHANGED <<lockout, streak, task>>
    BY <1>7 DEF LockInv
<1> QED
    BY <1>1, <1>2, <1>3, <1>4, <1>5, <1>6, <1>7, OtherWrites
\* One request at a time: the tables stay well formed, no challenge or state and
\* no backup code is accepted twice, over any sequence of logins, enrolments,
\* deletions and expiries (consume_mfa_pending, consume_backup_code).
THEOREM CredentialsAreSoundHolds ==
    ASSUME OneAtATime
    PROVE  AuthSpec => []CredentialsAreSound
<1>1. ASSUME AuthInit PROVE OnceInv /\ CodesInv
    <2>1. uses = [x \in Tokens \cup Codes |-> 0] /\ \A t \in Tasks : task[t] = Idle
        BY <1>1 DEF AuthInit
    <2>2. Idle.at = "idle"
        BY DEF Idle
    <2>3. OnceInv
        BY <2>1, <2>2 DEF OnceInv, PendingUsedOnce
    <2>4. PICK E \in {{}, Enrolled} : \E code \in Injection(E, Codes) :
             /\ users = [u \in E |-> [role |-> "admin", secret |-> TRUE, enabled |-> TRUE, backup |-> {code[u]}]]
             /\ minted = Range(code)
        BY <1>1 DEF AuthInit
    <2>5. PICK code \in Injection(E, Codes) :
             /\ users = [u \in E |-> [role |-> "admin", secret |-> TRUE, enabled |-> TRUE, backup |-> {code[u]}]]
             /\ minted = Range(code)
        BY <2>4
    <2>6. /\ code \in [E -> Codes] /\ \A u, v \in E : code[u] = code[v] => u = v
          /\ \A u \in E : code[u] \in minted
        BY <2>5 DEF Injection, IsInjective, Range
    <2>7. DOMAIN users = E /\ \A u \in E : users[u].backup = {code[u]}
        BY <2>5
    <2>8. CodesInv
        BY <2>1, <2>2, <2>6, <2>7 DEF CodesInv, At
    <2> QED
        BY <2>3, <2>8
<1>2. AuthInv /\ OnceInv /\ CodesInv /\ [AuthNext]_authVars => (OnceInv /\ CodesInv)'
    BY OnceInductive, CodesInductive
<1>3. OnceInv /\ CodesInv => PendingUsedOnce /\ BackupCodeUsedOnce
    BY DEF OnceInv, CodesInv, BackupCodeUsedOnce
<1> QED
    BY <1>1, <1>2, <1>3, AuthInvHolds, AuthTypeCorrect, PTL DEF AuthSpec, CredentialsAreSound

\* One request at a time: when the deletion of a user has returned the user has
\* no row and, unless JSON escapes the name, no session of a local login
\* (delete_user, delete_sessions_for_user).
THEOREM DeletedIsRevokedHolds ==
    ASSUME OneAtATime
    PROVE  AuthSpec => []DeletedIsRevoked
<1>1. ASSUME AuthInit PROVE DeletionInv
    <2>1. deleted = {} /\ \A t \in Tasks : task[t] = Idle
        BY <1>1 DEF AuthInit
    <2>2. Idle.at = "idle"
        BY DEF Idle
    <2> QED
        BY <2>1, <2>2 DEF DeletionInv, At
<1>2. AuthInv /\ DeletionInv /\ [AuthNext]_authVars => DeletionInv'
    BY DeletionInductive
<1>3. DeletionInv => DeletedIsRevoked
    BY DEF DeletionInv, DeletedIsRevoked
<1> QED
    BY <1>1, <1>2, <1>3, AuthInvHolds, PTL DEF AuthSpec

\* One request at a time: max_failed_logins failures in a row leave the account
\* locked, whenever earlier locks lapse (record_login_failure).
THEOREM LockedAtThresholdHolds ==
    ASSUME OneAtATime
    PROVE  AuthSpec => []LockedAtThreshold
<1>1. ASSUME AuthInit PROVE LockInv
    <2>1. DOMAIN lockout = {} /\ streak = [u \in Users |-> 0] /\ \A t \in Tasks : task[t] = Idle
        BY <1>1 DEF AuthInit
    <2>2. Idle.at = "idle"
        BY DEF Idle
    <2> QED
        BY <2>1, <2>2, AuthAssumption DEF LockInv, At
<1>2. AuthInv /\ LockInv /\ [AuthNext]_authVars => LockInv'
    BY LockInductive
<1>3. ASSUME AuthInv, LockInv PROVE LockedAtThreshold
    <2> SUFFICES ASSUME MaxFailed > 0, NEW u \in Users, streak[u] >= MaxFailed
                 PROVE  u \in DOMAIN lockout /\ lockout[u].lock = "locked"
        BY DEF LockedAtThreshold
    <2>1. u \in DOMAIN lockout
        BY <1>3, AuthAssumption DEF LockInv
    <2>2. lockout[u].failures \in Nat /\ lockout[u].lock \in {"none", "locked", "lapsed"}
        BY <1>3, <2>1, AuthAssumption DEF AuthInv, TablesTyped, LockRow
    <2>3. lockout[u].lock # "none" /\ lockout[u].lock # "lapsed"
        BY <1>3, <2>1, <2>2, AuthAssumption DEF LockInv
    <2> QED
        BY <2>1, <2>2, <2>3
<1> QED
    BY <1>1, <1>2, <1>3, AuthInvHolds, PTL DEF AuthSpec
=============================================================================
