-------------------------------- MODULE Auth --------------------------------
(***************************************************************************)
(* Authentication of the admin API (qw-gateway: auth.rs, admin/auth_api.rs,*)
(* admin/users_api.rs, oidc.rs) over the shared store of qw-store.  A task *)
(* is one request handler, of any replica; every call of the store is one  *)
(* statement, and other tasks run between the statements of a handler.     *)
(*                                                                         *)
(* Abstractions: a token is named, not hashed; whether a password or a     *)
(* TOTP code is right is an input; time is what it makes lapse; an         *)
(* enrolment hands out one backup code.                                    *)
(***************************************************************************)
EXTENDS Naturals, FiniteSets, Functions

CONSTANTS
    Users,         \* usernames
    ConfigUsers,   \* those declared in the config file
    Enrolled,      \* runtime users of an installation that is already in use
    Escaped,       \* usernames that JSON escapes: a quote, a backslash, a control character
    Alike,         \* groups of usernames that LIKE does not tell apart: on SQLite, by case
    Roles,         \* roles of runtime users
    Tasks,         \* concurrent request handlers
    Tokens,        \* bound: the random tokens that get minted; a handler in need of one more stays where it is
    Codes,         \* bound: the backup codes that get minted
    MaxFailed      \* max_failed_logins (0: no lockout)

ASSUME AuthAssumption ==
    /\ ConfigUsers \subseteq Users /\ Enrolled \subseteq Users \ ConfigUsers
    /\ Escaped \subseteq Users
    /\ \A names \in Alike : names \subseteq Users \ Escaped
    /\ "admin" \in Roles
    /\ IsFiniteSet(Tokens) /\ IsFiniteSet(Tasks)
    /\ Tokens \cap Codes = {}
    /\ MaxFailed \in Nat

VARIABLES
    users,      \* table auth_users
    sessions,   \* table auth_sessions, by token
    pending,    \* table mfa_pending, by token
    lockout,    \* table login_lockouts, by username
    oidc,       \* table oidc_states
    task,       \* where each handler is, and its locals
    minted,     \* random tokens and codes drawn so far
    lapsed,     \* tokens whose expires_at is past
    uses,       \* auxiliary: times a one-time credential was accepted (0, 1, 2 or more)
    revoked,    \* auxiliary: sessions that were deleted
    deleted,    \* auxiliary: users deleted, and not created again
    streak,     \* auxiliary: failed logins in a row of each user
    logged      \* tokens whose issue was logged as LoginSucceeded

tables == <<users, sessions, pending, lockout, oidc>>
ghosts == <<uses, revoked, deleted, streak, logged>>
authVars == <<tables, task, minted, lapsed, ghosts>>

-----------------------------------------------------------------------------
(* Rows and locals. *)

Put(f, k, v) == [x \in DOMAIN f \cup {k} |-> IF x = k THEN v ELSE f[x]]
Without(f, S) == Restrict(f, DOMAIN f \ S)

\* Role::parse(role).label(): a custom role becomes the lowest built-in one.
Parse(role) == IF role \in {"admin", "operator", "auditor"} THEN role ELSE "viewer"

NewUser(role) == [role |-> role, secret |-> FALSE, enabled |-> FALSE, backup |-> {}]
NoFailures == [failures |-> 0, lock |-> "none"]

\* The locals of a handler: what it does next, for which user, with which token
\* or row, and what follows.
Idle == [at |-> "idle", user |-> "", tok |-> "", row |-> <<>>, then |-> ""]
At(t, at) == task[t].at = at
Become(t, l) == task' = [task EXCEPT ![t] = l]
Step(t, at) == task' = [task EXCEPT ![t].at = at]
Return(t) == Become(t, Idle)

\* A fresh installation, or one whose users are enrolled and logged out.
AuthInit ==
    /\ \E E \in {{}, Enrolled} : \E code \in Injection(E, Codes) :
          /\ users = [u \in E |-> [role |-> "admin", secret |-> TRUE, enabled |-> TRUE,
                                   backup |-> {code[u]}]]
          /\ minted = Range(code)
    /\ sessions = <<>> /\ pending = <<>> /\ lockout = <<>> /\ oidc = {}
    /\ task = [t \in Tasks |-> Idle]
    /\ lapsed = {}
    /\ uses = [x \in Tokens \cup Codes |-> 0]
    /\ revoked = {} /\ deleted = {} /\ logged = {}
    /\ streak = [u \in Users |-> 0]

Accepted(x) == uses' = [uses EXCEPT ![x] = IF @ = 0 THEN 1 ELSE 2]

-----------------------------------------------------------------------------
(* login. *)

Locked(u) == MaxFailed > 0 /\ u \in DOMAIN lockout /\ lockout[u].lock = "locked"

\* The lockout row is consulted first: a locked account is refused.
Login(t, u) ==
    /\ At(t, "idle")
    /\ \/ Locked(u) /\ UNCHANGED task
       \/ /\ ~Locked(u)
          /\ Become(t, [Idle EXCEPT !.at = "password", !.user = u])
    /\ UNCHANGED <<tables, minted, lapsed, ghosts>>

\* The user is looked up and the password checked.
CheckPassword(t) ==
    /\ At(t, "password")
    /\ \/ task[t].user \in ConfigUsers \cup DOMAIN users /\ Step(t, "clear")
       \/ Step(t, "fail")
    /\ UNCHANGED <<tables, minted, lapsed, ghosts>>

\* clear_login_lockout; a config user then gets a session, a runtime user goes
\* through the second factor.
ClearLockout(t) ==
    /\ At(t, "clear")
    /\ lockout' = Without(lockout, {task[t].user})
    /\ streak' = [streak EXCEPT ![task[t].user] = 0]
    /\ IF task[t].user \in ConfigUsers
       THEN \E role \in Roles :
               Become(t, [task[t] EXCEPT !.at = "session", !.row = NewUser(role), !.then = "config"])
       ELSE Step(t, "enrolled")
    /\ UNCHANGED <<users, sessions, pending, oidc, minted, lapsed, uses, revoked, deleted, logged>>

\* The row is read again for totp_enabled (no row: not enrolled).
CheckEnrolled(t) ==
    /\ At(t, "enrolled")
    /\ LET u == task[t].user
           enrolled == u \in DOMAIN users /\ users[u].enabled
       IN  Become(t, [task[t] EXCEPT !.at = "pending",
                                     !.then = IF enrolled THEN "verify" ELSE "enroll"])
    /\ UNCHANGED <<tables, minted, lapsed, ghosts>>

\* issue_pending; setup_admin's handler then logs it.
IssuePending(t) ==
    /\ At(t, "pending")
    /\ \E tok \in Tokens \ minted :
          /\ minted' = minted \cup {tok}
          /\ pending' = Put(pending, tok,
                [user |-> task[t].user,
                 kind |-> IF task[t].then = "verify" THEN "verify" ELSE "enroll"])
          /\ IF task[t].then = "setup"
             THEN Become(t, [task[t] EXCEPT !.at = "log", !.tok = tok])
             ELSE Return(t)
    /\ UNCHANGED <<users, sessions, lockout, oidc, lapsed, ghosts>>

\* issue_session, with the role of the row the handler holds.
IssueSession(t) ==
    /\ At(t, "session")
    /\ \E tok \in Tokens \ minted :
          /\ minted' = minted \cup {tok}
          /\ sessions' = Put(sessions, tok,
                [user |-> task[t].user, role |-> Parse(task[t].row.role), via |-> task[t].then,
                 used |-> "recent"])
          /\ IF task[t].then = "config"
             THEN Become(t, [task[t] EXCEPT !.at = "log", !.tok = tok])
             ELSE Return(t)
    /\ UNCHANGED <<users, pending, lockout, oidc, lapsed, ghosts>>

\* audit_logger.log(LoginSucceeded) of the login and setup endpoints.
LogLogin(t) ==
    /\ At(t, "log")
    /\ logged' = logged \cup {task[t].tok}
    /\ Return(t)
    /\ UNCHANGED <<tables, minted, lapsed, uses, revoked, deleted, streak>>

-----------------------------------------------------------------------------
(* record_login_failure: a read and a write of the lockout row. *)

FailRead(t) ==
    /\ At(t, "fail")
    /\ IF MaxFailed = 0
       THEN Return(t)
       ELSE LET u == task[t].user
            IN  Become(t, [task[t] EXCEPT !.at = "failPut",
                             !.row = IF u \in DOMAIN lockout THEN lockout[u] ELSE NoFailures])
    /\ UNCHANGED <<tables, minted, lapsed, ghosts>>

\* Mutant: the account is locked one failure too late.
MutCountFailure(st) ==
    LET n == IF st.lock = "lapsed" THEN 1 ELSE st.failures + 1
    IN  [failures |-> n, lock |-> IF n > MaxFailed THEN "locked" ELSE "none"]

\* The lockout row after one more failure; a lapsed lock starts a new streak.
CountFailure(st) ==
    LET n == IF st.lock = "lapsed" THEN 1 ELSE st.failures + 1
    IN  [failures |-> IF n < MaxFailed THEN n ELSE MaxFailed,
         lock |-> IF n >= MaxFailed THEN "locked" ELSE "none"]

FailPut(t) ==
    /\ At(t, "failPut")
    /\ LET u == task[t].user
       IN  /\ lockout' = Put(lockout, u, CountFailure(task[t].row))
           /\ streak' = [streak EXCEPT ![u] = IF @ < MaxFailed THEN @ + 1 ELSE MaxFailed]
    /\ Return(t)
    /\ UNCHANGED <<users, sessions, pending, oidc, minted, lapsed, uses, revoked, deleted, logged>>

-----------------------------------------------------------------------------
(* The second factor: verify_totp_login, begin_enrollment and              *)
(* confirm_enrollment, which all start by consuming a pending token.       *)

\* consume_mfa_pending, SELECT.
SelectPending(t, tok, step) ==
    /\ At(t, "idle")
    /\ \/ /\ tok \notin DOMAIN pending
          /\ UNCHANGED task
       \/ /\ tok \in DOMAIN pending
          /\ Become(t, [at |-> "consume", user |-> pending[tok].user, tok |-> tok,
                        row |-> pending[tok], then |-> step])
    /\ UNCHANGED <<tables, minted, lapsed, ghosts>>

KindFor(step) == IF step = "verify" THEN "verify" ELSE "enroll"

\* Mutant: the challenge stays until it expires.
MutDeletePending(tok) == UNCHANGED pending

DeletePending(tok) == pending' = Without(pending, {tok})

\* consume_mfa_pending, DELETE; an expired one or one of the other kind is
\* refused, and gone.
ConsumePending(t) ==
    /\ At(t, "consume")
    /\ DeletePending(task[t].tok)
    /\ \/ /\ task[t].tok \notin lapsed /\ task[t].row.kind = KindFor(task[t].then)
          /\ Accepted(task[t].tok)
          /\ Step(t, "load")
       \/ /\ task[t].tok \in lapsed \/ task[t].row.kind # KindFor(task[t].then)
          /\ Return(t)
          /\ UNCHANGED uses
    /\ UNCHANGED <<users, sessions, lockout, oidc, minted, lapsed, revoked, deleted, streak, logged>>

\* Mutant: a backup code is checked and stays in the row.
MutSpend(row, c) == row

\* consume_backup_code: the row without the code.
Spend(row, c) == [row EXCEPT !.backup = @ \ {c}]

\* get_user and the check of the code: a TOTP code, or a backup code, which is
\* taken out of the row in memory.
VerifyCode(t) ==
    /\ At(t, "load") /\ task[t].then = "verify"
    /\ task[t].user \in DOMAIN users
    /\ LET row == users[task[t].user]
       IN  \/ /\ row.secret
              /\ Become(t, [task[t] EXCEPT !.at = "session", !.row = row, !.then = "mfa"])
              /\ UNCHANGED uses
           \/ \E c \in row.backup :
                 /\ Accepted(c)
                 /\ Become(t, [task[t] EXCEPT !.at = "save", !.row = Spend(row, c)])
           \/ /\ Step(t, "fail")
              /\ UNCHANGED uses
    /\ UNCHANGED <<tables, minted, lapsed, revoked, deleted, streak, logged>>

\* begin_enrollment: a secret, not enabled yet; no row is written when
\* otpauth_url refuses the name.
BeginEnrollment(t) ==
    /\ At(t, "load") /\ task[t].then = "begin"
    /\ task[t].user \in DOMAIN users
    /\ LET row == [users[task[t].user] EXCEPT !.secret = TRUE, !.enabled = FALSE]
       IN  \/ Become(t, [task[t] EXCEPT !.at = "save", !.row = row])
           \/ Return(t)
    /\ UNCHANGED <<tables, minted, lapsed, ghosts>>

\* confirm_enrollment: a right code enables 2FA and mints backup codes.
ConfirmEnrollment(t) ==
    /\ At(t, "load") /\ task[t].then = "confirm"
    /\ task[t].user \in DOMAIN users
    /\ \/ /\ users[task[t].user].secret
          /\ \E c \in Codes \ minted :
                /\ minted' = minted \cup {c}
                /\ LET row == [users[task[t].user] EXCEPT !.enabled = TRUE, !.backup = {c}]
                   IN  Become(t, [task[t] EXCEPT !.at = "save", !.row = row])
       \/ /\ Return(t)
          /\ UNCHANGED minted
    /\ UNCHANGED <<tables, lapsed, ghosts>>

\* get_user finds nobody.
LoadNobody(t) ==
    /\ At(t, "load")
    /\ task[t].user \notin DOMAIN users
    /\ Return(t)
    /\ UNCHANGED <<tables, minted, lapsed, ghosts>>

\* upsert_user of the row in memory, and what each handler does after it.
SaveUser(t) ==
    /\ At(t, "save")
    /\ users' = Put(users, task[t].user, task[t].row)
    /\ deleted' = IF task[t].then \in {"setup", "create"}
                  THEN deleted \ {task[t].user} ELSE deleted
    /\ \/ /\ task[t].then \in {"verify", "confirm"}
          /\ Become(t, [task[t] EXCEPT !.at = "session", !.then = "mfa"])
       \/ /\ task[t].then \in {"begin", "setup"}
          /\ Step(t, "pending")
       \/ /\ task[t].then \in {"create", "update"}
          /\ Return(t)
    /\ UNCHANGED <<sessions, pending, lockout, oidc, minted, lapsed, uses, revoked, streak, logged>>

-----------------------------------------------------------------------------
(* First-run setup and user management. *)

\* setup_admin: refused once there is a user.
Setup(t, u) ==
    /\ At(t, "idle")
    /\ ConfigUsers = {} /\ DOMAIN users = {}
    /\ Become(t, [at |-> "save", user |-> u, tok |-> "", row |-> NewUser("admin"), then |-> "setup"])
    /\ UNCHANGED <<tables, minted, lapsed, ghosts>>

\* create_user.
CreateUser(t, u, role) ==
    /\ At(t, "idle")
    /\ u \notin ConfigUsers \cup DOMAIN users
    /\ Become(t, [at |-> "save", user |-> u, tok |-> "", row |-> NewUser(role), then |-> "create"])
    /\ UNCHANGED <<tables, minted, lapsed, ghosts>>

\* update_user: the row is read, changed and written back.
UpdateUser(t, u, role) ==
    /\ At(t, "idle")
    /\ u \in DOMAIN users
    /\ Become(t, [at |-> "save", user |-> u, tok |-> "",
                  row |-> [users[u] EXCEPT !.role = role], then |-> "update"])
    /\ UNCHANGED <<tables, minted, lapsed, ghosts>>

\* delete_user: the row is looked up, ...
DeleteUser(t, u) ==
    /\ At(t, "idle")
    /\ u \in DOMAIN users
    /\ Become(t, [Idle EXCEPT !.at = "delete", !.user = u])
    /\ UNCHANGED <<tables, minted, lapsed, ghosts>>

\* ... deleted, ...
DeleteRow(t) ==
    /\ At(t, "delete")
    /\ users' = Without(users, {task[t].user})
    /\ deleted' = deleted \cup {task[t].user}
    /\ Step(t, "revoke")
    /\ UNCHANGED <<sessions, pending, lockout, oidc, minted, lapsed, uses, revoked, streak, logged>>

\* Mutant: the sessions of a deleted user stay.
MutSessionsOf(u) == {}

\* The sessions whose JSON is LIKE %"username":"u"%.  The pattern holds the name
\* as it is, the JSON holds it escaped, and the comparison may ignore the case.
SessionsOf(u) ==
    {tok \in DOMAIN sessions :
        /\ u \notin Escaped
        /\ sessions[tok].user = u \/ \E names \in Alike : {u, sessions[tok].user} \subseteq names}

\* ... and the user's sessions with it (delete_sessions_for_user).
RevokeSessions(t) ==
    /\ At(t, "revoke")
    /\ sessions' = Without(sessions, SessionsOf(task[t].user))
    /\ revoked' = revoked \cup SessionsOf(task[t].user)
    /\ Return(t)
    /\ UNCHANGED <<users, pending, lockout, oidc, minted, lapsed, uses, deleted, streak, logged>>

-----------------------------------------------------------------------------
(* Sessions: validate, logout, purge. *)

\* validate: the row is read; an expired or idle session is deleted, one whose
\* last_used is old is touched.
Validate(t, tok) ==
    /\ At(t, "idle")
    /\ \/ /\ tok \in DOMAIN sessions
          /\ tok \in lapsed \/ sessions[tok].used = "idle"
          /\ Become(t, [Idle EXCEPT !.at = "drop", !.tok = tok])
       \/ /\ tok \in DOMAIN sessions \ lapsed
          /\ sessions[tok].used = "old"
          /\ Become(t, [Idle EXCEPT !.at = "touch", !.tok = tok,
                           !.row = [sessions[tok] EXCEPT !.used = "recent"]])
       \/ /\ tok \in DOMAIN sessions \ lapsed => sessions[tok].used = "recent"
          /\ tok \notin DOMAIN sessions \cap lapsed
          /\ UNCHANGED task
    /\ UNCHANGED <<tables, minted, lapsed, ghosts>>

\* Mutant: the row is written whether or not it is still there.
MutTouch(t) ==
    /\ At(t, "touch")
    /\ sessions' = Put(sessions, task[t].tok, task[t].row)
    /\ Return(t)
    /\ UNCHANGED <<users, pending, lockout, oidc, minted, lapsed, ghosts>>

\* touch_auth_session: UPDATE ... WHERE token_hash = ...
Touch(t) ==
    /\ At(t, "touch")
    /\ sessions' = IF task[t].tok \in DOMAIN sessions
                   THEN Put(sessions, task[t].tok, task[t].row) ELSE sessions
    /\ Return(t)
    /\ UNCHANGED <<users, pending, lockout, oidc, minted, lapsed, ghosts>>

\* logout, after it validated the token for the audit record.
Logout(t, tok) ==
    /\ At(t, "idle")
    /\ tok \in minted
    /\ Become(t, [Idle EXCEPT !.at = "drop", !.tok = tok])
    /\ UNCHANGED <<tables, minted, lapsed, ghosts>>

\* delete_auth_session.
DropSession(t) ==
    /\ At(t, "drop")
    /\ sessions' = Without(sessions, {task[t].tok})
    /\ revoked' = revoked \cup ({task[t].tok} \cap DOMAIN sessions)
    /\ Return(t)
    /\ UNCHANGED <<users, pending, lockout, oidc, minted, lapsed, uses, deleted, streak, logged>>

\* purge_expired: the background task's two DELETEs (mfa_pending is not purged).
PurgeSessions ==
    /\ sessions' = Without(sessions, lapsed)
    /\ revoked' = revoked \cup (DOMAIN sessions \cap lapsed)
    /\ UNCHANGED <<users, pending, lockout, oidc, task, minted, lapsed, uses, deleted, streak, logged>>

PurgeOidc ==
    /\ oidc' = oidc \ lapsed
    /\ UNCHANGED <<users, sessions, pending, lockout, task, minted, lapsed, ghosts>>

-----------------------------------------------------------------------------
(* Single sign-on. *)

\* begin_oidc.
OidcLogin(t) ==
    /\ At(t, "idle")
    /\ \E tok \in Tokens \ minted :
          /\ minted' = minted \cup {tok}
          /\ oidc' = oidc \cup {tok}
    /\ UNCHANGED <<users, sessions, pending, lockout, task, lapsed, ghosts>>

\* callback: consume_oidc_state, SELECT.
OidcCallback(t, tok) ==
    /\ At(t, "idle")
    /\ tok \in oidc
    /\ Become(t, [Idle EXCEPT !.at = "oidc", !.tok = tok])
    /\ UNCHANGED <<tables, minted, lapsed, ghosts>>

\* consume_oidc_state, DELETE; a state that is not expired goes on to the
\* identity provider, which names user and role or fails.
OidcConsume(t) ==
    /\ At(t, "oidc")
    /\ oidc' = oidc \ {task[t].tok}
    /\ \/ /\ task[t].tok \notin lapsed
          /\ Accepted(task[t].tok)
          /\ \/ \E u \in Users, role \in Roles :
                   Become(t, [task[t] EXCEPT !.at = "session", !.user = u,
                                             !.row = NewUser(role), !.then = "oidc"])
             \/ Return(t)
       \/ /\ task[t].tok \in lapsed
          /\ Return(t)
          /\ UNCHANGED uses
    /\ UNCHANGED <<users, sessions, pending, lockout, minted, lapsed, revoked, deleted, streak, logged>>

-----------------------------------------------------------------------------
(* Time. *)

\* expires_at of a token passes.
Expires(tok) ==
    /\ tok \in (DOMAIN sessions \cup DOMAIN pending \cup oidc) \ lapsed
    /\ lapsed' = lapsed \cup {tok}
    /\ UNCHANGED <<tables, task, minted, ghosts>>

\* A session is not used for 60 s, then for idle_timeout_secs.
Idles(tok) ==
    /\ tok \in DOMAIN sessions
    /\ sessions[tok].used # "idle"
    /\ sessions' = [sessions EXCEPT ![tok].used = IF @ = "recent" THEN "old" ELSE "idle"]
    /\ UNCHANGED <<users, pending, lockout, oidc, task, minted, lapsed, ghosts>>

\* locked_until of a user passes.
LockLapses(u) ==
    /\ u \in DOMAIN lockout
    /\ lockout[u].lock = "locked"
    /\ lockout' = [lockout EXCEPT ![u].lock = "lapsed"]
    /\ streak' = [streak EXCEPT ![u] = 0]
    /\ UNCHANGED <<users, sessions, pending, oidc, task, minted, lapsed, uses, revoked, deleted, logged>>

-----------------------------------------------------------------------------

\* A request arrives.
Request(t) ==
    \/ \E u \in Users : Login(t, u) \/ Setup(t, u) \/ DeleteUser(t, u)
    \/ \E u \in Users, role \in Roles : CreateUser(t, u, role) \/ UpdateUser(t, u, role)
    \/ \E tok \in Tokens :
          \/ \E step \in {"verify", "begin", "confirm"} : SelectPending(t, tok, step)
          \/ Validate(t, tok) \/ Logout(t, tok) \/ OidcCallback(t, tok)
    \/ OidcLogin(t)

\* A handler goes on.
Handle(t) ==
    \/ CheckPassword(t) \/ ClearLockout(t) \/ CheckEnrolled(t) \/ IssuePending(t)
    \/ IssueSession(t) \/ LogLogin(t) \/ FailRead(t) \/ FailPut(t) \/ ConsumePending(t)
    \/ VerifyCode(t) \/ BeginEnrollment(t) \/ ConfirmEnrollment(t) \/ LoadNobody(t)
    \/ SaveUser(t) \/ DeleteRow(t) \/ RevokeSessions(t) \/ Touch(t) \/ DropSession(t)
    \/ OidcConsume(t)

AuthNext ==
    \/ \E t \in Tasks : Request(t) \/ Handle(t)
    \/ PurgeSessions \/ PurgeOidc
    \/ \E tok \in Tokens : Expires(tok) \/ Idles(tok)
    \/ \E u \in Users : LockLapses(u)

AuthSpec == AuthInit /\ [][AuthNext]_authVars

-----------------------------------------------------------------------------
(* Properties. *)

AuthTypeOK ==
    /\ DOMAIN users \subseteq Users \ ConfigUsers
    /\ \A u \in DOMAIN users : users[u].role \in Roles /\ users[u].backup \subseteq Codes
    /\ DOMAIN sessions \cup DOMAIN pending \cup oidc \subseteq minted
    /\ \A tok \in DOMAIN sessions : sessions[tok].user \in Users /\ Parse(sessions[tok].role) = sessions[tok].role
    /\ \A tok \in DOMAIN pending : pending[tok].user \in Users
    /\ \A u \in DOMAIN lockout : lockout[u].failures \in 1..MaxFailed
    /\ \A t \in Tasks : ~At(t, "idle") => task[t].user \in Users \cup {""}
    /\ minted \subseteq Tokens \cup Codes /\ lapsed \subseteq Tokens

\* A session that was logged out, purged, timed out or revoked with its user
\* never validates again, although requests that read it before may still
\* write it back (touch_auth_session updates, it does not insert).
RevokedStaysRevoked == revoked \cap DOMAIN sessions = {}

\* "deletes it so it can't be replayed": a request that presents a one-time
\* token after the token was accepted is refused, whatever runs meanwhile.
NoLateReplay ==
    [][ \A t \in Tasks : At(t, "idle") /\ task'[t].at \in {"consume", "oidc"} =>
            uses[task'[t].tok] = 0 ]_authVars

\* "single-use" (consume_mfa_pending): a pending challenge or an OIDC state is
\* accepted at most once.
PendingUsedOnce == \A tok \in Tokens : uses[tok] <= 1

\* "consume it (single-use)" (consume_backup_code).
BackupCodeUsedOnce == \A c \in Codes : uses[c] <= 1

\* One request at a time, over any sequence of logins, enrolments, retries,
\* deletions and expiries: the five tables stay well formed, and no challenge and
\* no backup code is accepted twice (consume_mfa_pending, verify_totp_login).
CredentialsAreSound == AuthTypeOK /\ PendingUsedOnce /\ BackupCodeUsedOnce

\* "so access is revoked immediately" (delete_user): when the deletion of a user
\* has returned, the user has no row and, unless the name is one that JSON
\* escapes (delete_sessions_for_user does not find those), no session of a local
\* login, until an administrator creates the user again.
DeletedIsRevoked ==
    \A u \in {v \in deleted : \A t \in Tasks : ~(At(t, "revoke") /\ task[t].user = v)} :
        /\ u \notin DOMAIN users
        /\ u \notin Escaped =>
              \A tok \in DOMAIN sessions : sessions[tok].user = u => sessions[tok].via # "mfa"

\* "lock the account once the threshold is reached" (record_login_failure):
\* max_failed_logins failures in a row leave the account locked.
LockedAtThreshold ==
    MaxFailed > 0 => \A u \in Users : streak[u] >= MaxFailed =>
        u \in DOMAIN lockout /\ lockout[u].lock = "locked"

\* "Revoke every live session belonging to a user (used when their account is
\* deleted or their role changes)" (delete_sessions_for_user): while nobody is
\* at work, the sessions of a local login have the role of their user.
RoleChangeRevokes ==
    (\A t \in Tasks : At(t, "idle")) =>
        \A tok \in DOMAIN sessions :
            sessions[tok].via = "mfa" /\ sessions[tok].user \in DOMAIN users =>
                sessions[tok].role = Parse(users[sessions[tok].user].role)

\* "Login success/failure ... events in the tamper-evident audit log" (SOC2.md):
\* when the request that issued a session has ended, the login is logged.
LoginIsLogged ==
    \A tok \in DOMAIN sessions :
        tok \in logged \/ \E t \in Tasks : At(t, "log") /\ task[t].tok = tok
=============================================================================
