------------------------------ MODULE Accounts ------------------------------
(* One account of the server: its password, sign-ins, second factor and API *)
(* tokens (internal/auth/auth.go and the handlers that call it). A handler  *)
(* is a sequence of database calls with nothing held between them: each     *)
(* call is a step, and what it read before may be stale at the next.        *)
EXTENDS NoValue, Integers, FiniteSets

CONSTANTS Procs,        \* requests the server handles at the same time
          Slots,        \* rows of the sessions table
          Codes,        \* the backup codes of one set-up
          MaxPasswords, \* bound: passwords the account has in turn
          MaxSetUps,    \* bound: times a second factor is set up
          MaxTokens,    \* the plan's limit of API tokens; negative for none, as without a plan
          MaxUncounted  \* bound: tokens made without a count

VARIABLES
  user,      \* the row of users, or None when it is deleted
  totp,      \* the row of totp_secrets, or None
  sessions,  \* the rows of sessions, by slot
  tokens,    \* how many rows of api_tokens
  uncounted, \* tokens made without a count (history)
  h,         \* the place of each handler, and what it has read
  passwords, \* passwords so far
  setUps,    \* secrets so far
  confirmed, \* secrets that a code has confirmed (history)
  spent,     \* backup codes taken off the list for a sign-in (history)
  overlapped \* the list was written back over another one (history)

dbVars == <<user, totp, sessions, tokens, uncounted>>
vars == <<dbVars, h, passwords, setUps, confirmed, spent, overlapped>>

\* late: the password was changed, or the account blocked, since the handler
\* began. A session is late when its handler was, or when a change of the
\* password has passed it by.
idle == [at |-> "idle", pw |-> 0, late |-> FALSE, seen |-> None]

Init ==
  /\ user = [active |-> TRUE, pw |-> 1]
  /\ totp = None /\ sessions = [s \in Slots |-> None] /\ tokens = 0 /\ uncounted = 0
  /\ h = [p \in Procs |-> idle]
  /\ passwords = 1 /\ setUps = 0 /\ confirmed = {} /\ spent = {} /\ overlapped = FALSE

at(p, place) == h[p].at = place
Go(p, place) == h' = [h EXCEPT ![p].at = place]
GoSeen(p, place, seen) == h' = [h EXCEPT ![p].at = place, ![p].seen = seen]
Answer(p) == h' = [h EXCEPT ![p] = idle]
isActive == user # None /\ user.active

\* The handlers under way, other than p, which answers, were there first.
AnswerAndOvertake(p) ==
  h' = [q \in Procs |-> IF q = p \/ h[q] = idle THEN idle ELSE [h[q] EXCEPT !.late = TRUE]]

-----------------------------------------------------------------------------
(* Signing in.                                                             *)

\* Login reads the user. The password it is given is the one that is stored.
Login(p) ==
  /\ at(p, "idle") /\ isActive
  /\ h' = [h EXCEPT ![p].at = "password", ![p].pw = user.pw]
  /\ UNCHANGED <<dbVars, passwords, setUps, confirmed, spent, overlapped>>

\* After the comparison of the hashes: TOTP.IsEnabled, which is false for a
\* user without a row.
AskTOTP(p) ==
  /\ at(p, "password")
  /\ Go(p, IF totp # None /\ totp.enabled THEN "code" ELSE "create")
  /\ UNCHANGED <<dbVars, passwords, setUps, confirmed, spent, overlapped>>

\* TOTP.GetByUserID; the code is that of the secret.
CheckCode(p) ==
  /\ at(p, "code")
  /\ IF totp = None THEN Answer(p) ELSE Go(p, "create")
  /\ UNCHANGED <<dbVars, passwords, setUps, confirmed, spent, overlapped>>

\* ValidateBackupCode: what remains of the valid codes.
Remaining(c, valid) == valid \ {c}

\* The code is a backup code.
CheckBackupCode(p, c) ==
  /\ at(p, "code") /\ totp # None /\ c \in totp.codes
  /\ GoSeen(p, "spend", [codes |-> totp.codes, code |-> c])
  /\ UNCHANGED <<dbVars, passwords, setUps, confirmed, spent, overlapped>>

\* TOTP.UpdateBackupCodes writes the list that was read, less the code; when
\* it fails, or finds no row, the user is signed in all the same.
SpendBackupCode(p) ==
  /\ at(p, "spend")
  /\ LET seen == h[p].seen IN
     \/ UNCHANGED <<totp, spent, overlapped>>
     \/ /\ totp # None
        /\ totp' = [totp EXCEPT !.codes = Remaining(seen.code, seen.codes)]
        /\ spent' = spent \cup {seen.code}
        /\ overlapped' = (overlapped \/ totp.codes # seen.codes)
  /\ GoSeen(p, "create", None)
  /\ UNCHANGED <<user, sessions, tokens, uncounted, passwords, setUps, confirmed>>

\* Sessions.Create: without its user the row is refused.
CreateSession(p) ==
  /\ at(p, "create")
  /\ \/ user = None /\ UNCHANGED sessions
     \/ /\ user # None
        /\ \E s \in Slots :
             /\ sessions[s] = None
             /\ sessions' = [sessions EXCEPT ![s] = [pw |-> h[p].pw, late |-> h[p].late]]
  /\ Answer(p)
  /\ UNCHANGED <<user, totp, tokens, uncounted, passwords, setUps, confirmed, spent, overlapped>>

\* RefreshTokens finds the session of its token, which may have expired.
Refresh(p, s) ==
  /\ at(p, "idle") /\ sessions[s] # None
  /\ \/ /\ h' = [h EXCEPT ![p] = [at |-> "refresh", pw |-> sessions[s].pw,
                                  late |-> sessions[s].late, seen |-> s]]
        /\ UNCHANGED sessions
     \/ sessions' = [sessions EXCEPT ![s] = None] /\ UNCHANGED h
  /\ UNCHANGED <<user, totp, tokens, uncounted, passwords, setUps, confirmed, spent, overlapped>>

\* Mutant: the user is not looked up again.
RefreshUserAny(p) ==
  /\ at(p, "refresh")
  /\ IF user # None THEN Go(p, "rotate") ELSE Answer(p)
  /\ UNCHANGED <<dbVars, passwords, setUps, confirmed, spent, overlapped>>

RefreshUser(p) ==
  /\ at(p, "refresh")
  /\ IF isActive THEN Go(p, "rotate") ELSE Answer(p)
  /\ UNCHANGED <<dbVars, passwords, setUps, confirmed, spent, overlapped>>

\* Sessions.Delete by its ID, whether the row is still there or not; whether it
\* succeeds is not looked at.
Rotate(p) ==
  /\ at(p, "rotate")
  /\ sessions' \in {sessions, [sessions EXCEPT ![h[p].seen] = None]}
  /\ GoSeen(p, "create", None)
  /\ UNCHANGED <<user, totp, tokens, uncounted, passwords, setUps, confirmed, spent, overlapped>>

\* MiddlewareWithDB: a valid token, of an active user.
Admit(p) ==
  /\ at(p, "idle") /\ isActive
  /\ Go(p, "admitted")
  /\ UNCHANGED <<dbVars, passwords, setUps, confirmed, spent, overlapped>>

Logout(p, s) ==
  /\ at(p, "admitted")
  /\ sessions' = [sessions EXCEPT ![s] = None]
  /\ Answer(p)
  /\ UNCHANGED <<user, totp, tokens, uncounted, passwords, setUps, confirmed, spent, overlapped>>

-----------------------------------------------------------------------------
(* The password, and what admins do to an account.                         *)

\* ChangePassword reads the user and compares the old password.
ChangePassword(p) ==
  /\ at(p, "admitted")
  /\ IF user = None THEN Answer(p) ELSE Go(p, "change")
  /\ UNCHANGED <<dbVars, passwords, setUps, confirmed, spent, overlapped>>

\* Everyone under way has been overtaken by what p has written.
UpdatePassword(p) ==
  /\ at(p, "change") /\ passwords < MaxPasswords
  /\ IF user = None THEN Answer(p) /\ UNCHANGED <<user, passwords>>
     ELSE /\ passwords' = passwords + 1
          /\ user' = [user EXCEPT !.pw = passwords']
          /\ h' = [q \in Procs |->
               IF q = p THEN [h[q] EXCEPT !.at = "purge"]
               ELSE IF h[q] = idle THEN idle ELSE [h[q] EXCEPT !.late = TRUE]]
  /\ UNCHANGED <<totp, sessions, tokens, uncounted, setUps, confirmed, spent, overlapped>>

\* Mutant: the sessions are left.
PurgeSessionsNot(p) ==
  /\ at(p, "purge")
  /\ AnswerAndOvertake(p)
  /\ UNCHANGED <<dbVars, passwords, setUps, confirmed, spent, overlapped>>

\* Sessions.DeleteByUserID.
PurgeSessions(p) ==
  /\ at(p, "purge")
  /\ sessions' = [s \in Slots |-> None]
  /\ AnswerAndOvertake(p)
  /\ UNCHANGED <<user, totp, tokens, uncounted, passwords, setUps, confirmed, spent, overlapped>>

MakeLate ==
  sessions' = [s \in Slots |->
    IF sessions[s] = None THEN None ELSE [sessions[s] EXCEPT !.late = TRUE]]

\* handleAdminResetPassword leaves the sessions alone; they count as late.
AdminReset(p) ==
  /\ at(p, "idle") /\ user # None /\ passwords < MaxPasswords
  /\ passwords' = passwords + 1
  /\ user' = [user EXCEPT !.pw = passwords']
  /\ MakeLate
  /\ AnswerAndOvertake(p)
  /\ UNCHANGED <<totp, tokens, uncounted, setUps, confirmed, spent, overlapped>>

\* handleUpdateProfile and handleUpdateUser read the row they write back.
ReadUser(p) ==
  /\ user # None
  /\ \/ at(p, "admitted") /\ GoSeen(p, "profile", user.active)
     \/ at(p, "idle") /\ GoSeen(p, "admin", user.active)
  /\ UNCHANGED <<dbVars, passwords, setUps, confirmed, spent, overlapped>>

\* Users.Update writes all of its columns: those that nobody has asked to
\* change become what they were when they were read.
WriteUser(p, active) ==
  /\ IF user = None THEN Answer(p) /\ UNCHANGED user
     ELSE /\ user' = [user EXCEPT !.active = active]
          /\ IF active THEN Answer(p) ELSE AnswerAndOvertake(p)
  /\ UNCHANGED <<totp, sessions, tokens, uncounted, passwords, setUps, confirmed, spent, overlapped>>

UpdateProfile(p) == at(p, "profile") /\ WriteUser(p, h[p].seen)
\* The admin sets is_active, or something else.
AdminUpdate(p) == at(p, "admin") /\ \E active \in BOOLEAN \cup {h[p].seen} : WriteUser(p, active)

\* handleDeleteUser: what refers to the user is deleted with it.
DeleteUser(p) ==
  /\ at(p, "idle") /\ user # None
  /\ user' = None /\ totp' = None /\ tokens' = 0 /\ sessions' = [s \in Slots |-> None]
  /\ UNCHANGED <<h, uncounted, passwords, setUps, confirmed, spent, overlapped>>

-----------------------------------------------------------------------------
(* The second factor.                                                      *)

\* EnableTOTP makes a secret and backup codes, and looks for a row.
SetUp(p) ==
  /\ at(p, "admitted") /\ setUps < MaxSetUps
  /\ setUps' = setUps + 1
  /\ GoSeen(p, "set up", [secret |-> setUps', row |-> IF totp = None THEN None ELSE totp.row])
  /\ UNCHANGED <<dbVars, passwords, confirmed, spent, overlapped>>

\* Others that read the row before act on another one.
fresh(seen, row) == [row |-> row, secret |-> seen.secret, enabled |-> FALSE, codes |-> Codes]

\* Mutant: the new secret replaces the old, and nothing else.
SaveSecretEnabled(p) ==
  /\ at(p, "set up")
  /\ LET seen == h[p].seen IN
     \/ /\ seen.row # None /\ totp # None /\ totp.row = seen.row
        /\ totp' = [fresh(seen, seen.row) EXCEPT !.enabled = totp.enabled]
        /\ spent' = {}
     \/ /\ seen.row = None /\ totp = None /\ user # None
        /\ totp' = fresh(seen, seen.secret)
        /\ spent' = {}
     \/ UNCHANGED <<totp, spent>>
  /\ Answer(p)
  /\ UNCHANGED <<user, sessions, tokens, uncounted, passwords, setUps, confirmed, overlapped>>

\* TOTP.Update of the row that was found, or TOTP.Create, which fails when
\* there is a row by now, or no user.
SaveSecret(p) ==
  /\ at(p, "set up")
  /\ LET seen == h[p].seen
         updated == seen.row # None /\ totp # None /\ totp.row = seen.row
         created == seen.row = None /\ totp = None /\ user # None
     IN IF updated \/ created
        THEN /\ totp' = fresh(seen, IF updated THEN seen.row ELSE seen.secret)
             /\ spent' = {}
             /\ h' = [q \in Procs |-> IF q = p THEN idle
                        ELSE IF at(q, "verify") THEN [h[q] EXCEPT !.late = TRUE] ELSE h[q]]
        ELSE Answer(p) /\ UNCHANGED <<totp, spent>>
  /\ UNCHANGED <<user, sessions, tokens, uncounted, passwords, setUps, confirmed, overlapped>>

\* VerifyAndEnableTOTP reads the row; the code is that of its secret.
Verify(p) ==
  /\ at(p, "admitted") /\ totp # None
  /\ h' = [h EXCEPT ![p].at = "verify", ![p].late = FALSE]
  /\ confirmed' = confirmed \cup {totp.secret}
  /\ UNCHANGED <<dbVars, passwords, setUps, spent, overlapped>>

\* TOTP.Enable, whatever the secret is by now.
Enable(p) ==
  /\ at(p, "verify")
  /\ IF totp = None THEN UNCHANGED <<totp, confirmed>>
     ELSE /\ totp' = [totp EXCEPT !.enabled = TRUE]
          \* Overtaken by a set-up, it confirms a secret nobody has a code of.
          /\ confirmed' = IF h[p].late THEN confirmed \cup {totp.secret} ELSE confirmed
  /\ Answer(p)
  /\ UNCHANGED <<user, sessions, tokens, uncounted, passwords, setUps, spent, overlapped>>

\* DisableTOTP reads the row, for a code of its secret or a backup code.
AskDisable(p) ==
  /\ at(p, "admitted") /\ totp # None
  /\ Go(p, "disable")
  /\ UNCHANGED <<dbVars, passwords, setUps, confirmed, spent, overlapped>>

Disable(p) ==
  /\ at(p, "disable")
  /\ totp' = None
  /\ Answer(p)
  /\ UNCHANGED <<user, sessions, tokens, uncounted, passwords, setUps, confirmed, spent, overlapped>>

-----------------------------------------------------------------------------
(* API tokens.                                                             *)

\* Mutant: the limit is off by one.
belowLimitLoose(n) == MaxTokens < 0 \/ n <= MaxTokens
belowLimit(n) == MaxTokens < 0 \/ n < MaxTokens

\* handleCreateToken counts the tokens,
CountTokens(p) ==
  /\ at(p, "admitted")
  /\ IF belowLimit(tokens) THEN Go(p, "token") ELSE Answer(p)
  /\ UNCHANGED <<dbVars, passwords, setUps, confirmed, spent, overlapped>>

\* or takes them for none, when the count fails: the error is not looked at.
CountFails(p) ==
  /\ at(p, "admitted")
  /\ IF belowLimit(0) THEN Go(p, "uncounted") ELSE Answer(p)
  /\ UNCHANGED <<dbVars, passwords, setUps, confirmed, spent, overlapped>>

\* handleDeviceAuthorize makes its token whatever the plan says.
AuthorizeDevice(p) ==
  /\ at(p, "admitted")
  /\ Go(p, "uncounted")
  /\ UNCHANGED <<dbVars, passwords, setUps, confirmed, spent, overlapped>>

\* Tokens.Create: without its user the row is refused.
CreateToken(p) ==
  /\ at(p, "token") \/ (at(p, "uncounted") /\ uncounted < MaxUncounted)
  /\ IF user = None THEN UNCHANGED <<tokens, uncounted>>
     ELSE /\ tokens' = tokens + 1
          /\ uncounted' = IF at(p, "uncounted") THEN uncounted + 1 ELSE uncounted
  /\ Answer(p)
  /\ UNCHANGED <<user, totp, sessions, passwords, setUps, confirmed, spent, overlapped>>

DeleteToken(p) ==
  /\ at(p, "admitted") /\ tokens > 0
  /\ tokens' = tokens - 1
  /\ Answer(p)
  /\ UNCHANGED <<user, totp, sessions, uncounted, passwords, setUps, confirmed, spent, overlapped>>

-----------------------------------------------------------------------------
\* The server dies, or a call fails: what was written stays. Sessions that were
\* to be purged are there for good; they count as late.
Abandon(p) ==
  /\ h[p] # idle
  /\ IF at(p, "purge") THEN MakeLate /\ AnswerAndOvertake(p)
     ELSE Answer(p) /\ UNCHANGED sessions
  /\ UNCHANGED <<user, totp, tokens, uncounted, passwords, setUps, confirmed, spent, overlapped>>

SignIn(p) ==
  \/ Login(p) \/ AskTOTP(p) \/ CheckCode(p) \/ SpendBackupCode(p)
  \/ CreateSession(p) \/ RefreshUser(p) \/ Rotate(p)
  \/ \E c \in Codes : CheckBackupCode(p, c)
  \/ \E s \in Slots : Refresh(p, s) \/ Logout(p, s)
Change(p) ==
  \/ ChangePassword(p) \/ UpdatePassword(p) \/ PurgeSessions(p) \/ AdminReset(p)
  \/ ReadUser(p) \/ UpdateProfile(p) \/ AdminUpdate(p) \/ DeleteUser(p)
SecondFactor(p) ==
  \/ SetUp(p) \/ SaveSecret(p) \/ Verify(p) \/ Enable(p) \/ AskDisable(p) \/ Disable(p)
Token(p) ==
  \/ CountTokens(p) \/ CountFails(p) \/ AuthorizeDevice(p)
  \/ CreateToken(p) \/ DeleteToken(p)

Next == \E p \in Procs : Admit(p) \/ SignIn(p) \/ Change(p) \/ SecondFactor(p) \/ Token(p) \/ Abandon(p)

Spec == Init /\ [][Next]_vars

-----------------------------------------------------------------------------

\* "Invalidate all sessions": a session that somebody opened with an older
\* password was being opened, or renewed, until the purge was over, or is
\* about to be deleted; or an admin set the password, or the purge has failed.
OldSessionsEnd ==
  \A s \in Slots : sessions[s] # None /\ user # None /\ sessions[s].pw # user.pw =>
    sessions[s].late \/ \E p \in Procs : at(p, "purge")

\* A second factor in force is one whose secret the user has shown to have (a
\* set-up in the middle of a verification aside): nobody is locked out by a
\* set-up that was not finished.
EnabledIsConfirmed == totp # None /\ totp.enabled => totp.secret \in confirmed

\* A backup code that was taken off the list is not on it again, unless one
\* list was written over another.
CodesAreSpent == totp # None /\ ~overlapped => spent \cap totp.codes = {}

\* The second factor in force is a confirmed one, and a backup code is used
\* once (EnableTOTP, ValidateBackupCode).
SecondFactorHolds == EnabledIsConfirmed /\ CodesAreSpent

\* Requests at the same time may exceed the plan's limit together, by no more
\* than one each, and by the tokens of devices, and of failed counts.
TokensBounded ==
  MaxTokens >= 0 => tokens <= MaxTokens + Cardinality(Procs) - 1 + uncounted

\* A blocked user gets no session, and no token, but from a request that was
\* under way when it was blocked.
BlockedStaysOut ==
  [][ user # None /\ ~user.active =>
        \A p \in Procs : CreateSession(p) \/ CreateToken(p) => h[p].late ]_vars
=============================================================================
