---------------------------- MODULE AccountsProofs ----------------------------
(***************************************************************************)
(* Proofs about Accounts, for any number of requests, sessions, codes and  *)
(* passwords, and any limit of tokens, or none; and about OAuth, for any   *)
(* number of accounts, identities, domains and callbacks.                  *)
(***************************************************************************)
EXTENDS Accounts, OAuth, FiniteSetTheorems, TLAPS

\* A value is None, or a record of these fields.
UserRow == user = None \/ user = [active |-> user.active, pw |-> user.pw]
TotpRow ==
  totp = None \/ totp = [row |-> totp.row, secret |-> totp.secret, enabled |-> totp.enabled, codes |-> totp.codes]
SessionRows ==
  /\ sessions = [s \in Slots |-> sessions[s]]
  /\ \A s \in Slots : sessions[s] = None \/ sessions[s] = [pw |-> sessions[s].pw, late |-> sessions[s].late]
Handlers ==
  /\ h = [p \in Procs |-> h[p]]
  /\ \A p \in Procs : h[p] = [at |-> h[p].at, pw |-> h[p].pw, late |-> h[p].late, seen |-> h[p].seen]
Shapes == UserRow /\ TotpRow /\ SessionRows /\ Handlers

(* What the answers and steps of a handler do to the places.               *)

\* Only p moves, to this place.
MovedTo(p, place) ==
  /\ \A q \in Procs \ {p} : h'[q] = h[q]
  /\ h'[p].at = place /\ h'[p].pw = h[p].pw /\ h'[p].late = h[p].late

LEMMA GoMoves ==
  ASSUME Handlers, NEW p \in Procs, NEW place, Go(p, place)
  PROVE  Handlers' /\ MovedTo(p, place)
  BY DEF Go, Handlers, MovedTo

LEMMA GoSeenMoves ==
  ASSUME Handlers, NEW p \in Procs, NEW place, NEW seen, GoSeen(p, place, seen)
  PROVE  Handlers' /\ MovedTo(p, place)
<1> DEFINE step == [h EXCEPT ![p].at = place]
<1>1. h' = [step EXCEPT ![p].seen = seen]
  BY DEF GoSeen
<1>2. \A q \in Procs :
        step[q] = IF q = p THEN [at |-> place, pw |-> h[p].pw, late |-> h[p].late, seen |-> h[p].seen] ELSE h[q]
  BY DEF Handlers
<1>3. step = [q \in Procs |-> step[q]]
  BY DEF Handlers
<1> HIDE DEF step
<1>4. h' = [q \in Procs |-> h'[q]] /\ \A q \in Procs :
        h'[q] = IF q = p THEN [at |-> place, pw |-> h[p].pw, late |-> h[p].late, seen |-> seen] ELSE h[q]
  BY <1>1, <1>2, <1>3
<1>5. QED
  BY <1>4 DEF Handlers, MovedTo

LEMMA Answered ==
  ASSUME Handlers, NEW p \in Procs, Answer(p)
  PROVE  Handlers' /\ h'[p] = idle /\ \A q \in Procs \ {p} : h'[q] = h[q]
  BY DEF Answer, Handlers, idle

LEMMA Overtook ==
  ASSUME Handlers, NEW p \in Procs, AnswerAndOvertake(p)
  PROVE  /\ Handlers' /\ h'[p] = idle
         /\ \A q \in Procs \ {p} :
              h'[q] = IF h[q] = idle THEN idle
                       ELSE [at |-> h[q].at, pw |-> h[q].pw, late |-> TRUE, seen |-> h[q].seen]
<1>1. ASSUME NEW q \in Procs, ~(q = p \/ h[q] = idle)
      PROVE  h'[q] = [at |-> h[q].at, pw |-> h[q].pw, late |-> TRUE, seen |-> h[q].seen]
  <2>1. h'[q] = [h[q] EXCEPT !.late = TRUE]
    BY <1>1 DEF AnswerAndOvertake
  <2>2. h[q] = [at |-> h[q].at, pw |-> h[q].pw, late |-> h[q].late, seen |-> h[q].seen]
    BY DEF Handlers
  <2>3. QED
    BY <2>1, <2>2
<1>2. ASSUME NEW q \in Procs, q = p \/ h[q] = idle PROVE h'[q] = idle
  BY <1>2 DEF AnswerAndOvertake
<1>3. h' = [q \in Procs |-> h'[q]]
  BY DEF AnswerAndOvertake
<1>4. QED
  BY <1>1, <1>2, <1>3 DEF Handlers, idle

Act(p) == Admit(p) \/ SignIn(p) \/ Change(p) \/ SecondFactor(p) \/ Token(p) \/ Abandon(p)

\* A step of one handler does not move the others, though it may overtake them.
Others(p) ==
  \A q \in Procs \ {p} : h'[q].at = h[q].at /\ h'[q].pw = h[q].pw /\ (h[q].late => h'[q].late)

LEMMA OthersStay ==
  ASSUME Handlers, NEW p \in Procs, Act(p)
  PROVE  Handlers' /\ Others(p)
<1>1. ASSUME NEW place, NEW seen, Go(p, place) \/ GoSeen(p, place, seen) \/ Answer(p) \/ AnswerAndOvertake(p)
      PROVE  Handlers' /\ Others(p)
  <2>1. CASE Go(p, place)
    BY <2>1, GoMoves DEF Others, MovedTo
  <2>2. CASE GoSeen(p, place, seen)
    BY <2>2, GoSeenMoves DEF Others, MovedTo
  <2>3. CASE Answer(p)
    BY <2>3, Answered DEF Others
  <2>4. CASE AnswerAndOvertake(p)
    <3>1. ASSUME NEW q \in Procs, q # p
          PROVE  h'[q] \in {h[q], [at |-> h[q].at, pw |-> h[q].pw, late |-> TRUE, seen |-> h[q].seen]}
      BY <2>4, <3>1, Overtook
    <3>2. Handlers'
      BY <2>4, Overtook
    <3>3. QED
      BY <3>1, <3>2 DEF Others
  <2>5. QED
    BY <1>1, <2>1, <2>2, <2>3, <2>4
<1>2. ASSUME UNCHANGED h PROVE Handlers' /\ Others(p)
  BY <1>2 DEF Others, Handlers
<1>3. CASE Login(p)
  <2> DEFINE step == [h EXCEPT ![p].at = "password"]
  <2>1. step = [q \in Procs |-> step[q]] /\ \A q \in Procs : step[q] =
          IF q = p THEN [at |-> "password", pw |-> h[p].pw, late |-> h[p].late, seen |-> h[p].seen] ELSE h[q]
    BY DEF Handlers
  <2>2. h' = [step EXCEPT ![p].pw = user.pw]
    BY <1>3 DEF Login
  <2> HIDE DEF step
  <2>3. h' = [q \in Procs |-> h'[q]] /\ \A q \in Procs : h'[q] =
          IF q = p THEN [at |-> "password", pw |-> user.pw, late |-> h[p].late, seen |-> h[p].seen] ELSE h[q]
    BY <2>1, <2>2
  <2>4. QED
    BY <2>3 DEF Others, Handlers
<1>4. ASSUME NEW s \in Slots, Refresh(p, s) PROVE Handlers' /\ Others(p)
  <2>1. CASE UNCHANGED h
    BY <1>2, <2>1
  <2>2. CASE h' = [h EXCEPT ![p] = [at |-> "refresh", pw |-> sessions[s].pw, late |-> sessions[s].late, seen |-> s]]
    BY <2>2 DEF Others, Handlers
  <2>3. QED
    BY <1>4, <2>1, <2>2 DEF Refresh
<1>5. CASE Verify(p)
  <2> DEFINE step == [h EXCEPT ![p].at = "verify"]
  <2>1. step = [q \in Procs |-> step[q]] /\ \A q \in Procs : step[q] =
          IF q = p THEN [at |-> "verify", pw |-> h[p].pw, late |-> h[p].late, seen |-> h[p].seen] ELSE h[q]
    BY DEF Handlers
  <2>2. h' = [step EXCEPT ![p].late = FALSE]
    BY <1>5 DEF Verify
  <2> HIDE DEF step
  <2>3. h' = [q \in Procs |-> h'[q]] /\ \A q \in Procs : q # p => h'[q] = h[q]
    BY <2>1, <2>2
  <2>4. h'[p] = [step[p] EXCEPT !.late = FALSE]
    BY <2>1, <2>2
  <2>5. h'[p] = [at |-> h'[p].at, pw |-> h'[p].pw, late |-> h'[p].late, seen |-> h'[p].seen]
    <3>1. step[p] = [at |-> "verify", pw |-> h[p].pw, late |-> h[p].late, seen |-> h[p].seen]
      BY <2>1
    <3>2. QED
      BY <2>4, <3>1
  <2>6. QED
    BY <2>3, <2>5 DEF Others, Handlers
<1>6. ASSUME NEW places, h' = [q \in Procs |-> IF q = p THEN places ELSE IF h[q] = idle THEN idle ELSE [h[q] EXCEPT !.late = TRUE]],
             places = [at |-> places.at, pw |-> places.pw, late |-> places.late, seen |-> places.seen]
      PROVE  Handlers' /\ Others(p)
  <2>1. h' = [q \in Procs |-> h'[q]] /\ h'[p] = places
    BY <1>6
  <2>2. ASSUME NEW q \in Procs, q # p
        PROVE  h'[q] \in {h[q], [at |-> h[q].at, pw |-> h[q].pw, late |-> TRUE, seen |-> h[q].seen]}
    <3>1. h'[q] = h[q] \/ h'[q] = [h[q] EXCEPT !.late = TRUE]
      BY <1>6, <2>2
    <3>2. h[q] = [at |-> h[q].at, pw |-> h[q].pw, late |-> h[q].late, seen |-> h[q].seen]
      BY DEF Handlers
    <3>3. QED
      BY <3>1, <3>2
  <2>3. QED
    BY <1>6, <2>1, <2>2 DEF Others, Handlers
<1>7. CASE UpdatePassword(p)
  <2>1. CASE Answer(p)
    BY <1>1, <2>1
  <2>2. CASE ~Answer(p)
    <3> DEFINE place == [h[p] EXCEPT !.at = "purge"]
    <3>1. place = [at |-> place.at, pw |-> place.pw, late |-> place.late, seen |-> place.seen]
      BY DEF Handlers
    <3>2. h' = [q \in Procs |-> IF q = p THEN place ELSE IF h[q] = idle THEN idle ELSE [h[q] EXCEPT !.late = TRUE]]
      BY <1>7, <2>2 DEF UpdatePassword
    <3> HIDE DEF place
    <3>3. QED
      BY <1>6, <3>1, <3>2
  <2>3. QED
    BY <2>1, <2>2
<1>8. CASE SaveSecret(p)
  <2>1. CASE Answer(p)
    BY <1>1, <2>1
  <2>2. CASE ~Answer(p)
    <3>1. h' = [q \in Procs |-> IF q = p THEN idle
                        ELSE IF at(q, "verify") THEN [h[q] EXCEPT !.late = TRUE] ELSE h[q]]
      BY <1>8, <2>2 DEF SaveSecret
    <3>2. ASSUME NEW q \in Procs, q # p
          PROVE  h'[q] \in {h[q], [at |-> h[q].at, pw |-> h[q].pw, late |-> TRUE, seen |-> h[q].seen]}
      <4>1. h'[q] = h[q] \/ h'[q] = [h[q] EXCEPT !.late = TRUE]
        BY <3>1, <3>2
      <4>2. h[q] = [at |-> h[q].at, pw |-> h[q].pw, late |-> h[q].late, seen |-> h[q].seen]
        BY DEF Handlers
      <4>3. QED
        BY <4>1, <4>2
    <3>3. h' = [q \in Procs |-> h'[q]] /\ h'[p] = idle
      BY <3>1
    <3>4. QED
      BY <3>2, <3>3 DEF Others, Handlers, idle
  <2>3. QED
    BY <2>1, <2>2
<1>9. CASE Admit(p) \/ AskTOTP(p) \/ CheckCode(p) \/ SpendBackupCode(p) \/ CreateSession(p)
         \/ RefreshUser(p) \/ Rotate(p)
  BY <1>1, <1>9, Zenon DEF Admit, AskTOTP, CheckCode, SpendBackupCode, CreateSession, RefreshUser, Rotate
<1>10. CASE ChangePassword(p) \/ PurgeSessions(p) \/ AdminReset(p) \/ ReadUser(p) \/ UpdateProfile(p)
         \/ AdminUpdate(p)
  BY <1>1, <1>10, Zenon DEF ChangePassword, PurgeSessions, AdminReset, ReadUser, UpdateProfile, AdminUpdate,
       WriteUser
<1>11. CASE SetUp(p) \/ Enable(p) \/ AskDisable(p) \/ Disable(p) \/ CountTokens(p) \/ CountFails(p)
         \/ AuthorizeDevice(p) \/ CreateToken(p) \/ DeleteToken(p) \/ Abandon(p)
  BY <1>1, <1>11, Zenon DEF SetUp, Enable, AskDisable, Disable, CountTokens, CountFails, AuthorizeDevice,
       CreateToken, DeleteToken, Abandon
<1>12. CASE DeleteUser(p)
  BY <1>2, <1>12 DEF DeleteUser
<1>13. ASSUME NEW c \in Codes, CheckBackupCode(p, c) PROVE Handlers' /\ Others(p)
  BY <1>1, <1>13 DEF CheckBackupCode
<1>14. ASSUME NEW s \in Slots, Logout(p, s) PROVE Handlers' /\ Others(p)
  BY <1>1, <1>14 DEF Logout
<1>15. QED
  BY <1>3, <1>4, <1>5, <1>7, <1>8, <1>9, <1>10, <1>11, <1>12, <1>13, <1>14, Zenon
     DEF Act, SignIn, Change, SecondFactor, Token

\* Where a handler can come to, and from where: signing in starts with the
\* password that is stored, or with a session that is renewed.
signing == {"password", "code", "spend", "create", "rotate"}
Came(p) ==
  /\ h'[p].at = "verify" => Verify(p)
  /\ h'[p].at = "token" => CountTokens(p)
  /\ h'[p].at = "uncounted" => CountFails(p) \/ AuthorizeDevice(p)
  /\ h'[p].at = "admitted" => isActive
  /\ h'[p].at = "refresh" => \E s \in Slots : Refresh(p, s)
  /\ h'[p].at \in signing =>
       \/ isActive /\ h'[p].pw = user.pw
       \/ /\ h[p].at \in signing \/ (h[p].at = "refresh" /\ isActive)
          /\ h'[p].pw = h[p].pw /\ h'[p].late = h[p].late

LEMMA Places ==
  ASSUME Handlers, NEW p \in Procs, Act(p), ~UNCHANGED h
  PROVE  Came(p)
<1> USE DEF Came, signing, at
<1>1. ASSUME Answer(p) \/ AnswerAndOvertake(p) PROVE Came(p)
  <2>1. h'[p] = idle
    BY <1>1, Answered, Overtook
  <2>2. QED
    BY <2>1 DEF idle
<1>2. CASE Admit(p)
  <2>1. h'[p].at = "admitted" /\ isActive
    BY <1>2, GoMoves DEF Admit, MovedTo
  <2>2. QED
    BY <2>1
<1>3. CASE Login(p)
  <2>1. isActive /\ h'[p] = [[h[p] EXCEPT !.at = "password"] EXCEPT !.pw = user.pw]
    BY <1>3 DEF Login, Handlers
  <2>2. h'[p].at = "password" /\ h'[p].pw = user.pw
    BY <2>1 DEF Handlers
  <2>3. QED
    BY <2>1, <2>2
<1>4. CASE AskTOTP(p) \/ CheckCode(p) \/ Rotate(p) \/ SpendBackupCode(p) \/ \E c \in Codes : CheckBackupCode(p, c)
  <2>1. CASE Answer(p)
    BY <1>1, <2>1
  <2>2. CASE ~Answer(p)
    <3>1. h[p].at \in signing
      BY <1>4 DEF AskTOTP, CheckCode, Rotate, SpendBackupCode, CheckBackupCode
    <3>2. \/ Go(p, "code") \/ Go(p, "create") \/ GoSeen(p, "create", None)
          \/ \E seen : GoSeen(p, "spend", seen)
      BY <1>4, <2>2 DEF AskTOTP, CheckCode, Rotate, SpendBackupCode, CheckBackupCode
    <3>3. \E place \in {"code", "create", "spend"} : MovedTo(p, place)
      BY <3>2, GoMoves, GoSeenMoves
    <3>4. h'[p].at \in {"code", "create", "spend"} /\ h'[p].pw = h[p].pw /\ h'[p].late = h[p].late
      BY <3>3, Zenon DEF MovedTo
    <3>5. QED
      BY <3>1, <3>4
  <2>3. QED
    BY <2>1, <2>2
<1>5. CASE RefreshUser(p)
  <2>1. CASE Answer(p)
    BY <1>1, <2>1
  <2>2. CASE ~Answer(p)
    <3>1. h[p].at = "refresh" /\ isActive /\ Go(p, "rotate")
      BY <1>5, <2>2 DEF RefreshUser
    <3>2. QED
      BY <3>1, GoMoves DEF MovedTo
  <2>3. QED
    BY <2>1, <2>2
<1>6. ASSUME NEW s \in Slots, Refresh(p, s) PROVE Came(p)
  <2>1. h'[p].at = "refresh"
    BY <1>6 DEF Refresh, Handlers
  <2>2. QED
    BY <1>6, <2>1
<1>7. ASSUME NEW place, NEW seen, place \in {"change", "profile", "admin", "set up", "disable", "purge"},
             Go(p, place) \/ GoSeen(p, place, seen)
      PROVE  Came(p)
  <2>1. h'[p].at = place
    BY <1>7, GoMoves, GoSeenMoves DEF MovedTo
  <2>2. QED
    BY <1>7, <2>1
<1>8. CASE ChangePassword(p)
  BY <1>1, <1>7, <1>8 DEF ChangePassword
<1>9. CASE ReadUser(p)
  <2>1. PICK place \in {"profile", "admin"} : GoSeen(p, place, user.active)
    BY <1>9 DEF ReadUser
  <2>2. MovedTo(p, place)
    BY <2>1, GoSeenMoves
  <2>3. h'[p].at \in {"profile", "admin"}
    BY <2>2 DEF MovedTo
  <2>4. QED
    BY <2>3
<1>10. CASE SetUp(p)
  <2>1. PICK seen : GoSeen(p, "set up", seen)
    BY <1>10 DEF SetUp
  <2>2. h'[p].at = "set up"
    BY <2>1, GoSeenMoves DEF MovedTo
  <2>3. QED
    BY <2>2
<1>11. CASE AskDisable(p)
  BY <1>7, <1>11 DEF AskDisable
<1>12. CASE UpdatePassword(p)
  <2>1. CASE Answer(p)
    BY <1>1, <2>1
  <2>2. CASE ~Answer(p)
    <3>1. h'[p] = [h[p] EXCEPT !.at = "purge"]
      BY <1>12, <2>2 DEF UpdatePassword
    <3>2. h'[p].at = "purge"
      BY <3>1 DEF Handlers
    <3>3. QED
      BY <3>2
  <2>3. QED
    BY <2>1, <2>2
<1>13. CASE SaveSecret(p)
  <2>1. CASE Answer(p)
    BY <1>1, <2>1
  <2>2. CASE ~Answer(p)
    <3>1. h'[p] = idle
      BY <1>13, <2>2 DEF SaveSecret
    <3>2. QED
      BY <3>1 DEF idle
  <2>3. QED
    BY <2>1, <2>2
<1>14. CASE Verify(p)
  <2>1. h'[p].at = "verify"
    BY <1>14 DEF Verify, Handlers
  <2>2. QED
    BY <1>14, <2>1
<1>15. CASE CountTokens(p)
  <2>1. CASE Answer(p)
    BY <1>1, <2>1
  <2>2. CASE ~Answer(p)
    <3>1. h'[p].at = "token"
      BY <1>15, <2>2, GoMoves DEF CountTokens, MovedTo
    <3>2. QED
      BY <1>15, <3>1
  <2>3. QED
    BY <2>1, <2>2
<1>19. CASE CountFails(p) \/ AuthorizeDevice(p)
  <2>1. CASE Answer(p)
    BY <1>1, <2>1
  <2>2. CASE ~Answer(p)
    <3>1. Go(p, "uncounted")
      BY <1>19, <2>2 DEF CountFails, AuthorizeDevice
    <3>2. h'[p].at = "uncounted"
      BY <3>1, GoMoves DEF MovedTo
    <3>3. QED
      BY <1>19, <3>2
  <2>3. QED
    BY <2>1, <2>2
<1>16. CASE CreateSession(p) \/ PurgeSessions(p) \/ AdminReset(p) \/ UpdateProfile(p) \/ AdminUpdate(p) \/ Enable(p)
         \/ Disable(p) \/ CreateToken(p) \/ DeleteToken(p) \/ Abandon(p) \/ \E s \in Slots : Logout(p, s)
  <2>1. Answer(p) \/ AnswerAndOvertake(p)
    BY <1>16, Zenon DEF CreateSession, PurgeSessions, AdminReset, UpdateProfile, AdminUpdate, WriteUser,
         Enable, Disable,
       CreateToken, DeleteToken, Abandon, Logout
  <2>2. QED
    BY <1>1, <2>1
<1>17. CASE DeleteUser(p)
  BY <1>17 DEF DeleteUser
<1>18. QED
  BY <1>2, <1>3, <1>4, <1>5, <1>6, <1>8, <1>9, <1>10, <1>11, <1>12, <1>13, <1>14, <1>15, <1>16, <1>17, <1>19, Zenon
     DEF Act, SignIn, Change, SecondFactor, Token

LEMMA RowsStep ==
  ASSUME Shapes, NEW p \in Procs, Act(p)
  PROVE  UserRow' /\ TotpRow'
<1> USE DEF Shapes, UserRow, TotpRow
<1>1. CASE UNCHANGED <<user, totp>>
  BY <1>1
<1>2. CASE SpendBackupCode(p) \/ Enable(p)
  BY <1>2 DEF SpendBackupCode, Enable
<1>3. CASE UpdatePassword(p) \/ AdminReset(p)
  BY <1>3 DEF UpdatePassword, AdminReset
<1>4. ASSUME NEW active, WriteUser(p, active) PROVE UserRow' /\ TotpRow'
  BY <1>4 DEF WriteUser
<1>5. CASE DeleteUser(p) \/ Disable(p)
  BY <1>5 DEF DeleteUser, Disable
<1>6. CASE SaveSecret(p)
  <2>1. CASE UNCHANGED totp
    BY <1>6, <2>1 DEF SaveSecret
  <2>2. CASE ~UNCHANGED totp
    <3>1. UNCHANGED user /\ \E row : totp' = fresh(h[p].seen, row)
      BY <1>6, <2>2, Zenon DEF SaveSecret
    <3>2. QED
      BY <3>1 DEF fresh
  <2>3. QED
    BY <2>1, <2>2
<1>7. QED
  BY <1>1, <1>2, <1>3, <1>4, <1>5, <1>6, Zenon
     DEF Act, SignIn, Change, SecondFactor, Token, dbVars, Admit, Login, AskTOTP, CheckCode, CheckBackupCode,
         CreateSession, Refresh, RefreshUser, Rotate, Logout, ChangePassword, PurgeSessions, ReadUser,
         UpdateProfile,
         AdminUpdate, SetUp, Verify, AskDisable, CountTokens, CountFails, AuthorizeDevice, CreateToken,
         DeleteToken, Abandon

-----------------------------------------------------------------------------
(* The second factor.                                                      *)

\* Who has given a code of the secret has confirmed it, unless a set-up has
\* overtaken the verification.
Verifying ==
  \A p \in Procs : at(p, "verify") /\ ~h[p].late /\ totp # None => totp.secret \in confirmed
FactorInv == Verifying /\ SecondFactorHolds

LEMMA FactorStep ==
  ASSUME Shapes, Handlers', FactorInv, NEW p \in Procs, Act(p)
  PROVE  FactorInv'
<1> DEFINE same == UNCHANGED <<totp, confirmed, spent, overlapped>>
<1>1. Others(p) /\ Handlers
  BY OthersStay DEF Shapes
<1>2. ASSUME same, h'[p].at # "verify" PROVE FactorInv'
  BY <1>1, <1>2 DEF FactorInv, Verifying, SecondFactorHolds, EnabledIsConfirmed, CodesAreSpent, at, Others
<1>3. CASE DeleteUser(p)
  BY <1>3 DEF DeleteUser, FactorInv, Verifying, SecondFactorHolds, EnabledIsConfirmed, CodesAreSpent
<1>4. CASE SpendBackupCode(p)
  <2>1. h'[p].at # "verify"
    BY <1>1, <1>4, GoSeenMoves DEF SpendBackupCode, MovedTo
  <2>2. CASE UNCHANGED <<totp, spent, overlapped>>
    BY <1>2, <1>4, <2>1, <2>2 DEF SpendBackupCode
  <2>3. CASE ~UNCHANGED <<totp, spent, overlapped>>
    <3> DEFINE seen == h[p].seen
    <3>1. /\ totp # None /\ totp' = [totp EXCEPT !.codes = Remaining(seen.code, seen.codes)]
          /\ spent' = spent \cup {seen.code} /\ overlapped' = (overlapped \/ totp.codes # seen.codes)
          /\ confirmed' = confirmed
      BY <1>4, <2>3 DEF SpendBackupCode
    <3>2. totp'.secret = totp.secret /\ totp'.enabled = totp.enabled
          /\ totp'.codes = Remaining(seen.code, seen.codes)
      BY <3>1 DEF Shapes, TotpRow
    <3>3. Verifying' /\ EnabledIsConfirmed'
      BY <1>1, <2>1, <3>1, <3>2 DEF FactorInv, Verifying, SecondFactorHolds, EnabledIsConfirmed, at, Others
    <3>4. ~overlapped' => ~overlapped /\ totp.codes = seen.codes
      BY <3>1, Zenon
    <3>5. CodesAreSpent'
      BY <3>1, <3>2, <3>4 DEF FactorInv, SecondFactorHolds, CodesAreSpent, Remaining
    <3>6. QED
      BY <3>3, <3>5 DEF FactorInv, SecondFactorHolds
  <2>4. QED
    BY <2>2, <2>3
<1>5. CASE SaveSecret(p)
  <2>1. CASE Answer(p) /\ UNCHANGED <<totp, spent>>
    <3>1. h'[p].at # "verify"
      BY <1>1, <2>1, Answered DEF idle
    <3>2. QED
      BY <1>2, <1>5, <2>1, <3>1 DEF SaveSecret
  <2>2. CASE ~(Answer(p) /\ UNCHANGED <<totp, spent>>)
    <3>1. /\ \E row : totp' = fresh(h[p].seen, row)
          /\ spent' = {} /\ confirmed' = confirmed
          /\ h' = [q \in Procs |-> IF q = p THEN idle
                        ELSE IF at(q, "verify") THEN [h[q] EXCEPT !.late = TRUE] ELSE h[q]]
      BY <1>5, <2>2 DEF SaveSecret
    <3>2. ~totp'.enabled
      BY <3>1 DEF fresh
    <3>3. \A q \in Procs : h'[q].at = "verify" => h'[q].late
      <4> SUFFICES ASSUME NEW q \in Procs, h'[q].at = "verify" PROVE h'[q].late
        OBVIOUS
      <4>1. q # p
        BY <3>1 DEF idle
      <4>2. h[q].at = "verify"
        BY <3>1, <4>1 DEF at
      <4>3. h'[q] = [h[q] EXCEPT !.late = TRUE] /\ "late" \in DOMAIN h[q]
        BY <1>1, <3>1, <4>1, <4>2 DEF at, Handlers
      <4>4. QED
        BY <4>3
    <3>4. QED
      BY <3>1, <3>2, <3>3 DEF FactorInv, Verifying, SecondFactorHolds, EnabledIsConfirmed, CodesAreSpent, at
  <2>3. QED
    BY <2>1, <2>2
<1>6. CASE Verify(p)
  <2>1. confirmed' = confirmed \cup {totp.secret} /\ UNCHANGED <<totp, spent, overlapped>>
    BY <1>6 DEF Verify, dbVars
  <2>2. QED
    BY <2>1 DEF FactorInv, Verifying, SecondFactorHolds, EnabledIsConfirmed, CodesAreSpent, at
<1>7. CASE Enable(p)
  <2>1. h'[p].at # "verify"
    BY <1>1, <1>7, Answered DEF Enable, idle
  <2>2. CASE totp = None
    BY <1>2, <1>7, <2>1, <2>2 DEF Enable
  <2>3. CASE totp # None
    <3>1. /\ totp' = [totp EXCEPT !.enabled = TRUE] /\ UNCHANGED <<spent, overlapped>>
          /\ confirmed' = IF h[p].late THEN confirmed \cup {totp.secret} ELSE confirmed
      BY <1>7, <2>3 DEF Enable
    <3>2. totp'.secret = totp.secret /\ totp'.codes = totp.codes
      BY <2>3, <3>1 DEF Shapes, TotpRow
    <3>3. totp.secret \in confirmed' /\ confirmed \subseteq confirmed'
      BY <1>7, <2>3, <3>1 DEF FactorInv, Verifying, Enable
    <3>4. EnabledIsConfirmed' /\ CodesAreSpent'
      BY <2>3, <3>1, <3>2, <3>3 DEF FactorInv, SecondFactorHolds, EnabledIsConfirmed, CodesAreSpent
    <3>5. Verifying'
      BY <3>2, <3>3 DEF Verifying
    <3>6. QED
      BY <3>4, <3>5 DEF FactorInv, SecondFactorHolds
  <2>4. QED
    BY <2>2, <2>3
<1>8. CASE Disable(p)
  BY <1>8 DEF Disable, FactorInv, Verifying, SecondFactorHolds, EnabledIsConfirmed, CodesAreSpent
<1>9. CASE UNCHANGED h /\ same
  BY <1>9 DEF FactorInv, Verifying, SecondFactorHolds, EnabledIsConfirmed, CodesAreSpent, at
<1>10. CASE ~UNCHANGED h /\ same /\ ~Verify(p)
  BY <1>2, <1>10, Places DEF Came, Shapes
<1>11. same \/ DeleteUser(p) \/ SpendBackupCode(p) \/ SaveSecret(p) \/ Verify(p) \/ Enable(p) \/ Disable(p)
  BY Zenon
     DEF Act, SignIn, Change, SecondFactor, Token, dbVars, Admit, Login, AskTOTP, CheckCode, CheckBackupCode,
         CreateSession, Refresh, RefreshUser, Rotate, Logout, ChangePassword, UpdatePassword, PurgeSessions,
         AdminReset,
         ReadUser, UpdateProfile, AdminUpdate, WriteUser, SetUp, AskDisable, CountTokens, CountFails,
         AuthorizeDevice, CreateToken, DeleteToken,
         Abandon
<1>12. QED
  BY <1>3, <1>4, <1>5, <1>6, <1>7, <1>8, <1>9, <1>10, <1>11

LEMMA SessionsStep ==
  ASSUME Shapes, NEW p \in Procs, Act(p)
  PROVE  SessionRows'
<1> USE DEF Shapes, SessionRows
<1>1. CASE UNCHANGED sessions
  BY <1>1
<1>2. ASSUME NEW s \in Slots, sessions' = [sessions EXCEPT ![s] = None] PROVE SessionRows'
  BY <1>2
<1>3. CASE sessions' = [s \in Slots |-> None]
  BY <1>3
<1>4. CASE MakeLate
  BY <1>4 DEF MakeLate
<1>5. CASE CreateSession(p)
  <2>1. CASE UNCHANGED sessions
    BY <2>1
  <2>2. CASE ~UNCHANGED sessions
    <3>1. PICK s \in Slots : sessions' = [sessions EXCEPT ![s] = [pw |-> h[p].pw, late |-> h[p].late]]
      BY <1>5, <2>2 DEF CreateSession
    <3>2. QED
      BY <3>1
  <2>3. QED
    BY <2>1, <2>2
<1>6. CASE Rotate(p)
  <2>1. sessions' = sessions \/ sessions' = [sessions EXCEPT ![h[p].seen] = None]
    BY <1>6 DEF Rotate
  <2>2. QED
    BY <2>1
<1>7. QED
  BY <1>1, <1>2, <1>3, <1>4, <1>5, <1>6, Zenon
     DEF Act, SignIn, Change, SecondFactor, Token, dbVars, Admit, Login, AskTOTP, CheckCode, CheckBackupCode,
         SpendBackupCode, Refresh, RefreshUser, Logout, ChangePassword, UpdatePassword, PurgeSessions, AdminReset,
         ReadUser, UpdateProfile, AdminUpdate, WriteUser, DeleteUser, SetUp, SaveSecret, Verify, Enable, AskDisable,
         Disable, CountTokens, CountFails, AuthorizeDevice, CreateToken, DeleteToken, Abandon

LEMMA ShapesInit == Init => Shapes
<1> SUFFICES ASSUME Init PROVE Shapes
  OBVIOUS
<1>1. user = [active |-> TRUE, pw |-> 1] /\ totp = None
  BY DEF Init
<1>2. user.active = TRUE /\ user.pw = 1
  BY <1>1
<1>3. UserRow /\ TotpRow
  BY <1>1, <1>2 DEF UserRow, TotpRow
<1>4. SessionRows /\ Handlers
  BY DEF Init, SessionRows, Handlers, idle
<1>5. QED
  BY <1>3, <1>4 DEF Shapes

LEMMA ShapesStep ==
  ASSUME Shapes, NEW p \in Procs, Act(p)
  PROVE  Shapes'
<1>1. Handlers'
  BY OthersStay DEF Shapes
<1>2. QED
  BY <1>1, RowsStep, SessionsStep DEF Shapes

-----------------------------------------------------------------------------
(* The password. Whoever signs in with an older one is late, or the purge is *)
(* still to come.                                                          *)

purging == \E q \in Procs : at(q, "purge")
Current ==
  user # None => \A p \in Procs :
    h[p].at \in signing \cup {"refresh"} => h[p].pw = user.pw \/ h[p].late \/ purging
PasswordInv == Current /\ OldSessionsEnd

\* When the purge is over, everybody who was there has been overtaken.
AllLate == \A q \in Procs : h'[q].at \in signing \cup {"refresh"} => h'[q].late

LEMMA OvertakenLate ==
  ASSUME Handlers, NEW p \in Procs, AnswerAndOvertake(p)
  PROVE  AllLate
<1> SUFFICES ASSUME NEW q \in Procs, h'[q].at \in signing \cup {"refresh"} PROVE h'[q].late
  BY DEF AllLate
<1>1. q # p /\ h[q] # idle
  <2>1. h'[q] # idle
    BY DEF idle, signing
  <2>2. QED
    BY <2>1, Overtook
<1>2. h'[q] = [at |-> h[q].at, pw |-> h[q].pw, late |-> TRUE, seen |-> h[q].seen]
  BY <1>1, Overtook
<1>3. QED
  BY <1>2

\* Sessions that are all late, or gone.
NoneFresh == \A s \in Slots : sessions'[s] = None \/ sessions'[s].late

LEMMA LateSessions ==
  ASSUME SessionRows, MakeLate
  PROVE  NoneFresh
<1> SUFFICES ASSUME NEW s \in Slots, sessions'[s] # None PROVE sessions'[s].late
  BY DEF NoneFresh
<1>1. sessions[s] # None
  BY DEF MakeLate
<1>2. sessions'[s] = [sessions[s] EXCEPT !.late = TRUE]
  BY <1>1 DEF MakeLate
<1>3. QED
  BY <1>1, <1>2 DEF SessionRows

LEMMA PasswordStep ==
  ASSUME Shapes, PasswordInv, NEW p \in Procs, Act(p)
  PROVE  PasswordInv'
<1>1. Others(p) /\ Handlers
  BY OthersStay DEF Shapes
<1>2. ASSUME AllLate, NoneFresh PROVE PasswordInv'
  BY <1>2 DEF AllLate, NoneFresh, PasswordInv, Current, OldSessionsEnd
<1>3. CASE PurgeSessions(p)
  <2>1. NoneFresh
    BY <1>3 DEF PurgeSessions, NoneFresh
  <2>2. QED
    BY <1>1, <1>2, <1>3, <2>1, OvertakenLate DEF PurgeSessions
<1>4. CASE AdminReset(p)
  BY <1>1, <1>2, <1>4, LateSessions, OvertakenLate DEF AdminReset, Shapes
<1>5. CASE Abandon(p) /\ at(p, "purge")
  BY <1>1, <1>2, <1>5, LateSessions, OvertakenLate DEF Abandon, Shapes
<1>6. CASE UpdatePassword(p) /\ user # None
  <2>1. h'[p] = [h[p] EXCEPT !.at = "purge"]
    BY <1>6 DEF UpdatePassword
  <2>2. h'[p].at = "purge"
    BY <1>1, <2>1 DEF Handlers
  <2>3. purging'
    BY <2>2 DEF purging, at
  <2>4. QED
    BY <2>3 DEF PasswordInv, Current, OldSessionsEnd, purging
<1>7. CASE DeleteUser(p)
  BY <1>7 DEF DeleteUser, PasswordInv, Current, OldSessionsEnd
\* The others leave the password, and the purges that go on.
<1> DEFINE other == ~(PurgeSessions(p) \/ AdminReset(p) \/ (Abandon(p) /\ at(p, "purge"))
                       \/ (UpdatePassword(p) /\ user # None) \/ DeleteUser(p))
<1>8. ASSUME other
      PROVE  user' # None => user # None /\ user'.pw = user.pw
  <2>1. CASE user' = user
    BY <2>1
  <2>2. ASSUME NEW active, WriteUser(p, active) PROVE user' # None => user # None /\ user'.pw = user.pw
    BY <2>2 DEF WriteUser, Shapes, UserRow
  <2>3. QED
    BY <1>8, <2>1, <2>2, Zenon
       DEF Act, SignIn, Change, SecondFactor, Token, dbVars, Admit, Login, AskTOTP, CheckCode, CheckBackupCode,
         SpendBackupCode, CreateSession, Refresh, RefreshUser, Rotate, Logout, ChangePassword, UpdatePassword,
         ReadUser, UpdateProfile, AdminUpdate, SetUp, SaveSecret, Verify, Enable, AskDisable,
         Disable, CountTokens, CountFails, AuthorizeDevice, CreateToken, DeleteToken, Abandon
<1>9. ASSUME other
      PROVE  purging => purging'
  <2>1. UNCHANGED h \/ ~at(p, "purge")
    BY <1>9 DEF Act, SignIn, Change, SecondFactor, Token, dbVars, Admit, Login, AskTOTP, CheckCode, CheckBackupCode,
         SpendBackupCode, CreateSession, Refresh, RefreshUser, Rotate, Logout, ChangePassword, UpdatePassword,
         ReadUser, UpdateProfile, AdminUpdate, SetUp, SaveSecret, Verify, Enable, AskDisable,
         Disable, CountTokens, CountFails, AuthorizeDevice, CreateToken, DeleteToken, Abandon, at
  <2>2. QED
    BY <1>1, <2>1 DEF purging, at, Others
<1>10. ASSUME other
       PROVE  Current'
  <2> SUFFICES ASSUME user' # None, NEW q \in Procs, h'[q].at \in signing \cup {"refresh"}
               PROVE  h'[q].pw = user'.pw \/ h'[q].late \/ purging'
    BY DEF Current
  <2>1. user # None /\ user'.pw = user.pw
    BY <1>8, <1>10
  <2>2. CASE q # p \/ UNCHANGED h
    <3>1. h'[q].at = h[q].at /\ h'[q].pw = h[q].pw /\ (h[q].late => h'[q].late)
      BY <1>1, <2>2 DEF Others
    <3>2. h[q].pw = user.pw \/ h[q].late \/ purging
      BY <2>1, <3>1 DEF PasswordInv, Current
    <3>3. QED
      BY <1>9, <1>10, <2>1, <3>1, <3>2
  <2>3. CASE q = p /\ ~UNCHANGED h
    <3>1. Came(p)
      BY <1>1, <2>3, Places
    <3>2. CASE h'[p].at = "refresh"
      <4>1. PICK s \in Slots : Refresh(p, s)
        BY <3>1, <3>2 DEF Came
      <4>2. sessions[s] # None /\ h'[p] = [at |-> "refresh", pw |-> sessions[s].pw, late |-> sessions[s].late,
                                               seen |-> s]
        BY <2>3, <4>1 DEF Refresh, Shapes, Handlers
      <4>3. sessions[s].pw = user.pw \/ sessions[s].late \/ purging
        BY <2>1, <4>2 DEF PasswordInv, OldSessionsEnd, purging
      <4>4. h'[p].pw = sessions[s].pw /\ h'[p].late = sessions[s].late
        BY <4>2
      <4>5. QED
        BY <1>9, <1>10, <2>1, <2>3, <4>3, <4>4
    <3>3. CASE h'[p].at \in signing
      <4>1. CASE h'[p].pw = user.pw
        BY <2>1, <2>3, <4>1
      <4>2. CASE h'[p].pw # user.pw
        <5>1. h[p].at \in signing \cup {"refresh"} /\ h'[p].pw = h[p].pw /\ h'[p].late = h[p].late
          BY <3>1, <3>3, <4>2 DEF Came
        <5>2. h[p].pw = user.pw \/ h[p].late \/ purging
          BY <2>1, <5>1 DEF PasswordInv, Current
        <5>3. QED
          BY <1>9, <1>10, <2>1, <2>3, <5>1, <5>2
      <4>3. QED
        BY <4>1, <4>2
    <3>4. QED
      BY <2>3, <3>2, <3>3
  <2>4. QED
    BY <2>2, <2>3
<1>11. ASSUME other
       PROVE  OldSessionsEnd'
  <2> SUFFICES ASSUME NEW s \in Slots, sessions'[s] # None, user' # None, sessions'[s].pw # user'.pw
               PROVE  sessions'[s].late \/ purging'
    BY DEF OldSessionsEnd, purging
  <2>1. user # None /\ user'.pw = user.pw
    BY <1>8, <1>11
  <2>2. CASE sessions'[s] = sessions[s]
    <3>1. sessions[s].late \/ purging
      BY <2>1, <2>2 DEF PasswordInv, OldSessionsEnd, purging
    <3>2. QED
      BY <1>9, <1>11, <2>2, <3>1
  <2>3. CASE sessions'[s] # sessions[s]
    <3>1. CreateSession(p)
      <4>1. ASSUME NEW x, sessions' = [sessions EXCEPT ![x] = None] PROVE FALSE
        BY <2>3, <4>1 DEF Shapes, SessionRows
      <4>2. ~UNCHANGED sessions
        BY <2>3
      <4>3. ASSUME Rotate(p) PROVE FALSE
        BY <4>1, <4>2, <4>3 DEF Rotate
      <4>4. QED
        BY <1>11, <4>1, <4>2, <4>3, Zenon
           DEF Act, SignIn, Change, SecondFactor, Token, dbVars, Admit, Login, AskTOTP, CheckCode, CheckBackupCode,
             SpendBackupCode, Refresh, RefreshUser, Logout, ChangePassword, UpdatePassword,
             ReadUser, UpdateProfile, AdminUpdate, WriteUser, SetUp, SaveSecret, Verify, Enable, AskDisable,
             Disable, CountTokens, CountFails, AuthorizeDevice, CreateToken, DeleteToken, Abandon
    <3>2. h[p].at = "create" /\ sessions'[s] = [pw |-> h[p].pw, late |-> h[p].late]
      BY <2>3, <3>1 DEF CreateSession, at, Shapes, SessionRows
    <3>3. h[p].pw = user.pw \/ h[p].late \/ purging
      BY <2>1, <3>2 DEF PasswordInv, Current, signing
    <3>4. sessions'[s].pw = h[p].pw /\ sessions'[s].late = h[p].late
      BY <3>2
    <3>5. QED
      BY <1>9, <1>11, <2>1, <3>3, <3>4
  <2>4. QED
    BY <2>2, <2>3
<1>12. QED
  BY <1>3, <1>4, <1>5, <1>6, <1>7, <1>10, <1>11 DEF PasswordInv

-----------------------------------------------------------------------------
(* Blocked users. Whoever may still get something was there before.        *)

granted == signing \cup {"admitted", "token", "uncounted"}
BlockedInv == user # None /\ ~user.active => \A p \in Procs : h[p].at \in granted => h[p].late

LEMMA BlockedStep ==
  ASSUME Shapes, BlockedInv, NEW p \in Procs, Act(p)
  PROVE  BlockedInv'
<1>1. Others(p) /\ Handlers
  BY OthersStay DEF Shapes
<1>2. ASSUME user' # None /\ ~user'.active => user # None /\ ~user.active
      PROVE  BlockedInv'
  <2> SUFFICES ASSUME user # None, ~user.active, NEW q \in Procs, h'[q].at \in granted
               PROVE  h'[q].late
    BY <1>2 DEF BlockedInv
  <2>1. CASE q # p \/ UNCHANGED h
    <3>1. h'[q].at = h[q].at /\ (h[q].late => h'[q].late)
      BY <1>1, <2>1 DEF Others
    <3>2. QED
      BY <3>1 DEF BlockedInv
  <2>2. CASE q = p /\ ~UNCHANGED h
    <3>1. Came(p) /\ ~isActive
      BY <1>1, <2>2, Places DEF isActive
    <3>2. h'[p].at # "admitted"
      BY <3>1 DEF Came
    <3>3. CASE h'[p].at = "token"
      <4>1. CountTokens(p)
        BY <3>1, <3>3 DEF Came
      <4>2. h[p].at = "admitted" /\ Go(p, "token")
        BY <1>1, <3>3, <4>1, Answered DEF CountTokens, at, idle
      <4>3. h'[p].late = h[p].late
        BY <1>1, <4>2, GoMoves DEF MovedTo
      <4>4. QED
        BY <2>2, <4>2, <4>3 DEF BlockedInv, granted
    <3>4. CASE h'[p].at \in signing
      <4>1. h[p].at \in signing /\ h'[p].late = h[p].late
        BY <3>1, <3>4 DEF Came
      <4>2. QED
        BY <2>2, <4>1 DEF BlockedInv, granted
    <3>5. CASE h'[p].at = "uncounted"
      <4>1. CountFails(p) \/ AuthorizeDevice(p)
        BY <3>1, <3>5 DEF Came
      <4>2. ~Answer(p)
        BY <1>1, <3>5, Answered DEF idle
      <4>3. h[p].at = "admitted" /\ Go(p, "uncounted")
        BY <4>1, <4>2 DEF CountFails, AuthorizeDevice, at
      <4>4. h'[p].late = h[p].late
        BY <1>1, <4>3, GoMoves DEF MovedTo
      <4>5. QED
        BY <2>2, <4>3, <4>4 DEF BlockedInv, granted
    <3>6. QED
      BY <2>2, <3>2, <3>3, <3>4, <3>5 DEF granted
  <2>3. QED
    BY <2>1, <2>2
<1>3. ASSUME NEW active, WriteUser(p, active) PROVE BlockedInv'
  <2>1. CASE user = None \/ active
    <3>1. user' # None /\ ~user'.active => user # None /\ ~user.active
      BY <1>3, <2>1 DEF WriteUser, Shapes, UserRow
    <3>2. QED
      BY <1>2, <3>1
  <2>2. CASE user # None /\ ~active
    <3>1. AnswerAndOvertake(p)
      BY <1>3, <2>2 DEF WriteUser
    <3>2. ASSUME NEW q \in Procs, h'[q].at \in granted PROVE h'[q].late
      <4>1. q # p /\ h[q] # idle
        <5>1. h'[q] # idle
          BY <3>2 DEF idle, granted, signing
        <5>2. QED
          BY <1>1, <3>1, <5>1, Overtook
      <4>2. h'[q] = [at |-> h[q].at, pw |-> h[q].pw, late |-> TRUE, seen |-> h[q].seen]
        BY <1>1, <3>1, <4>1, Overtook
      <4>3. QED
        BY <4>2
    <3>3. QED
      BY <3>2 DEF BlockedInv
  <2>3. QED
    BY <2>1, <2>2
<1>4. CASE UpdatePassword(p) \/ AdminReset(p) \/ DeleteUser(p)
  <2>1. user' # None /\ ~user'.active => user # None /\ ~user.active
    BY <1>4 DEF UpdatePassword, AdminReset, DeleteUser, Shapes, UserRow
  <2>2. QED
    BY <1>2, <2>1
<1>5. CASE UNCHANGED user
  BY <1>2, <1>5
<1>6. QED
  BY <1>3, <1>4, <1>5, Zenon
     DEF Act, SignIn, Change, SecondFactor, Token, dbVars, Admit, Login, AskTOTP, CheckCode, CheckBackupCode,
         SpendBackupCode, CreateSession, Refresh, RefreshUser, Rotate, Logout, ChangePassword,
         PurgeSessions, ReadUser, UpdateProfile, AdminUpdate, SetUp, SaveSecret,
         Verify, Enable, AskDisable, Disable, CountTokens, CountFails, AuthorizeDevice, CreateToken,
         DeleteToken, Abandon

-----------------------------------------------------------------------------
(* API tokens. A request that has counted has left room for one.           *)

counted == {p \in Procs : at(p, "token")}
TokensInv ==
  /\ tokens \in Nat /\ uncounted \in Nat
  /\ tokens + Cardinality(counted) <= MaxTokens + Cardinality(Procs) - 1 + uncounted

LEMMA TokensStep ==
  ASSUME IsFiniteSet(Procs), MaxTokens \in Nat, Shapes, TokensInv, NEW p \in Procs, Act(p)
  PROVE  TokensInv'
<1> USE DEF TokensInv
<1>1. /\ IsFiniteSet(counted) /\ IsFiniteSet(counted')
      /\ Cardinality(counted) \in Nat /\ Cardinality(counted') \in Nat /\ Cardinality(Procs) \in Nat
      /\ Cardinality(counted) <= Cardinality(Procs) /\ Cardinality(counted') <= Cardinality(Procs)
  <2>1. counted \subseteq Procs /\ counted' \subseteq Procs
    BY DEF counted
  <2>2. QED
    BY <2>1, FS_Subset, FS_CardinalityType
<1>2. Others(p) /\ Handlers
  BY OthersStay DEF Shapes
<1>3. CASE CountTokens(p) /\ belowLimit(tokens)
  BY <1>1, <1>3 DEF CountTokens, belowLimit, dbVars
<1>4. ASSUME ~(CountTokens(p) /\ belowLimit(tokens)) PROVE counted' \subseteq counted
  <2> SUFFICES ASSUME NEW q \in Procs, h'[q].at = "token" PROVE h[q].at = "token"
    BY DEF counted, at
  <2>1. CASE q # p \/ UNCHANGED h
    BY <1>2, <2>1 DEF Others
  <2>2. CASE q = p /\ ~UNCHANGED h
    <3>1. CountTokens(p)
      BY <1>2, <2>2, Places DEF Came
    <3>2. Answer(p)
      BY <1>4, <3>1 DEF CountTokens
    <3>3. QED
      BY <1>2, <2>2, <3>2, Answered DEF idle
  <2>3. QED
    BY <2>1, <2>2
<1>5. ASSUME counted' \subseteq counted, tokens' \in Nat, tokens' <= tokens, UNCHANGED uncounted
      PROVE  TokensInv'
  <2>1. Cardinality(counted') <= Cardinality(counted)
    BY <1>1, <1>5, FS_Subset
  <2>2. QED
    BY <1>1, <1>5, <2>1
<1>6. CASE CreateToken(p)
  <2>1. counted' \subseteq counted
    <3>1. ~CountTokens(p)
      BY <1>6 DEF CreateToken, CountTokens, at
    <3>2. QED
      BY <1>4, <3>1
  <2>2. h'[p] = idle
    BY <1>2, <1>6, Answered DEF CreateToken
  <2>3. CASE at(p, "token")
    <3>1. counted' \subseteq counted \ {p} /\ p \in counted
      BY <2>1, <2>2, <2>3 DEF counted, at, idle
    <3>2. IsFiniteSet(counted \ {p}) /\ Cardinality(counted \ {p}) = Cardinality(counted) - 1
      BY <1>1, <3>1, FS_RemoveElement
    <3>3. Cardinality(counted') <= Cardinality(counted) - 1
      BY <3>1, <3>2, FS_Subset
    <3>4. tokens' \in {tokens, tokens + 1} /\ uncounted' = uncounted
      BY <1>6, <2>3 DEF CreateToken, at
    <3>5. QED
      BY <1>1, <3>3, <3>4
  <2>4. CASE at(p, "uncounted")
    <3>1. Cardinality(counted') <= Cardinality(counted)
      BY <1>1, <2>1, FS_Subset
    <3>2. \/ UNCHANGED <<tokens, uncounted>>
          \/ tokens' = tokens + 1 /\ uncounted' = uncounted + 1
      BY <1>6, <2>4 DEF CreateToken
    <3>3. QED
      BY <1>1, <3>1, <3>2
  <2>5. QED
    BY <1>6, <2>3, <2>4 DEF CreateToken
<1>7. CASE DeleteUser(p)
  <2>1. tokens' = 0 /\ counted' = counted /\ uncounted' = uncounted
    BY <1>7 DEF DeleteUser, counted, at
  <2>2. QED
    BY <1>1, <2>1
<1>8. CASE DeleteToken(p)
  <2>1. ~CountTokens(p) \/ ~belowLimit(tokens) \/ (CountTokens(p) /\ belowLimit(tokens))
    OBVIOUS
  <2>2. tokens' \in Nat /\ tokens' <= tokens /\ uncounted' = uncounted
    BY <1>8 DEF DeleteToken
  <2>3. QED
    BY <1>3, <1>4, <1>5, <2>2
<1>9. ASSUME UNCHANGED <<tokens, uncounted>>, ~(CountTokens(p) /\ belowLimit(tokens)) PROVE TokensInv'
  BY <1>4, <1>5, <1>9
<1>10. UNCHANGED <<tokens, uncounted>> \/ CreateToken(p) \/ DeleteUser(p) \/ DeleteToken(p)
  BY Zenon
     DEF Act, SignIn, Change, SecondFactor, Token, dbVars, Admit, Login, AskTOTP, CheckCode, CheckBackupCode,
         SpendBackupCode, CreateSession, Refresh, RefreshUser, Rotate, Logout, ChangePassword, UpdatePassword,
         PurgeSessions, AdminReset, ReadUser, UpdateProfile, AdminUpdate, WriteUser, SetUp, SaveSecret,
         Verify, Enable, AskDisable, Disable, CountTokens, CountFails, AuthorizeDevice, Abandon
<1>11. QED
  BY <1>3, <1>6, <1>7, <1>8, <1>9, <1>10

-----------------------------------------------------------------------------
LEMMA InvInit == Init => FactorInv /\ PasswordInv /\ BlockedInv
<1> SUFFICES ASSUME Init PROVE FactorInv /\ PasswordInv /\ BlockedInv
  OBVIOUS
<1>1. totp = None /\ user = [active |-> TRUE, pw |-> 1]
      /\ (\A s \in Slots : sessions[s] = None) /\ \A p \in Procs : h[p].at = "idle"
  BY DEF Init, idle
<1>2. FactorInv
  BY <1>1 DEF FactorInv, Verifying, SecondFactorHolds, EnabledIsConfirmed, CodesAreSpent
<1>3. PasswordInv /\ BlockedInv
  BY <1>1 DEF PasswordInv, Current, OldSessionsEnd, BlockedInv, signing, granted
<1>4. QED
  BY <1>2, <1>3

LEMMA Stutter ==
  ASSUME Shapes, FactorInv, PasswordInv, BlockedInv, UNCHANGED vars
  PROVE  Shapes' /\ FactorInv' /\ PasswordInv' /\ BlockedInv'
<1> USE DEF vars, dbVars
<1>1. Shapes'
  BY DEF Shapes, UserRow, TotpRow, SessionRows, Handlers
<1>2. FactorInv'
  BY DEF FactorInv, Verifying, SecondFactorHolds, EnabledIsConfirmed, CodesAreSpent, at
<1>3. PasswordInv' /\ BlockedInv'
  BY DEF PasswordInv, Current, OldSessionsEnd, BlockedInv, purging, at
<1>4. QED
  BY <1>1, <1>2, <1>3

AccountInv == Shapes /\ FactorInv /\ PasswordInv /\ BlockedInv

LEMMA AccountInvariant == Spec => []AccountInv
<1>1. Init => AccountInv
  BY ShapesInit, InvInit DEF AccountInv
<1>2. AccountInv /\ [Next]_vars => AccountInv'
  <2>1. ASSUME AccountInv, NEW p \in Procs, Act(p) PROVE AccountInv'
    <3>1. Shapes' /\ Handlers'
      BY <2>1, ShapesStep DEF AccountInv, Shapes
    <3>2. QED
      BY <2>1, <3>1, FactorStep, PasswordStep, BlockedStep DEF AccountInv
  <2>2. QED
    BY <2>1, Stutter DEF AccountInv, Next, Act
<1>3. QED
  BY <1>1, <1>2, PTL DEF Spec

\* A change of the password ends the sessions of the old one, but for those
\* that were being opened meanwhile (ChangePassword, DeleteByUserID).
THEOREM PasswordEndsSessions == Spec => []OldSessionsEnd
<1>1. AccountInv => OldSessionsEnd
  BY DEF AccountInv, PasswordInv
<1>2. QED
  BY <1>1, AccountInvariant, PTL

\* The second factor in force is a confirmed one, and a backup code is used
\* once, however set-ups, verifications and sign-ins overlap (EnableTOTP,
\* VerifyAndEnableTOTP, ValidateBackupCode).
THEOREM FactorHolds == Spec => []SecondFactorHolds
<1>1. AccountInv => SecondFactorHolds
  BY DEF AccountInv, FactorInv
<1>2. QED
  BY <1>1, AccountInvariant, PTL

\* A blocked user gets no session and no token, but from a request that was
\* under way (RefreshTokens, MiddlewareWithDB).
THEOREM BlockedGetsNothing == Spec => BlockedStaysOut
<1> DEFINE step == user # None /\ ~user.active =>
             \A p \in Procs : CreateSession(p) \/ CreateToken(p) => h[p].late
<1>1. AccountInv => step
  BY DEF AccountInv, BlockedInv, CreateSession, CreateToken, at, granted, signing
<1>2. QED
  BY <1>1, AccountInvariant, PTL DEF BlockedStaysOut

\* A plan's limit of tokens is exceeded by overlapping requests by one each at
\* most, and by the tokens that are made without a count: those of devices, and
\* of requests whose count failed (handleCreateToken, handleDeviceAuthorize).
THEOREM TokensStayBounded ==
  ASSUME IsFiniteSet(Procs), Procs # {}, MaxTokens \in Int
  PROVE  Spec => []TokensBounded
<1>1. CASE MaxTokens < 0
  <2>1. TokensBounded
    BY <1>1 DEF TokensBounded
  <2>2. QED
    BY <2>1, PTL
<1>2. CASE MaxTokens \in Nat
  <2>1. Init => TokensInv
    <3> SUFFICES ASSUME Init PROVE TokensInv
      OBVIOUS
    <3>1. counted = {}
      BY DEF Init, counted, at, idle
    <3>2. Cardinality({}) = 0 /\ Cardinality(Procs) \in Nat /\ Cardinality(Procs) # 0
      BY FS_EmptySet, FS_CardinalityType
    <3>3. QED
      BY <1>2, <3>1, <3>2 DEF Init, TokensInv
  <2>2. Shapes /\ TokensInv /\ [Next]_vars => TokensInv'
    <3>1. CASE UNCHANGED vars
      BY <3>1 DEF vars, dbVars, TokensInv, counted, at
    <3>2. QED
      BY <1>2, <3>1, TokensStep DEF Next, Act
  <2>3. TokensInv => TokensBounded
    <3>1. counted \subseteq Procs
      BY DEF counted
    <3>2. Cardinality(counted) \in Nat /\ Cardinality(Procs) \in Nat
      BY <3>1, FS_Subset, FS_CardinalityType
    <3>3. QED
      BY <1>2, <3>2 DEF TokensInv, TokensBounded
  <2>4. AccountInv => Shapes
    BY DEF AccountInv
  <2>5. QED
    BY <2>1, <2>2, <2>3, <2>4, AccountInvariant, PTL DEF Spec
<1>3. QED
  BY <1>1, <1>2

-----------------------------------------------------------------------------
(* OAuth. What a callback has read is old when it merges; what matters is   *)
(* that it never merges an account with itself.                             *)

isCallback(x) == DOMAIN x = {"at", "asker", "provider", "person", "mail", "found"}

CallbackShapes ==
  /\ DOMAIN users = Accounts
  /\ owner = [d \in Reserved |-> owner[d]]
  /\ DOMAIN cb = Callbacks
  /\ \A c \in Callbacks : isCallback(cb[c])

MergesTwo == \A c \in Callbacks : callbackAt(c, "merge") => cb[c].found # cb[c].asker

MergeInv == CallbackShapes /\ MergesTwo

\* A callback has read something, moved on, or ended.
LEMMA CallbackMoves ==
  ASSUME MergeInv, NEW c \in Callbacks, NEW x, isCallback(x),
         x.at = "merge" => x.found # x.asker,
         cb' = [cb EXCEPT ![c] = x],
         DOMAIN users' = Accounts, owner' = [d \in Reserved |-> owner'[d]]
  PROVE  MergeInv'
  BY DEF MergeInv, CallbackShapes, MergesTwo, callbackAt

LEMMA FinishMoves ==
  ASSUME MergeInv, NEW c \in Callbacks, Finish(c),
         DOMAIN users' = Accounts, owner' = [d \in Reserved |-> owner'[d]]
  PROVE  MergeInv'
  BY CallbackMoves DEF Finish, noCallback, isCallback

\* What is written to the users keeps a row for each.
LEMMA RowsKept ==
  ASSUME CallbackShapes, NEW primary, NEW secondary, MergeUsers(primary, secondary)
  PROVE  DOMAIN users' = Accounts /\ owner' = [d \in Reserved |-> owner'[d]]
  BY DEF CallbackShapes, MergeUsers, completed, moved, Cascade

LEMMA MergeStep == MergeInv /\ [OAuthNext]_oauthVars => MergeInv'
<1> SUFFICES ASSUME MergeInv, [OAuthNext]_oauthVars PROVE MergeInv'
  OBVIOUS
<1> DEFINE tables == DOMAIN users' = Accounts /\ owner' = [d \in Reserved |-> owner'[d]]
<1>0. CallbackShapes
  BY DEF MergeInv
<1>1. ASSUME tables, cb' = cb PROVE MergeInv'
  BY <1>0, <1>1 DEF MergeInv, CallbackShapes, MergesTwo, callbackAt
<1>2. ASSUME users' = users, owner' = owner PROVE tables
  BY <1>0, <1>2 DEF CallbackShapes
<1>3. ASSUME NEW rows, NEW yes, NEW no, Write(rows, yes, no), DOMAIN rows = Accounts
      PROVE  DOMAIN users' = Accounts
  BY <1>0, <1>3 DEF Write, CallbackShapes
<1>4. ASSUME owner' = owner PROVE owner' = [d \in Reserved |-> owner'[d]]
  BY <1>0, <1>4 DEF CallbackShapes
<1>5. CASE UNCHANGED oauthVars
  BY <1>1, <1>2, <1>5 DEF oauthVars
<1>6. ASSUME NEW c \in Callbacks, CallbackStep(c) PROVE MergeInv'
  <2>1. CASE AbandonCallback(c)
    BY <1>2, <2>1, FinishMoves DEF AbandonCallback
  <2>2. CASE Find(c)
    \* the account found is another one, or the callback does not merge
    <3> DEFINE found == holder(cb[c].provider, cb[c].person)
               next == IF cb[c].asker # None
                       THEN IF found \notin {None, cb[c].asker} THEN "merge" ELSE "link"
                       ELSE IF found = None THEN "create"
                       ELSE IF users[found].mail = None /\ cb[c].mail # None THEN "mail" ELSE "session"
    <3>1. cb' = [cb EXCEPT ![c].at = next, ![c].found = found] /\ UNCHANGED <<users, owner>>
      BY <2>2 DEF Find
    <3>2. next = "merge" => found # cb[c].asker
      OBVIOUS
    <3> HIDE DEF found, next
    <3> DEFINE x == [cb[c] EXCEPT !.at = next, !.found = found]
    <3>3. cb' = [cb EXCEPT ![c] = x] /\ tables
      BY <1>0, <1>2, <3>1 DEF CallbackShapes
    <3>4. isCallback(x) /\ x.at = next /\ x.found = found /\ x.asker = cb[c].asker
      BY <1>0 DEF CallbackShapes, isCallback
    <3> HIDE DEF x
    <3> QED
      BY <3>2, <3>3, <3>4, CallbackMoves
  <2>3. CASE FillMail(c)
    <3>1. tables
      <4>1. CASE exists(cb[c].found)
        BY <1>0, <1>3, <1>4, <2>3, <4>1 DEF FillMail, CallbackShapes
      <4>2. CASE ~exists(cb[c].found)
        BY <1>2, <2>3, <4>2 DEF FillMail
      <4> QED
        BY <4>1, <4>2
    <3>2. cb' = [cb EXCEPT ![c].at = "session"]
      BY <2>3 DEF FillMail, MoveOn
    <3> DEFINE x == [cb[c] EXCEPT !.at = "session"]
    <3>3. cb' = [cb EXCEPT ![c] = x] /\ isCallback(x) /\ x.at = "session"
      BY <1>0, <3>2 DEF CallbackShapes, isCallback
    <3> HIDE DEF x
    <3> QED
      BY <3>1, <3>3, CallbackMoves
  <2>4. CASE Link(c)
    <3>1. CASE exists(cb[c].asker)
      BY <1>0, <1>3, <1>4, <2>4, <3>1, FinishMoves DEF Link, linked, CallbackShapes
    <3>2. CASE ~exists(cb[c].asker)
      BY <1>2, <2>4, <3>2, FinishMoves DEF Link
    <3> QED
      BY <3>1, <3>2
  <2>5. CASE Merge(c)
    BY <1>0, <2>5, RowsKept, FinishMoves DEF Merge
  <2>6. ASSUME NEW n \in Nonces, Callback(c, n) PROVE MergeInv'
    <3> DEFINE x == [noCallback EXCEPT !.at = "provider", !.asker = store[n].account]
    <3>1. cb' = [cb EXCEPT ![c] = x] /\ tables
      BY <1>2, <2>6 DEF Callback
    <3>2. isCallback(x) /\ x.at = "provider"
      BY DEF noCallback, isCallback
    <3> HIDE DEF x
    <3> QED
      BY <3>1, <3>2, CallbackMoves
  <2>7. ASSUME NEW n \in Nonces, OAuthSignIn(c, n) PROVE MergeInv'
    BY <1>2, <2>7, FinishMoves DEF OAuthSignIn
  <2>8. ASSUME NEW p \in Providers, NEW y \in People, NEW told \in BOOLEAN, Identify(c, p, y, told)
        PROVE  MergeInv'
    <3> DEFINE x == [cb[c] EXCEPT !.at = "find", !.provider = p, !.person = y,
                                  !.mail = IF told THEN y ELSE None]
    <3>1. cb' = [cb EXCEPT ![c] = x] /\ tables
      BY <1>0, <1>2, <2>8 DEF Identify, CallbackShapes
    <3>2. isCallback(x) /\ x.at = "find"
      BY <1>0 DEF CallbackShapes, isCallback
    <3> HIDE DEF x
    <3> QED
      BY <3>1, <3>2, CallbackMoves
  <2>9. ASSUME NEW u \in Accounts, CreateOAuth(c, u) PROVE MergeInv'
    <3>1. tables
      <4>1. users' = users \/ \E new : users' = [users EXCEPT ![u] = new]
        BY <2>9 DEF CreateOAuth, Write
      <4>2. owner' = owner
        BY <2>9 DEF CreateOAuth
      <4> QED
        BY <1>0, <1>4, <4>1, <4>2 DEF CallbackShapes
    <3>2. CASE Finish(c)
      BY <3>1, <3>2, FinishMoves
    <3>3. CASE cb' = [cb EXCEPT ![c].at = "session", ![c].found = u]
      <4> DEFINE x == [cb[c] EXCEPT !.at = "session", !.found = u]
      <4>1. cb' = [cb EXCEPT ![c] = x] /\ isCallback(x) /\ x.at = "session"
        BY <1>0, <3>3 DEF CallbackShapes, isCallback
      <4> HIDE DEF x
      <4> QED
        BY <3>1, <4>1, CallbackMoves
    <3> QED
      BY <2>9, <3>2, <3>3 DEF CreateOAuth, Write
  <2> QED
    BY <1>6, <2>1, <2>2, <2>3, <2>4, <2>5, <2>6, <2>7, <2>8, <2>9 DEF CallbackStep
<1>7. ASSUME NEW n \in Nonces, Expire(n) \/ Exchange(n) \/ \E u \in Accounts \cup {None} : CreateState(n, u)
      PROVE  MergeInv'
  BY <1>1, <1>2, <1>7 DEF Expire, Exchange, CreateState
<1>8. ASSUME NEW u \in Accounts,
             \/ SignUp(u) \/ AdminDeletes(u)
             \/ \E d \in Reserved : ReserveDomain(u, d)
             \/ \E v \in Accounts : AdminMerges(u, v)
      PROVE  MergeInv'
  <2>1. CASE SignUp(u)
    BY <1>0, <1>1, <1>4, <2>1 DEF SignUp, CallbackShapes
  <2>2. CASE AdminDeletes(u)
    BY <1>0, <1>1, <2>2 DEF AdminDeletes, RemoveUser, Cascade, CallbackShapes
  <2>3. CASE \E d \in Reserved : ReserveDomain(u, d)
    BY <1>0, <1>1, <2>3 DEF ReserveDomain, CallbackShapes
  <2>4. CASE \E v \in Accounts : AdminMerges(u, v)
    BY <1>0, <1>1, <2>4, RowsKept DEF AdminMerges
  <2> QED
    BY <1>8, <2>1, <2>2, <2>3, <2>4
<1> QED
  BY <1>5, <1>6, <1>7, <1>8 DEF OAuthNext

\* A merge of two accounts keeps the first, if it is there at all,
LEMMA PrimaryStays ==
  ASSUME CallbackShapes, NEW primary, NEW secondary, primary # secondary,
         exists(primary), MergeUsers(primary, secondary)
  PROVE  users'[primary].is = "user"
  BY DEF CallbackShapes, MergeUsers, completed, exists

\* and the domains of both.
LEMMA DomainsMove ==
  ASSUME None \notin Accounts, CallbackShapes, NEW primary, NEW secondary, primary # secondary,
         MergeUsers(primary, secondary), NEW d \in Reserved, owner[d] # None
  PROVE  owner'[d] # None
  BY DEF CallbackShapes, MergeUsers, moved, Cascade, exists

\* Whatever happens to accounts while a callback is with its provider, linking
\* an identity never dissolves the account that asks for it, and no merge, of a
\* callback or an admin, loses a domain of either account (handleGitHubLinkCallback,
\* handleGoogleLinkCallback, handleMergeUsers, MergeUsers).
THEOREM MergesCorrect ==
  ASSUME None \notin Accounts
  PROVE  OAuthSpec => MergesKeep
<1>1. OAuthInit => MergeInv
  BY DEF OAuthInit, MergeInv, CallbackShapes, MergesTwo, callbackAt, noCallback, isCallback
<1>2. MergeInv /\ [OAuthNext]_oauthVars =>
        [ \A c \in Callbacks : callbackAt(c, "merge") /\ cb'[c] = noCallback /\ exists(cb[c].asker) =>
            users'[cb[c].asker].is = "user" ]_oauthVars
  <2> SUFFICES ASSUME MergeInv, OAuthNext, NEW c \in Callbacks,
                      callbackAt(c, "merge"), cb'[c] = noCallback, exists(cb[c].asker)
               PROVE  users'[cb[c].asker].is = "user"
    BY DEF oauthVars
  <2>1. CallbackShapes /\ cb[c].asker # cb[c].found /\ cb'[c] # cb[c]
    BY DEF MergeInv, MergesTwo, callbackAt, noCallback
  <2>2. ASSUME users' = users PROVE users'[cb[c].asker].is = "user"
    BY <2>2 DEF exists
  <2>3. ASSUME NEW b \in Callbacks, CallbackStep(b) PROVE b = c
    BY <2>1, <2>3 DEF CallbackStep, AbandonCallback, Finish, Find, FillMail, MoveOn, Link, Merge, Callback,
                      OAuthSignIn, Identify, CreateOAuth, Write, CallbackShapes
  <2>4. AbandonCallback(c) \/ Merge(c)
    <3>1. CallbackStep(c)
      BY <2>1, <2>3 DEF OAuthNext, Expire, Exchange, CreateState, SignUp, AdminDeletes, ReserveDomain, AdminMerges
    <3> QED
      BY <3>1 DEF CallbackStep, Find, FillMail, Link, Callback, OAuthSignIn, Identify, CreateOAuth, callbackAt
  <2> QED
    BY <2>1, <2>2, <2>4, PrimaryStays DEF AbandonCallback, Merge
<1>3. MergeInv /\ [OAuthNext]_oauthVars =>
        [ \A d \in Reserved : owner[d] # None /\ owner'[d] = None => AdminDeletes(owner[d]) ]_oauthVars
  <2> SUFFICES ASSUME MergeInv, OAuthNext, NEW d \in Reserved, owner[d] # None, owner'[d] = None
               PROVE  AdminDeletes(owner[d])
    BY DEF oauthVars
  <2>1. CallbackShapes /\ owner' # owner
    BY DEF MergeInv
  <2>2. ASSUME NEW c \in Callbacks PROVE ~CallbackStep(c)
    <3>1. ~Merge(c)
      BY <2>1, DomainsMove DEF Merge, MergeInv, MergesTwo
    <3> QED
      BY <2>1, <3>1 DEF CallbackStep, AbandonCallback, Find, FillMail, Link, Callback, OAuthSignIn, Identify,
           CreateOAuth
  <2>3. ASSUME NEW u \in Accounts, NEW v \in Accounts PROVE ~AdminMerges(u, v)
    BY <2>1, DomainsMove DEF AdminMerges
  <2>4. ASSUME NEW u \in Accounts, NEW e \in Reserved PROVE ~ReserveDomain(u, e)
    BY <2>1 DEF ReserveDomain, CallbackShapes
  <2>5. PICK u \in Accounts : AdminDeletes(u)
    BY <2>1, <2>2, <2>3, <2>4 DEF OAuthNext, Expire, Exchange, CreateState, SignUp
  <2>6. owner[d] = u
    BY <2>1, <2>5 DEF AdminDeletes, Cascade
  <2> QED
    BY <2>5, <2>6
<1> QED
  BY <1>1, <1>2, <1>3, MergeStep, PTL DEF OAuthSpec, MergesKeep, AskerStays, DomainsStay

=============================================================================
