----------------------------- MODULE DeviceFlow -----------------------------
(* One sign-in of the command line through a browser: the CLI asks for a     *)
(* session and polls it, a signed-in user authorizes it, and the session     *)
(* hands a new API token over. Polls read the session without the lock of    *)
(* the store, so an authorization may run between any two of their reads.    *)
EXTENDS NoValue, Naturals, FiniteSets

CONSTANTS Polls,     \* polls the server may handle at the same time
          Approvers  \* requests to authorize the session; each makes a token

VARIABLES
  listed,    \* the session is in the store's map
  status,    \* session.Status
  token,     \* session.Token, "" until somebody sets it
  old,       \* deviceSessionTTL has passed
  poll,      \* place of each poll, and the answer it makes
  approver,  \* place of each request to authorize
  created,   \* the tokens that are in the database
  cli,       \* what the CLI does: "asking", a poll it waits for, "saved", "failed"
  saved,     \* what it has put in the keyring
  torn,      \* a poll read the session while it was being authorized (history)
  lost       \* an answer did not reach the CLI (history)

vars == <<listed, status, token, old, poll, approver, created, cli, saved, torn, lost>>

noPoll == [at |-> "idle", status |-> "", token |-> ""]

\* handleDeviceCode has made the session and told the CLI.
Init ==
  /\ listed = TRUE /\ status = "pending" /\ token = "" /\ old = FALSE
  /\ poll = [p \in Polls |-> noPoll] /\ approver = [a \in Approvers |-> "idle"]
  /\ created = {} /\ cli = "asking" /\ saved = None /\ torn = FALSE /\ lost = FALSE

-----------------------------------------------------------------------------
(* The command line: loginWithBrowser.                                     *)

Ask(p) ==
  /\ cli = "asking" /\ ~old /\ poll[p].at = "idle"
  /\ cli' = p /\ poll' = [poll EXCEPT ![p] = [noPoll EXCEPT !.at = "get"]]
  /\ UNCHANGED <<listed, status, token, old, approver, created, saved, torn, lost>>

\* A pending or unknown session is asked for again.
Hear(p) ==
  /\ cli = p /\ poll[p].at = "answered"
  /\ LET answer == poll[p].status IN
     /\ cli' = CASE answer = "authorized" -> "saved" [] answer = "expired" -> "failed" [] OTHER -> "asking"
     /\ saved' = IF answer = "authorized" THEN poll[p].token ELSE saved
  /\ poll' = [poll EXCEPT ![p] = noPoll]
  /\ UNCHANGED <<listed, status, token, old, approver, created, torn, lost>>

\* The request fails, on its way or on its way back: it is sent again.
LoseAnswer(p) ==
  /\ cli = p
  /\ cli' = "asking" /\ lost' = TRUE
  /\ poll' = IF poll[p].at = "answered" THEN [poll EXCEPT ![p] = noPoll] ELSE poll
  /\ UNCHANGED <<listed, status, token, old, approver, created, saved, torn>>

GiveUp ==
  /\ cli = "asking" /\ old
  /\ cli' = "failed"
  /\ UNCHANGED <<listed, status, token, old, poll, approver, created, saved, torn, lost>>

-----------------------------------------------------------------------------
(* handleDevicePoll, one read at a time.                                   *)

\* A poll nobody waits for is over when it is answered.
Answered(p) == IF cli = p THEN "answered" ELSE "idle"

Look(p) ==
  /\ poll[p].at = "get"
  /\ poll' = [poll EXCEPT ![p] =
       IF ~listed THEN [noPoll EXCEPT !.at = Answered(p)]
       ELSE IF old THEN [noPoll EXCEPT !.at = Answered(p), !.status = "expired"]
       ELSE [noPoll EXCEPT !.at = "status"]]
  /\ UNCHANGED <<listed, status, token, old, approver, created, cli, saved, torn, lost>>

ReadStatus(p) ==
  /\ poll[p].at = "status"
  /\ poll' = [poll EXCEPT ![p].at = "status again", ![p].status = status]
  /\ UNCHANGED <<listed, status, token, old, approver, created, cli, saved, torn, lost>>

\* Mutant: the session goes with the first poll, authorized or not.
ReadStatusDelete(p) ==
  /\ poll[p].at = "status again"
  /\ poll' = [poll EXCEPT ![p].at = IF status = "authorized" THEN "token" ELSE "delete"]
  /\ torn' = (torn \/ status # poll[p].status)
  /\ UNCHANGED <<listed, status, token, old, approver, created, cli, saved, lost>>

ReadStatusAgain(p) ==
  /\ poll[p].at = "status again"
  /\ poll' = [poll EXCEPT ![p].at = IF status = "authorized" THEN "token" ELSE Answered(p)]
  /\ torn' = (torn \/ status # poll[p].status)
  /\ UNCHANGED <<listed, status, token, old, approver, created, cli, saved, lost>>

ReadToken(p) ==
  /\ poll[p].at = "token"
  /\ poll' = [poll EXCEPT ![p].at = "delete", ![p].token = token]
  /\ torn' = (torn \/ \E a \in Approvers : approver[a] = "set token")
  /\ UNCHANGED <<listed, status, token, old, approver, created, cli, saved, lost>>

Delete(p) ==
  /\ poll[p].at = "delete" /\ \A a \in Approvers : approver[a] # "set token"
  /\ listed' = FALSE
  /\ poll' = [poll EXCEPT ![p].at = Answered(p)]
  /\ UNCHANGED <<status, token, old, approver, created, cli, saved, torn, lost>>

-----------------------------------------------------------------------------
(* handleDeviceAuthorize.                                                  *)

Approve(a) ==
  /\ approver[a] = "idle" /\ listed /\ ~old /\ status = "pending"
  /\ approver' = [approver EXCEPT ![a] = "create"]
  /\ UNCHANGED <<listed, status, token, old, poll, created, cli, saved, torn, lost>>

\* The database may fail.
Create(a) ==
  /\ approver[a] = "create"
  /\ \/ created' = created \cup {a} /\ approver' = [approver EXCEPT ![a] = "authorize"]
     \/ created' = created /\ approver' = [approver EXCEPT ![a] = "done"]
  /\ UNCHANGED <<listed, status, token, old, poll, cli, saved, torn, lost>>

\* deviceStore.Authorize, which keeps others out but not the polls: first the
\* status, if the session is still there,
SetStatus(a) ==
  /\ approver[a] = "authorize" /\ \A b \in Approvers : approver[b] # "set token"
  /\ IF listed /\ ~old
     THEN status' = "authorized" /\ approver' = [approver EXCEPT ![a] = "set token"]
     ELSE status' = status /\ approver' = [approver EXCEPT ![a] = "done"]
  /\ UNCHANGED <<listed, token, old, poll, created, cli, saved, torn, lost>>

\* then the token.
SetToken(a) ==
  /\ approver[a] = "set token"
  /\ token' = a /\ approver' = [approver EXCEPT ![a] = "done"]
  /\ UNCHANGED <<listed, status, old, poll, created, cli, saved, torn, lost>>

-----------------------------------------------------------------------------
\* The session's five minutes are over.
Expire ==
  /\ ~old
  /\ old' = TRUE
  /\ UNCHANGED <<listed, status, token, poll, approver, created, cli, saved, torn, lost>>

\* deviceStore.Cleanup.
Cleanup ==
  /\ old /\ listed /\ \A a \in Approvers : approver[a] # "set token"
  /\ listed' = FALSE
  /\ UNCHANGED <<status, token, old, poll, approver, created, cli, saved, torn, lost>>

Poll(p) == Look(p) \/ ReadStatus(p) \/ ReadStatusAgain(p) \/ ReadToken(p) \/ Delete(p)
Authorize(a) == Create(a) \/ SetStatus(a) \/ SetToken(a)
Cli(p) == Ask(p) \/ Hear(p)

Next ==
  \/ \E p \in Polls : Cli(p) \/ LoseAnswer(p) \/ Poll(p)
  \/ \E a \in Approvers : Approve(a) \/ Authorize(a)
  \/ GiveUp \/ Expire \/ Cleanup

\* Handlers run to their end, and the CLI polls until it is told.
Fairness ==
  /\ \A p \in Polls : WF_vars(Poll(p))
  /\ WF_vars(\E p \in Polls : Cli(p))
  /\ WF_vars(GiveUp)
  /\ \A a \in Approvers : WF_vars(Authorize(a))

Spec == Init /\ [][Next]_vars /\ Fairness

-----------------------------------------------------------------------------

\* A user who has authorized the session in time finds the CLI signed in, if
\* no answer is lost and no poll runs in the middle of the authorization.
AuthorizedIsSaved ==
  (token # "") ~> (saved \in created \/ torn \/ lost \/ old)
=============================================================================
