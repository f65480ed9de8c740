------------------------------ MODULE Desktop ------------------------------
(* The refresh tokens of the desktop application: the server renews each     *)
(* once, the application keeps one in memory and one in the keyring. Every    *)
(* login makes a client, whose reconnect loop calls a refresher of its own    *)
(* beside what the user does, and may outlive the client's Close()            *)
(* (internal/gui/auth_service.go, internal/keyring/keyring.go,               *)
(* internal/client/client.go).                                               *)
EXTENDS NoValue, Naturals

CONSTANTS Clients,  \* clients there are at the same time
          MaxGiven  \* bound: refresh tokens the server gives

VARIABLES
  valid,      \* refresh tokens the server will renew
  given,      \* refresh tokens so far
  app,        \* app.refreshToken, 0 for ""
  keyring,    \* the refresh token of the saved credentials, 0 when there is none
  client,     \* app.client when it has connected, or None
  clients,    \* the place of a client's reconnect loop, and its refresher's token and flag
  ui,         \* the place of Login, AutoLogin or Logout, and its token
  escaped,    \* clients whose Close() met their reconnect loop (history)
  excused,    \* a token was lost on its way to the keyring, or revoked (history)
  forgotten,  \* the user has logged out, and not in again (history)
  crossed     \* an escaped client was still there at that logout (history)

desktopVars == <<valid, given, app, keyring, client, clients, ui, escaped, excused, forgotten, crossed>>

noCall == [at |-> "idle", token |-> 0, keep |-> FALSE, auto |-> "no"]

\* keep: saveToKeyring, as its refresher has captured it. ends: the context is
\* cancelled, which the loop finds at its next round.
noClient == [at |-> "gone", token |-> 0, keep |-> FALSE, ends |-> FALSE]
clientAt(c, place) == clients[c].at = place
refreshing(c) == clients[c].at \in {"refresh", "load"}

DesktopInit ==
  /\ valid = {} /\ given = 0 /\ app = 0 /\ keyring = 0
  /\ client = None /\ clients = [c \in Clients |-> noClient]
  /\ ui = noCall
  /\ escaped = {} /\ excused = FALSE /\ forgotten = TRUE /\ crossed = FALSE

-----------------------------------------------------------------------------
(* Signing in.                                                             *)

\* authenticateWithPassword; Login then puts the token in memory.
DesktopLogin(keep) ==
  /\ ui.at = "idle" /\ client = None /\ given < MaxGiven
  /\ given' = given + 1 /\ valid' = valid \cup {given'} /\ app' = given'
  /\ ui' = [at |-> "connect", token |-> given', keep |-> keep, auto |-> "no"]
  /\ forgotten' = FALSE /\ crossed' = FALSE
  /\ UNCHANGED <<keyring, client, clients, escaped, excused>>

\* AutoLogin starts with the saved credentials.
AutoLogin ==
  /\ ui.at = "idle" /\ client = None /\ keyring # 0
  /\ ui' = [at |-> "connect", token |-> keyring, keep |-> TRUE, auto |-> "first"]
  /\ app' = keyring
  /\ UNCHANGED <<valid, given, keyring, client, clients, escaped, excused, forgotten, crossed>>

\* Login makes a client, gives it a refresher, and connects.
Connect(c) ==
  /\ ui.at = "connect" /\ clients[c] = noClient
  /\ client' = c /\ clients' = [clients EXCEPT ![c] = [noClient EXCEPT !.at = "connected", !.keep = ui.keep]]
  /\ escaped' = escaped \ {c}
  /\ ui' = IF ui.keep THEN [ui EXCEPT !.at = "save"] ELSE noCall
  /\ UNCHANGED <<valid, given, app, keyring, excused, forgotten, crossed>>

\* It does not connect, and has no reconnect loop; AutoLogin refreshes its token
\* and tries once more, and a token that was refreshed already is not saved.
ConnectFails ==
  /\ ui.at = "connect"
  /\ ui' = IF ui.auto = "first" THEN [ui EXCEPT !.at = "refresh"] ELSE noCall
  /\ excused' = (excused \/ ui.auto = "second")
  /\ UNCHANGED <<valid, given, app, keyring, client, clients, escaped, forgotten, crossed>>

\* RefreshTokens of the server: a token that it does not know is refused.
renewable(token) == token \in valid /\ given < MaxGiven
RenewToken(token) == given' = given + 1 /\ valid' = (valid \ {token}) \cup {given'}

AutoRefresh ==
  /\ ui.at = "refresh" /\ renewable(ui.token)
  /\ RenewToken(ui.token) /\ app' = given'
  /\ ui' = [ui EXCEPT !.at = "connect", !.token = given', !.auto = "second"]
  /\ UNCHANGED <<keyring, client, clients, escaped, excused, forgotten, crossed>>

AutoRefreshFails ==
  /\ ui.at = "refresh"
  /\ \/ UNCHANGED <<valid, given, excused>>
     \/ renewable(ui.token) /\ RenewToken(ui.token) /\ excused' = TRUE
  /\ ui' = noCall
  /\ UNCHANGED <<app, keyring, client, clients, escaped, forgotten, crossed>>

Save ==
  /\ ui.at = "save"
  /\ keyring' = ui.token /\ ui' = noCall
  /\ UNCHANGED <<valid, given, app, client, clients, escaped, excused, forgotten, crossed>>

-----------------------------------------------------------------------------
(* Logging out.                                                            *)

\* Mutant: the client is left open.
CloseClientNot ==
  /\ ui.at = "idle"
  /\ client' = None /\ ui' = [noCall EXCEPT !.at = "clear"]
  /\ UNCHANGED <<valid, given, app, keyring, clients, escaped, excused, forgotten, crossed>>

\* Close() ends a client that is connected. It does not wait for a reconnect
\* loop: one that is about to replace the context it cancels goes on, any other
\* ends when it comes round.
CloseClient ==
  /\ ui.at = "idle"
  /\ client' = None /\ ui' = [noCall EXCEPT !.at = "clear"]
  /\ \/ client = None /\ UNCHANGED <<clients, escaped>>
     \/ /\ client # None /\ clientAt(client, "connected")
        /\ clients' = [clients EXCEPT ![client] = noClient] /\ UNCHANGED escaped
     \/ /\ client # None /\ ~clientAt(client, "connected")
        /\ \E ends \in BOOLEAN :
             /\ refreshing(client) => ends
             /\ clients' = [clients EXCEPT ![client].ends = ends]
        /\ escaped' = escaped \cup {client}
  /\ UNCHANGED <<valid, given, app, keyring, excused, forgotten, crossed>>

\* The token in memory stays.
Clear ==
  /\ ui.at = "clear"
  /\ keyring' = 0 /\ ui' = noCall
  /\ forgotten' = TRUE /\ crossed' = (\E c \in escaped : clients[c] # noClient)
  /\ UNCHANGED <<valid, given, app, client, clients, escaped, excused>>

-----------------------------------------------------------------------------
(* A reconnect loop, and the refresher it calls.                           *)

\* The connection is lost: the loop starts, past its look at the context.
Disconnected(c) ==
  /\ clientAt(c, "connected")
  /\ clients' = [clients EXCEPT ![c].at = "dialling"]
  /\ UNCHANGED <<valid, given, app, keyring, client, ui, escaped, excused, forgotten, crossed>>

\* It connects; or, when it does not, it has come round.
Dialled(c) ==
  /\ clientAt(c, "dialling")
  /\ clients' = [clients EXCEPT ![c] = IF @.ends THEN noClient ELSE [@ EXCEPT !.at = "connected"]]
  /\ UNCHANGED <<valid, given, app, keyring, client, ui, escaped, excused, forgotten, crossed>>

\* TOKEN_EXPIRED: the refresher takes the token that is in memory.
TokenExpired(c) ==
  /\ clientAt(c, "dialling") /\ app # 0
  /\ clients' = [clients EXCEPT ![c].at = "refresh", ![c].token = app]
  /\ UNCHANGED <<valid, given, app, keyring, client, ui, escaped, excused, forgotten, crossed>>

\* The next round of the loop.
comeRound(x) == IF x.ends THEN noClient ELSE [x EXCEPT !.at = "dialling", !.token = 0]

RefreshToken(c) ==
  /\ clientAt(c, "refresh") /\ renewable(clients[c].token)
  /\ RenewToken(clients[c].token)
  /\ app' = given'
  /\ clients' = [clients EXCEPT ![c] =
       IF @.keep THEN [@ EXCEPT !.at = "load", !.token = given'] ELSE comeRound(@)]
  /\ excused' = (excused \/ ui.at = "save" \/ c \in escaped)
  /\ UNCHANGED <<keyring, client, ui, escaped, forgotten, crossed>>

\* Refused; or the answer is lost, after the server has renewed the token.
RefreshFails(c) ==
  /\ clientAt(c, "refresh")
  /\ \/ UNCHANGED <<valid, given, excused>>
     \/ renewable(clients[c].token) /\ RenewToken(clients[c].token) /\ excused' = TRUE
  /\ clients' = [clients EXCEPT ![c] = comeRound(@)]
  /\ UNCHANGED <<app, keyring, client, ui, escaped, forgotten, crossed>>

\* LoadCredentials, which finds an empty keyring to be credentials as well,
\* then SaveCredentials.
SaveRefreshed(c) ==
  /\ clientAt(c, "load")
  /\ keyring' = clients[c].token
  /\ clients' = [clients EXCEPT ![c] = comeRound(@)]
  /\ UNCHANGED <<valid, given, app, client, ui, escaped, excused, forgotten, crossed>>

-----------------------------------------------------------------------------
\* The server revokes or expires a token.
Revoke(token) ==
  /\ token \in valid
  /\ valid' = valid \ {token} /\ excused' = TRUE
  /\ UNCHANGED <<given, app, keyring, client, clients, ui, escaped, forgotten, crossed>>

\* The application ends; the keyring stays.
Exit ==
  /\ app' = 0 /\ client' = None /\ clients' = [c \in Clients |-> noClient] /\ ui' = noCall /\ escaped' = {}
  /\ excused' = (excused \/ ui.auto = "second" \/ \E c \in Clients : clientAt(c, "load"))
  /\ UNCHANGED <<valid, given, keyring, forgotten, crossed>>

DesktopNext ==
  \/ \E keep \in BOOLEAN : DesktopLogin(keep)
  \/ AutoLogin \/ ConnectFails \/ AutoRefresh \/ AutoRefreshFails \/ Save
  \/ CloseClient \/ Clear
  \/ \E c \in Clients :
       \/ Connect(c) \/ Disconnected(c) \/ Dialled(c)
       \/ TokenExpired(c) \/ RefreshToken(c) \/ RefreshFails(c) \/ SaveRefreshed(c)
  \/ \E token \in 1..given : Revoke(token)
  \/ Exit

DesktopSpec == DesktopInit /\ [][DesktopNext]_desktopVars

-----------------------------------------------------------------------------
\* After a logout nothing is left in the keyring, and nothing comes back, until
\* the user logs in: but for a client whose Close() met its reconnect loop, and
\* that was still there when the keyring was cleared.
LogoutForgets == forgotten /\ ~crossed => keyring = 0

\* The saved token is one the server knows, whenever nobody is about to save a
\* newer one: the next start of the application signs in. A token is lost only
\* by a crash or a failed connection after the server has renewed it, when it is
\* renewed before Login has saved it, or by a client that outlived its Close().
SavedTokenLives ==
  keyring # 0 /\ ~excused /\ ui = noCall /\ ~(\E c \in Clients : refreshing(c)) => keyring \in valid

\* What the keyring promises to the user, and to the next start (AuthService).
KeyringHolds == LogoutForgets /\ SavedTokenLives
=============================================================================
