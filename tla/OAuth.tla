------------------------------- MODULE OAuth -------------------------------
(* Sign-in with GitHub or Google, and linking such an identity to an account *)
(* (internal/api/handlers_oauth.go, oauth_store.go, auth.go, user_repo.go).  *)
(* A callback is several database calls, with requests to the provider in    *)
(* between; the database keeps identities and addresses unique.              *)
EXTENDS NoValue, Naturals, FiniteSets

CONSTANTS MaxAccounts, \* bound: rows of users, numbered as they are made
          MaxNonces, \* bound: states and codes, each made once
          People,    \* each has an identity at each provider, and one e-mail address
          Reserved,  \* reserved domains, for all that is moved in a merge
          Callbacks  \* callbacks the server handles at the same time

Accounts == 1..MaxAccounts
Nonces == 1..MaxNonces

VARIABLES
  users,   \* the rows of users
  owner,   \* the rows of reserved_domains
  store,   \* oauthStore: what each nonce stands for
  cb       \* place of each callback, and what it has read

oauthVars == <<users, owner, store, cb>>

Providers == {"github", "google"}
noCallback == [at |-> "idle", asker |-> None, provider |-> None, person |-> None, mail |-> None, found |-> None]
noIds == [p \in Providers |-> None]
userRow(status) == [is |-> status, ids |-> noIds, mail |-> None]
nonce(kind, account) == [kind |-> kind, account |-> account]

OAuthInit ==
  /\ users = [u \in Accounts |-> userRow("unused")] /\ owner = [d \in Reserved |-> None]
  /\ store = [n \in Nonces |-> nonce("unused", None)]
  /\ cb = [c \in Callbacks |-> noCallback]

newAccount(u) == users[u].is = "unused" /\ \A v \in 1..(u - 1) : users[v].is # "unused"
newNonce(n) == store[n].kind = "unused" /\ \A m \in 1..(n - 1) : store[m].kind # "unused"
exists(u) == u \in Accounts /\ users[u].is = "user"
holder(provider, person) ==
  IF \E u \in Accounts : exists(u) /\ users[u].ids[provider] = person
  THEN CHOOSE u \in Accounts : exists(u) /\ users[u].ids[provider] = person
  ELSE None

\* The unique indexes on github_id, google_id and email.
unique(rows) ==
  \A u, v \in Accounts :
    u # v =>
      /\ \A p \in Providers : rows[u].ids[p] = None \/ rows[u].ids[p] # rows[v].ids[p]
      /\ rows[u].mail = None \/ rows[u].mail # rows[v].mail

\* A statement that breaks a constraint changes nothing, and fails.
Write(rows, succeeds, fails) ==
  IF unique(rows) THEN users' = rows /\ succeeds ELSE users' = users /\ fails

Finish(c) == cb' = [cb EXCEPT ![c] = noCallback]
callbackAt(c, place) == cb[c].at = place
MoveOn(c, place) == cb' = [cb EXCEPT ![c].at = place]

-----------------------------------------------------------------------------
(* What happens elsewhere: sign-up by phone, domains, admins.              *)

SignUp(u) ==
  /\ newAccount(u)
  /\ users' = [users EXCEPT ![u] = userRow("user")]
  /\ UNCHANGED <<owner, store, cb>>

ReserveDomain(u, d) ==
  /\ exists(u) /\ owner[d] = None
  /\ owner' = [owner EXCEPT ![d] = u]
  /\ UNCHANGED <<users, store, cb>>

\* The rows that refer to a user are deleted with it.
RemoveUser(u) == users' = [users EXCEPT ![u] = userRow("deleted")]
Cascade(u, rows) == [d \in Reserved |-> IF rows[d] = u THEN None ELSE rows[d]]

AdminDeletes(u) ==
  /\ exists(u)
  /\ RemoveUser(u) /\ owner' = Cascade(u, owner)
  /\ UNCHANGED <<store, cb>>

-----------------------------------------------------------------------------
(* oauthStore.                                                             *)

\* handleGitHubAuth, handleGoogleAuth: a state without an account; the link
\* handlers: one with the account that asks.
CreateState(n, u) ==
  /\ newNonce(n) /\ (u = None \/ exists(u))
  /\ store' = [store EXCEPT ![n] = nonce("state", u)]
  /\ UNCHANGED <<users, owner, cb>>

\* ConsumeState and ExchangeCode: a nonce is deleted when it is looked up.
Consume(n) == store' = [store EXCEPT ![n] = nonce("gone", None)]

\* It is too old, for a request or for Cleanup; or the server has restarted.
Expire(n) ==
  /\ store[n].kind \in {"state", "code"}
  /\ store' = [store EXCEPT ![n] = nonce("gone", None)]
  /\ UNCHANGED <<users, owner, cb>>

\* handleOAuthExchange hands the tokens over.
Exchange(n) ==
  /\ store[n].kind = "code"
  /\ Consume(n)
  /\ UNCHANGED <<users, owner, cb>>

-----------------------------------------------------------------------------
(* The callbacks.                                                          *)

Callback(c, n) ==
  /\ callbackAt(c, "idle") /\ store[n].kind = "state"
  /\ Consume(n)
  /\ cb' = [cb EXCEPT ![c] = [noCallback EXCEPT !.at = "provider", !.asker = store[n].account]]
  /\ UNCHANGED <<users, owner>>

\* The provider tells whose code it is, with the address or without.
Identify(c, provider, person, told) ==
  /\ callbackAt(c, "provider")
  /\ cb' = [cb EXCEPT ![c].at = "find", ![c].provider = provider, ![c].person = person,
                      ![c].mail = IF told THEN person ELSE None]
  /\ UNCHANGED <<users, owner, store>>

\* The exchange with the provider fails, or the server dies.
AbandonCallback(c) ==
  /\ cb[c] # noCallback
  /\ Finish(c)
  /\ UNCHANGED <<users, owner, store>>

\* GetByGitHubID, GetByGoogleID: what is done depends on who is found.
Find(c) ==
  /\ callbackAt(c, "find")
  /\ LET found == holder(cb[c].provider, cb[c].person)
         next == IF cb[c].asker # None
                 THEN IF found \notin {None, cb[c].asker} THEN "merge" ELSE "link"
                 ELSE IF found = None THEN "create"
                 ELSE IF users[found].mail = None /\ cb[c].mail # None THEN "mail" ELSE "session"
     IN cb' = [cb EXCEPT ![c].at = next, ![c].found = found]
  /\ UNCHANGED <<users, owner, store>>

\* CreateOAuth.
CreateOAuth(c, u) ==
  /\ callbackAt(c, "create") /\ newAccount(u)
  /\ LET new == [is |-> "user", ids |-> [noIds EXCEPT ![cb[c].provider] = cb[c].person],
                  mail |-> cb[c].mail]
     IN Write([users EXCEPT ![u] = new],
           cb' = [cb EXCEPT ![c].at = "session", ![c].found = u], Finish(c))
  /\ UNCHANGED <<owner, store>>

\* UpdateEmail of a user that had none when it was read; it may fail.
FillMail(c) ==
  /\ callbackAt(c, "mail")
  /\ IF exists(cb[c].found)
     THEN Write([users EXCEPT ![cb[c].found].mail = cb[c].mail], TRUE, TRUE)
     ELSE UNCHANGED users
  /\ MoveOn(c, "session")
  /\ UNCHANGED <<owner, store>>

\* Sessions.Create, which needs the user, and CreateCode for its tokens.
OAuthSignIn(c, n) ==
  /\ callbackAt(c, "session") /\ newNonce(n)
  /\ store' = IF exists(cb[c].found)
              THEN [store EXCEPT ![n] = nonce("code", cb[c].found)] ELSE store
  /\ Finish(c)
  /\ UNCHANGED <<users, owner>>

\* LinkGitHub, LinkGoogle: they replace the account's identity, and its address
\* only if it has none.
linked(u, c) ==
  [users EXCEPT ![u].ids[cb[c].provider] = cb[c].person,
                ![u].mail = IF @ = None THEN cb[c].mail ELSE @]

Link(c) ==
  /\ callbackAt(c, "link")
  /\ IF exists(cb[c].asker) THEN Write(linked(cb[c].asker, c), TRUE, TRUE) ELSE UNCHANGED users
  /\ Finish(c)
  /\ UNCHANGED <<owner, store>>

\* The transaction of MergeUsers moves what the secondary has,
moved(primary, secondary) == [d \in Reserved |-> IF owner[d] = secondary THEN primary ELSE owner[d]]

\* gives the primary what it lacks, while the secondary still has it,
completed(primary, secondary) ==
  LET p == users[primary]
      s == users[secondary]
  IN [users EXCEPT ![primary] =
       [is |-> "user",
        ids |-> [q \in Providers |-> IF p.ids[q] = None THEN s.ids[q] ELSE p.ids[q]],
        mail |-> IF p.mail = None THEN s.mail ELSE p.mail]]

\* Mutant: reserved_domains is not in the list of tables.
MergeUsersForgets(primary, secondary) ==
  IF exists(primary) /\ exists(secondary) /\ unique(completed(primary, secondary))
  THEN /\ users' = [completed(primary, secondary) EXCEPT ![secondary] = userRow("deleted")]
       /\ owner' = Cascade(secondary, owner)
  ELSE UNCHANGED <<users, owner>>

\* and deletes the secondary. All or nothing: it fails when the primary would
\* get an identity or an address, which are unique; and when the primary is
\* gone, for the audit log of the secondary cannot refer to it.
MergeUsers(primary, secondary) ==
  IF exists(primary) /\ exists(secondary) /\ unique(completed(primary, secondary))
  THEN /\ users' = [completed(primary, secondary) EXCEPT ![secondary] = userRow("deleted")]
       /\ owner' = Cascade(secondary, moved(primary, secondary))
  ELSE UNCHANGED <<users, owner>>

Merge(c) ==
  /\ callbackAt(c, "merge")
  /\ MergeUsers(cb[c].asker, cb[c].found)
  /\ Finish(c)
  /\ UNCHANGED <<store>>

\* handleMergeUsers.
AdminMerges(u, v) ==
  /\ exists(u) /\ exists(v) /\ u # v
  /\ MergeUsers(u, v)
  /\ UNCHANGED <<store, cb>>

CallbackStep(c) ==
  \/ AbandonCallback(c) \/ Find(c) \/ FillMail(c) \/ Link(c) \/ Merge(c)
  \/ \E n \in Nonces : Callback(c, n) \/ OAuthSignIn(c, n)
  \/ \E p \in Providers, x \in People, told \in BOOLEAN : Identify(c, p, x, told)
  \/ \E u \in Accounts : CreateOAuth(c, u)

OAuthNext ==
  \/ \E c \in Callbacks : CallbackStep(c)
  \/ \E n \in Nonces : Expire(n) \/ Exchange(n) \/ \E u \in Accounts \cup {None} : CreateState(n, u)
  \/ \E u \in Accounts :
       \/ SignUp(u) \/ AdminDeletes(u)
       \/ \E d \in Reserved : ReserveDomain(u, d)
       \/ \E v \in Accounts : AdminMerges(u, v)

OAuthSpec == OAuthInit /\ [][OAuthNext]_oauthVars

-----------------------------------------------------------------------------

\* Linking never ends the account of the user who asks for it: the account that
\* is dissolved is the one the identity was found at.
AskerStays ==
  [][ \A c \in Callbacks : callbackAt(c, "merge") /\ cb'[c] = noCallback /\ exists(cb[c].asker) =>
        users'[cb[c].asker].is = "user" ]_oauthVars

\* "transfers all data": only an admin who deletes an account takes domains away.
DomainsStay ==
  [][ \A d \in Reserved : owner[d] # None /\ owner'[d] = None => AdminDeletes(owner[d]) ]_oauthVars

\* Merging accounts keeps the one that asks, and the domains of both (the link
\* callbacks, MergeUsers).
MergesKeep == AskerStays /\ DomainsStay
=============================================================================
