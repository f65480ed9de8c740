------------------------------- MODULE MCWeb -------------------------------
(* Steps that overlap, one part of the system at a time: requests on the     *)
(* server's database, for accounts (three scenes), domains and identities;   *)
(* what the desktop applications keep in step with it, and the token one of  *)
(* them signs in with; the streams of a client whose sessions come and go.   *)
EXTENDS Accounts, OAuth, Domains, Sync, Desktop, Streams, TLC

\* The sets whose members are alike share two pairs of model values.
Symmetry == Permutations(Procs) \cup Permutations(Slots)

VARIABLE scene

webVars == <<vars, domainsVars, syncVars, desktopVars, streamsVars, oauthVars, scene>>

WebInit ==
  /\ Init /\ DomainsInit /\ SyncInit /\ DesktopInit /\ StreamsInit /\ OAuthInit
  /\ scene \in {"passwords", "second factor", "tokens", "domains", "copies", "desktop", "sessions",
                "identities"}

\* What an account's scene leaves out.
InScene ==
  \/ scene = "passwords" /\ tokens' = 0 /\ setUps' = 0 /\ \A p \in Procs : h'[p].at \notin {"token", "uncounted"}
  \/ scene = "second factor" /\ user' = user /\ tokens' = 0
     /\ \A p \in Procs : h'[p].at \notin {"refresh", "change", "profile", "admin", "token", "uncounted"}
  \/ scene = "tokens" /\ setUps' = 0 /\ passwords' = 1 /\ \A s \in Slots : sessions'[s] = None

\* Visitors of a client whose sessions matter send requests.
Requesting == \A v \in Visitors : visitor'[v].at \notin {"tcp", "upgrade"}

WebNext ==
  /\ UNCHANGED scene
  /\ \/ scene \in {"passwords", "second factor", "tokens"} /\ Next /\ InScene
        /\ UNCHANGED <<domainsVars, syncVars, desktopVars, streamsVars, oauthVars>>
     \/ scene = "domains" /\ DomainsNext
        /\ UNCHANGED <<vars, syncVars, desktopVars, streamsVars, oauthVars>>
     \/ scene = "copies" /\ SyncNext
        /\ UNCHANGED <<vars, domainsVars, desktopVars, streamsVars, oauthVars>>
     \/ scene = "desktop" /\ DesktopNext
        /\ UNCHANGED <<vars, domainsVars, syncVars, streamsVars, oauthVars>>
     \/ scene = "sessions" /\ StreamsNext /\ Requesting
        /\ UNCHANGED <<vars, domainsVars, syncVars, desktopVars, oauthVars>>
     \/ scene = "identities" /\ OAuthNext
        /\ UNCHANGED <<vars, domainsVars, syncVars, desktopVars, streamsVars>>

WebSpec == WebInit /\ [][WebNext]_webVars

=============================================================================
