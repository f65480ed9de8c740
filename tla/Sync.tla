-------------------------------- MODULE Sync --------------------------------
(* Copies of an account's bundles and settings in the desktop applications   *)
(* it is used on, and the server's copy (internal/gui/sync_service.go,       *)
(* internal/api/handlers_sync.go). Every change starts a goroutine that      *)
(* sends the whole list; the server keeps the newest by updated_at. Requests *)
(* may overtake each other and get lost, and nobody sends one again.         *)
EXTENDS NoValue, Naturals

CONSTANTS Apps,     \* applications signed in to the account
          Bundles, Settings, \* names of bundles and keys of settings
          Senders,  \* goroutines that send at the same time
          MaxClock  \* bound: writes, each at a time of its own

Items == Bundles \cup Settings

VARIABLES
  clock,   \* the time of the last write
  local,   \* the tables of an application
  server,  \* user_bundles, user_settings
  sent,    \* the request of a sender
  pulled,  \* what Pull has brought to an application, and is not used yet
  applying, \* the bundle ApplyServerData is about to write, or None
  behind,  \* items of an application that no request has brought to the server (history)
  since    \* the time of that Pull (history)

syncVars == <<clock, local, server, sent, pulled, applying, behind, since>>

\* edit: when a user wrote this value; stamp: updated_at.
Written == [edit : 1..MaxClock, stamp : 1..MaxClock]
nothing == [i \in Items |-> None]
quiet == [app |-> None, items |-> nothing]
now == clock + 1

SyncInit ==
  /\ clock = 0
  /\ local = [a \in Apps |-> nothing] /\ server = nothing
  /\ sent = [s \in Senders |-> quiet] /\ pulled = [a \in Apps |-> nothing]
  /\ applying = [a \in Apps |-> None]
  /\ behind = [a \in Apps |-> {}] /\ since = [a \in Apps |-> 0]

Tick == clock < MaxClock /\ clock' = now

-----------------------------------------------------------------------------
(* The application.                                                        *)

\* BundleService.Create and Update, and the change of a setting. The request
\* that follows is Send; offline, it is left out.
Edit(a, i) ==
  /\ Tick
  /\ local' = [local EXCEPT ![a][i] = [edit |-> now, stamp |-> now]]
  /\ behind' = [behind EXCEPT ![a] = @ \cup {i}]
  /\ UNCHANGED <<server, sent, pulled, applying, since>>

\* BundleService.Delete: the lists that are sent do not mention the bundle. Its
\* row is lost to whoever has looked it up: no other row gets its id.
Delete(a, b) ==
  /\ local[a][b] # None
  /\ local' = [local EXCEPT ![a][b] = None]
  /\ behind' = [behind EXCEPT ![a] = @ \ {b}]
  /\ applying' = IF applying[a] # None /\ applying[a].item = b THEN [applying EXCEPT ![a].lost = TRUE] ELSE applying
  /\ UNCHANGED <<clock, server, sent, pulled, since>>

\* SyncBundles sends bundles with the time they were written at; SyncSettings
\* sends settings with the time they are sent at.
Send(a, s, items) ==
  /\ sent[s] = quiet
  /\ IF items = Settings THEN Tick ELSE UNCHANGED clock
  /\ sent' = [sent EXCEPT ![s] = [app |-> a, items |-> [i \in Items |->
       IF i \notin items \/ local[a][i] = None THEN None
       ELSE IF i \in Settings THEN [local[a][i] EXCEPT !.stamp = now]
       ELSE local[a][i]]]]
  /\ UNCHANGED <<local, server, pulled, applying, behind, since>>

Lose(s) ==
  /\ sent[s] # quiet
  /\ sent' = [sent EXCEPT ![s] = quiet]
  /\ UNCHANGED <<clock, local, server, pulled, applying, behind, since>>

-----------------------------------------------------------------------------
(* The server: SyncBulk of both repositories, each one transaction.        *)

newer(incoming, existing) == existing = None \/ incoming.stamp > existing.stamp

\* Mutant: the bundles that exist are left as they are.
MergedNewOnly(items) ==
  [i \in Items |-> IF items[i] # None /\ server[i] = None THEN items[i] ELSE server[i]]
Merged(items) ==
  [i \in Items |-> IF items[i] # None /\ newer(items[i], server[i]) THEN items[i] ELSE server[i]]

SyncBulk(s) ==
  /\ sent[s] # quiet
  /\ LET a == sent[s].app
         items == sent[s].items
         \* What is in the list as it is now in the application.
         current == {i \in Items : items[i] # None /\ local[a][i] # None
                                     /\ items[i].edit = local[a][i].edit}
     IN /\ server' = Merged(items)
        /\ behind' = [behind EXCEPT ![a] = @ \ current]
  /\ sent' = [sent EXCEPT ![s] = quiet]
  /\ UNCHANGED <<clock, local, pulled, applying, since>>

-----------------------------------------------------------------------------
(* Login takes over what the server has, in a goroutine.                   *)

Pull(a) ==
  /\ pulled[a] = nothing
  /\ pulled' = [pulled EXCEPT ![a] = server]
  /\ since' = [since EXCEPT ![a] = IF server = nothing THEN 0 ELSE clock]
  /\ UNCHANGED <<clock, local, server, sent, applying, behind>>

\* Mutant: the server's bundle is taken, newer or not.
TakesAny(theirs, mine) == TRUE
Takes(theirs, mine) == mine = None \/ theirs.stamp > mine.stamp

\* The item is done with.
Used(a, i) ==
  /\ pulled' = [pulled EXCEPT ![a][i] = None]
  /\ since' = [since EXCEPT ![a] = IF pulled'[a] = nothing THEN 0 ELSE @]

\* ApplyServerData looks for its own bundle, and may fail to read it; a bundle
\* that is newer is taken.
Look(a, b) ==
  /\ applying[a] = None /\ pulled[a][b] # None
  /\ \E mine \in {local[a][b], None} :
       IF Takes(pulled[a][b], mine)
       THEN applying' = [applying EXCEPT ![a] = [item |-> b, mine |-> mine, lost |-> FALSE]]
            /\ UNCHANGED <<pulled, since>>
       ELSE Used(a, b) /\ UNCHANGED applying
  /\ UNCHANGED <<clock, local, server, sent, behind>>

\* It is updated by the id of the row that was found, or created: then no row
\* may have its name. It is stamped with the time of the write, and sent by nobody.
PutBundle(a) ==
  /\ applying[a] # None
  /\ LET b == applying[a].item
         fits == IF applying[a].mine = None THEN local[a][b] = None ELSE ~applying[a].lost
     IN /\ \/ /\ fits /\ Tick
              /\ local' = [local EXCEPT ![a][b] = [pulled[a][b] EXCEPT !.stamp = now]]
              /\ behind' = [behind EXCEPT ![a] = @ \ {b}]
           \/ UNCHANGED <<clock, local, behind>>  \* an error, which is ignored
        /\ Used(a, b)
  /\ applying' = [applying EXCEPT ![a] = None]
  /\ UNCHANGED <<server, sent>>

\* After the bundles; a setting is always taken, and has no time.
SetSetting(a, g) ==
  /\ pulled[a][g] # None /\ \A b \in Bundles : pulled[a][b] = None
  /\ local' = [local EXCEPT ![a][g] = pulled[a][g]]
  /\ behind' = [behind EXCEPT ![a] = @ \ {g}]
  /\ Used(a, g)
  /\ UNCHANGED <<clock, server, sent, applying>>

SyncNext ==
  \/ \E a \in Apps :
       \/ Pull(a) \/ PutBundle(a)
       \/ \E i \in Items : Edit(a, i)
       \/ \E b \in Bundles : Delete(a, b) \/ Look(a, b)
       \/ \E g \in Settings : SetSetting(a, g)
       \/ \E s \in Senders, items \in {Bundles, Settings} : Send(a, s, items)
  \/ \E s \in Senders : Lose(s) \/ SyncBulk(s)

SyncSpec == SyncInit /\ [][SyncNext]_syncVars

-----------------------------------------------------------------------------
\* An old list that arrives late, behind others or another application's,
\* never takes an item back to an older updated_at (the comparison in SyncBulk).
ServerForward ==
  [][ \A i \in Items : server[i] # None => server'[i] # None /\ server'[i].stamp >= server[i].stamp ]_syncVars

\* Requests that got lost are made up for by any later one: what a list has
\* brought as the application still has it is at the server, or something with
\* a later updated_at.
ArrivedIsKept ==
  \A a \in Apps, i \in Items :
    local[a][i] # None /\ i \notin behind[a] =>
      server[i] # None /\ server[i].stamp >= local[a][i].edit

\* A bundle that its user has written after a Pull is not written over with what
\* the Pull has brought, unless the row that ApplyServerData found was edited
\* before it wrote: nothing keeps its look and its write together.
editedBetween(a, b) == ~applying[a].lost /\ applying[a].mine \notin {None, local[a][b]}
EditsSurviveApply ==
  [][ \A a \in Apps : applying[a] # None /\ applying'[a] = None =>
        LET b == applying[a].item IN
        local[a][b] # None /\ local[a][b].edit > since[a] /\ ~editedBetween(a, b) =>
          local'[a][b] = local[a][b] ]_syncVars

\* A newer edit is not undone by an older one, on the server (SyncBulk) or in
\* the application (ApplyServerData).
NewerStays == ServerForward /\ EditsSurviveApply
=============================================================================
