------------------------------ MODULE AppProofs -------------------------------
(***************************************************************************)
(* Proofs about the desktop application: Sync, for any number of           *)
(* applications, items and requests, and Desktop, for any number of        *)
(* clients and of refresh tokens.                                          *)
(***************************************************************************)
EXTENDS Sync, Desktop, TLAPS

-----------------------------------------------------------------------------
(* Sync. Stamps never lie in the future, and never before the edit they     *)
(* stand for; what has been pulled is no newer than what the server has now. *)

Entry == [edit : Nat, stamp : Nat]

\* A row that a user can have written by the given time.
Sound(row, time) == row = None \/ (row \in Entry /\ row.edit <= row.stamp /\ row.stamp <= time)
SoundList(list, time) == \A i \in Items : Sound(list[i], time)

Lists == [Items -> {None} \cup Entry]
Puts == [item : Bundles, mine : {None} \cup Entry, lost : BOOLEAN]

Types ==
  /\ clock \in Nat
  /\ local \in [Apps -> Lists] /\ server \in Lists
  /\ DOMAIN sent = Senders /\ sent = [s \in Senders |-> sent[s]]
  /\ \A s \in Senders : sent[s] = quiet \/ (sent[s].app \in Apps /\ sent[s].items \in Lists)
  /\ pulled \in [Apps -> Lists] /\ applying \in [Apps -> {None} \cup Puts]
  /\ behind \in [Apps -> SUBSET Items] /\ since \in [Apps -> Nat]

Stamps ==
  /\ \A a \in Apps : SoundList(local[a], clock)
  /\ SoundList(server, clock)
  /\ \A s \in Senders : sent[s] # quiet => SoundList(sent[s].items, clock)

\* What was pulled is as old as the Pull, and the server has it or newer; what
\* is about to be written is newer than what was there.
Pulls ==
  \A a \in Apps :
    /\ since[a] <= clock /\ SoundList(pulled[a], since[a])
    /\ \A i \in Items : pulled[a][i] # None =>
         server[i] # None /\ server[i].stamp >= pulled[a][i].stamp
    /\ applying[a] # None => LET b == applying[a].item IN
         pulled[a][b] # None /\ Takes(pulled[a][b], applying[a].mine)

SyncInv == Types /\ Stamps /\ Pulls /\ ArrivedIsKept

-----------------------------------------------------------------------------
\* The server's list only gets newer when a list is merged into it.
LEMMA MergedNewer ==
  ASSUME server \in Lists, NEW items \in Lists, NEW i \in Items
  PROVE  /\ Merged(items) \in Lists
         /\ Merged(items)[i] \in {server[i], items[i]}
         /\ server[i] # None => Merged(items)[i] # None /\ Merged(items)[i].stamp >= server[i].stamp
         /\ items[i] # None => Merged(items)[i] # None /\ Merged(items)[i].stamp >= items[i].stamp
<1>1. server[i] \in {None} \cup Entry /\ items[i] \in {None} \cup Entry
  BY DEF Lists
<1>2. Merged(items) \in Lists
  BY DEF Merged, Lists
<1>3. Merged(items)[i] = IF items[i] # None /\ newer(items[i], server[i]) THEN items[i] ELSE server[i]
  BY DEF Merged
<1>4. CASE items[i] # None /\ newer(items[i], server[i])
  BY <1>1, <1>2, <1>3, <1>4 DEF newer, Entry
<1>5. CASE ~(items[i] # None /\ newer(items[i], server[i]))
  BY <1>1, <1>2, <1>3, <1>5 DEF newer, Entry
<1>6. QED
  BY <1>4, <1>5

LEMMA SyncInvInit == SyncInit => SyncInv
<1> SUFFICES ASSUME SyncInit PROVE SyncInv
  OBVIOUS
<1>1. nothing \in Lists /\ \A i \in Items : nothing[i] = None
  BY DEF nothing, Lists
<1>2. Types
  BY <1>1 DEF SyncInit, Types
<1>3. Stamps /\ Pulls /\ ArrivedIsKept
  BY <1>1 DEF SyncInit, Stamps, Pulls, ArrivedIsKept, SoundList, Sound
<1>4. QED
  BY <1>2, <1>3 DEF SyncInv

\* What was sound stays so as time goes by.
LEMMA SoundLater ==
  ASSUME NEW list, NEW t \in Nat, NEW u \in Nat, t <= u, SoundList(list, t)
  PROVE  SoundList(list, u)
  BY DEF SoundList, Sound, Entry

-----------------------------------------------------------------------------
(* One lemma per action.                                                   *)

LEMMA EditStep ==
  ASSUME SyncInv, NEW a \in Apps, NEW i \in Items, Edit(a, i)
  PROVE  SyncInv'
<1> DEFINE row == [edit |-> now, stamp |-> now]
<1>1. clock' = clock + 1 /\ clock' \in Nat /\ row \in Entry /\ row.edit = clock' /\ row.stamp = clock'
  BY DEF Edit, Tick, now, SyncInv, Types, Entry
<1>2. /\ local' = [local EXCEPT ![a][i] = row] /\ behind' = [behind EXCEPT ![a] = @ \cup {i}]
      /\ UNCHANGED <<server, sent, pulled, applying, since>>
  BY DEF Edit
<1>3. Types'
  BY <1>1, <1>2 DEF SyncInv, Types, Lists
<1>4. \A b \in Apps, j \in Items : local'[b][j] = IF b = a /\ j = i THEN row ELSE local[b][j]
  BY <1>2 DEF SyncInv, Types, Lists
<1>5. Stamps'
  <2>1. \A b \in Apps : SoundList(local[b], clock')
    BY <1>1, SoundLater DEF SyncInv, Stamps, Types
  <2>2. \A b \in Apps : SoundList(local'[b], clock')
    BY <1>1, <1>4, <2>1 DEF SoundList, Sound
  <2>3. SoundList(server, clock') /\ \A s \in Senders : sent[s] # quiet => SoundList(sent[s].items, clock')
    BY <1>1, SoundLater DEF SyncInv, Stamps, Types
  <2>4. QED
    BY <1>2, <2>2, <2>3 DEF Stamps
<1>6. Pulls'
  BY <1>1, <1>2 DEF SyncInv, Pulls, Types
<1>7. ArrivedIsKept'
  BY <1>2, <1>4 DEF SyncInv, ArrivedIsKept, Types
<1>8. QED
  BY <1>3, <1>5, <1>6, <1>7 DEF SyncInv

LEMMA DeleteStep ==
  ASSUME SyncInv, NEW a \in Apps, NEW b \in Bundles, Delete(a, b)
  PROVE  SyncInv'
<1>1. /\ local' = [local EXCEPT ![a][b] = None] /\ behind' = [behind EXCEPT ![a] = @ \ {b}]
      /\ applying' = IF applying[a] # None /\ applying[a].item = b THEN [applying EXCEPT ![a].lost = TRUE] ELSE applying
      /\ UNCHANGED <<clock, server, sent, pulled, since>>
  BY DEF Delete
<1>2. Types'
  <2>1. local' \in [Apps -> Lists] /\ behind' \in [Apps -> SUBSET Items]
    BY <1>1 DEF SyncInv, Types, Lists, Items
  <2>2. applying' \in [Apps -> {None} \cup Puts]
    BY <1>1 DEF SyncInv, Types, Puts
  <2>3. QED
    BY <1>1, <2>1, <2>2 DEF SyncInv, Types
<1>3. \A c \in Apps, j \in Items : local'[c][j] = IF c = a /\ j = b THEN None ELSE local[c][j]
  BY <1>1 DEF SyncInv, Types, Lists
<1>4. Stamps'
  BY <1>1, <1>3 DEF SyncInv, Stamps, SoundList, Sound
<1>5. Pulls'
  <2>1. \A c \in Apps : applying'[c] # None =>
          applying[c] # None /\ applying'[c].item = applying[c].item /\ applying'[c].mine = applying[c].mine
    BY <1>1 DEF SyncInv, Types, Puts
  <2>2. QED
    BY <1>1, <2>1 DEF SyncInv, Pulls
<1>6. ArrivedIsKept'
  BY <1>1, <1>3 DEF SyncInv, ArrivedIsKept, Types
<1>7. QED
  BY <1>2, <1>4, <1>5, <1>6 DEF SyncInv

LEMMA SendStep ==
  ASSUME Bundles \cap Settings = {}, SyncInv, NEW a \in Apps, NEW s \in Senders,
         NEW items \in {Bundles, Settings}, Send(a, s, items)
  PROVE  SyncInv'
<1> DEFINE list == [i \in Items |->
       IF i \notin items \/ local[a][i] = None THEN None
       ELSE IF i \in Settings THEN [local[a][i] EXCEPT !.stamp = now]
       ELSE local[a][i]]
<1>1. /\ sent' = [sent EXCEPT ![s] = [app |-> a, items |-> list]]
      /\ UNCHANGED <<local, server, pulled, applying, behind, since>>
  BY DEF Send
<1>2. clock' \in Nat /\ clock <= clock' /\ (items = Settings => clock' = now)
  BY DEF Send, Tick, now, SyncInv, Types
<1>3. \A i \in Items : local[a][i] \in {None} \cup Entry /\ Sound(local[a][i], clock)
  BY DEF SyncInv, Types, Lists, Stamps, SoundList
<1>4. \A i \in Items : list[i] \in {None} \cup Entry /\ Sound(list[i], clock')
  <2> SUFFICES ASSUME NEW i \in Items PROVE list[i] \in {None} \cup Entry /\ Sound(list[i], clock')
    OBVIOUS
  <2>1. CASE i \notin items \/ local[a][i] = None
    BY <2>1 DEF Sound
  <2>2. CASE i \in items /\ local[a][i] # None /\ i \in Settings
    <3>1. list[i] = [local[a][i] EXCEPT !.stamp = now] /\ local[a][i] \in Entry
      BY <1>3, <2>2
    <3>2. list[i] \in Entry /\ list[i].edit = local[a][i].edit /\ list[i].stamp = now
      BY <3>1 DEF Entry, now, SyncInv, Types
    <3>3. local[a][i].edit <= clock /\ now = clock + 1
      BY <1>3, <2>2 DEF Sound, Entry, now, SyncInv, Types
    <3>4. now <= clock'
      <4>1. items = Settings
        BY <2>2
      <4>2. QED
        BY <1>2, <3>3, <4>1 DEF SyncInv, Types
    <3>5. QED
      BY <3>1, <3>2, <3>3, <3>4 DEF Sound, Entry, SyncInv, Types
  <2>3. CASE i \in items /\ local[a][i] # None /\ i \notin Settings
    BY <1>2, <1>3, <2>3 DEF Sound, Entry, SyncInv, Types
  <2>4. QED
    BY <2>1, <2>2, <2>3
<1>5. list \in Lists /\ SoundList(list, clock')
  BY <1>4 DEF Lists, SoundList
<1> HIDE DEF list
<1>6. \A t \in Senders : sent'[t] = IF t = s THEN [app |-> a, items |-> list] ELSE sent[t]
  BY <1>1 DEF SyncInv, Types
<1>7. Types'
  <2>1. DOMAIN sent' = Senders /\ sent' = [t \in Senders |-> sent'[t]]
    BY <1>1 DEF SyncInv, Types
  <2>2. QED
    BY <1>1, <1>2, <1>5, <1>6, <2>1 DEF SyncInv, Types
<1>8. Stamps'
  BY <1>1, <1>2, <1>5, <1>6, SoundLater DEF SyncInv, Types, Stamps
<1>9. Pulls' /\ ArrivedIsKept'
  BY <1>1, <1>2 DEF SyncInv, Types, Pulls, ArrivedIsKept
<1>10. QED
  BY <1>7, <1>8, <1>9 DEF SyncInv

LEMMA LoseStep ==
  ASSUME SyncInv, NEW s \in Senders, Lose(s)
  PROVE  SyncInv'
<1>1. sent' = [sent EXCEPT ![s] = quiet] /\ UNCHANGED <<clock, local, server, pulled, applying, behind, since>>
  BY DEF Lose
<1>2. \A t \in Senders : sent'[t] \in {quiet, sent[t]}
  BY <1>1 DEF SyncInv, Types
<1>3. Types'
  BY <1>1, <1>2 DEF SyncInv, Types
<1>4. Stamps' /\ Pulls' /\ ArrivedIsKept'
  BY <1>1, <1>2 DEF SyncInv, Stamps, Pulls, ArrivedIsKept
<1>5. QED
  BY <1>3, <1>4 DEF SyncInv

LEMMA SyncBulkStep ==
  ASSUME SyncInv, NEW s \in Senders, SyncBulk(s)
  PROVE  SyncInv'
<1> DEFINE a == sent[s].app
           items == sent[s].items
           current == {i \in Items : items[i] # None /\ local[a][i] # None /\ items[i].edit = local[a][i].edit}
<1>1. /\ server' = Merged(items) /\ behind' = [behind EXCEPT ![a] = @ \ current]
      /\ sent' = [sent EXCEPT ![s] = quiet] /\ UNCHANGED <<clock, local, pulled, applying, since>>
  BY DEF SyncBulk
<1>2. a \in Apps /\ items \in Lists /\ SoundList(items, clock)
  BY DEF SyncBulk, SyncInv, Types, Stamps
<1> HIDE DEF a, items
<1>3. server' \in Lists /\ \A i \in Items :
        /\ server'[i] \in {server[i], items[i]}
        /\ server[i] # None => server'[i] # None /\ server'[i].stamp >= server[i].stamp
        /\ items[i] # None => server'[i] # None /\ server'[i].stamp >= items[i].stamp
  <2>1. server' \in Lists
    BY <1>1, <1>2 DEF Merged, Lists, SyncInv, Types
  <2>2. QED
    BY <1>1, <1>2, <2>1, MergedNewer DEF SyncInv, Types
<1>4. \A t \in Senders : sent'[t] \in {quiet, sent[t]}
  BY <1>1 DEF SyncInv, Types
<1>5. Types'
  <2>1. behind' \in [Apps -> SUBSET Items]
    BY <1>1, <1>2 DEF SyncInv, Types
  <2>2. DOMAIN sent' = Senders /\ sent' = [t \in Senders |-> sent'[t]]
    BY <1>1 DEF SyncInv, Types
  <2>3. \A t \in Senders : sent'[t] = quiet \/ (sent'[t].app \in Apps /\ sent'[t].items \in Lists)
    BY <1>4 DEF SyncInv, Types
  <2>4. QED
    BY <1>1, <1>3, <2>1, <2>2, <2>3 DEF SyncInv, Types
<1>6. Stamps'
  BY <1>1, <1>2, <1>3, <1>4 DEF SyncInv, Stamps, SoundList
<1>7. Pulls'
  <2> SUFFICES ASSUME NEW b \in Apps, NEW i \in Items, pulled[b][i] # None
               PROVE  server'[i] # None /\ server'[i].stamp >= pulled[b][i].stamp
    BY <1>1 DEF SyncInv, Pulls
  <2>1. server[i] # None /\ server[i].stamp >= pulled[b][i].stamp
    BY DEF SyncInv, Pulls
  <2>2. server'[i] # None /\ server'[i].stamp >= server[i].stamp
    BY <1>3, <2>1
  <2>3. server[i] \in Entry /\ server'[i] \in Entry /\ pulled[b][i] \in Entry
    BY <1>3, <2>1, <2>2 DEF SyncInv, Types, Lists
  <2>4. QED
    BY <2>1, <2>2, <2>3 DEF Entry
<1>8. ArrivedIsKept'
  <2> SUFFICES ASSUME NEW b \in Apps, NEW i \in Items, local[b][i] # None, i \notin behind'[b]
               PROVE  server'[i] # None /\ server'[i].stamp >= local[b][i].edit
    BY <1>1 DEF ArrivedIsKept
  <2>1. local[b][i] \in Entry /\ server'[i] \in {None} \cup Entry /\ server[i] \in {None} \cup Entry
        /\ items[i] \in {None} \cup Entry
    BY <1>2, <1>3 DEF SyncInv, Types, Lists
  <2>2. CASE i \notin behind[b]
    <3>1. server[i] # None /\ server[i].stamp >= local[b][i].edit
      BY <2>2 DEF SyncInv, ArrivedIsKept
    <3>2. QED
      BY <1>3, <2>1, <3>1 DEF Entry
  <2>3. CASE i \in behind[b]
    <3>1. b = a /\ i \in current
      BY <1>1, <2>3 DEF SyncInv, Types
    <3>2. items[i] # None /\ items[i].edit = local[b][i].edit
      BY <3>1
    <3>3. items[i].edit <= items[i].stamp
      BY <1>2, <3>2 DEF SoundList, Sound
    <3>4. QED
      BY <1>3, <2>1, <3>2, <3>3 DEF Entry
  <2>4. QED
    BY <2>2, <2>3
<1>9. QED
  BY <1>5, <1>6, <1>7, <1>8 DEF SyncInv

LEMMA PullStep ==
  ASSUME SyncInv, NEW a \in Apps, Pull(a)
  PROVE  SyncInv'
<1>1. /\ pulled[a] = nothing /\ pulled' = [pulled EXCEPT ![a] = server]
      /\ since' = [since EXCEPT ![a] = IF server = nothing THEN 0 ELSE clock]
      /\ UNCHANGED <<clock, local, server, sent, applying, behind>>
  BY DEF Pull
<1>2. Types'
  BY <1>1 DEF SyncInv, Types
<1>3. Stamps' /\ ArrivedIsKept'
  BY <1>1 DEF SyncInv, Stamps, ArrivedIsKept
<1>4. applying[a] = None
  BY <1>1 DEF SyncInv, Types, Puts, Pulls, nothing, Items
<1>5. Pulls'
  <2> SUFFICES ASSUME NEW c \in Apps
               PROVE  /\ since'[c] <= clock /\ SoundList(pulled'[c], since'[c])
                      /\ \A i \in Items : pulled'[c][i] # None =>
                           server[i] # None /\ server[i].stamp >= pulled'[c][i].stamp
                      /\ applying[c] # None => LET b == applying[c].item IN
                           pulled'[c][b] # None /\ Takes(pulled'[c][b], applying[c].mine)
    BY <1>1 DEF Pulls
  <2>1. CASE c = a
    <3>1. pulled'[c] = server /\ since'[c] = IF server = nothing THEN 0 ELSE clock
      BY <1>1, <2>1 DEF SyncInv, Types
    <3>2. SoundList(server, since'[c]) /\ since'[c] <= clock
      BY <3>1 DEF SyncInv, Types, Stamps, SoundList, Sound, nothing
    <3>3. \A i \in Items : server[i] # None => server[i].stamp >= server[i].stamp
      BY DEF SyncInv, Types, Lists, Entry
    <3>4. QED
      BY <1>4, <2>1, <3>1, <3>2, <3>3
  <2>2. CASE c # a
    BY <1>1, <2>2 DEF SyncInv, Types, Pulls
  <2>3. QED
    BY <2>1, <2>2
<1>6. QED
  BY <1>2, <1>3, <1>5 DEF SyncInv

\* An item that is done with leaves what was pulled as it should be.
LEMMA UsedKeeps ==
  ASSUME SyncInv, NEW a \in Apps, NEW i \in Items, Used(a, i),
         UNCHANGED server, clock' \in Nat, clock <= clock',
         \A c \in Apps : applying'[c] # None => applying'[c] = applying[c] /\ (c = a => applying[c].item # i)
  PROVE  pulled' \in [Apps -> Lists] /\ since' \in [Apps -> Nat] /\ Pulls'
<1>1. /\ pulled' = [pulled EXCEPT ![a][i] = None]
      /\ since' = [since EXCEPT ![a] = IF pulled'[a] = nothing THEN 0 ELSE @]
  BY DEF Used
<1>2. pulled' \in [Apps -> Lists] /\ \A c \in Apps, j \in Items : pulled'[c][j] =
        IF c = a /\ j = i THEN None ELSE pulled[c][j]
  BY <1>1 DEF SyncInv, Types, Lists
<1>3. since' \in [Apps -> Nat] /\ \A c \in Apps : since'[c] = since[c] \/ (since'[c] = 0 /\ pulled'[c] = nothing)
  BY <1>1 DEF SyncInv, Types
<1>4. ASSUME NEW c \in Apps PROVE since'[c] <= clock' /\ SoundList(pulled'[c], since'[c])
  <2>1. since[c] <= clock /\ SoundList(pulled[c], since[c]) /\ since[c] \in Nat /\ clock \in Nat
    BY DEF SyncInv, Types, Pulls
  <2>2. CASE since'[c] = since[c]
    BY <1>2, <2>1, <2>2 DEF SoundList, Sound
  <2>3. CASE since'[c] = 0 /\ pulled'[c] = nothing
    BY <2>1, <2>3 DEF SoundList, Sound, nothing
  <2>4. QED
    BY <1>3, <2>2, <2>3
<1>5. ASSUME NEW c \in Apps, NEW j \in Items, pulled'[c][j] # None
      PROVE  server'[j] # None /\ server'[j].stamp >= pulled'[c][j].stamp
  BY <1>2, <1>5 DEF SyncInv, Pulls
<1>6. ASSUME NEW c \in Apps, applying'[c] # None
      PROVE  LET b == applying'[c].item IN pulled'[c][b] # None /\ Takes(pulled'[c][b], applying'[c].mine)
  <2>1. applying'[c] = applying[c] /\ applying[c].item \in Items /\ (c = a => applying[c].item # i)
    BY <1>6 DEF SyncInv, Types, Puts, Items
  <2>2. pulled'[c][applying[c].item] = pulled[c][applying[c].item]
    BY <1>2, <2>1
  <2>3. QED
    BY <1>6, <2>1, <2>2 DEF SyncInv, Pulls
<1>7. QED
  BY <1>2, <1>3, <1>4, <1>5, <1>6 DEF Pulls

LEMMA LookStep ==
  ASSUME SyncInv, NEW a \in Apps, NEW b \in Bundles, Look(a, b)
  PROVE  SyncInv'
<1>1. PICK mine \in {local[a][b], None} :
        IF Takes(pulled[a][b], mine)
        THEN applying' = [applying EXCEPT ![a] = [item |-> b, mine |-> mine, lost |-> FALSE]]
             /\ UNCHANGED <<pulled, since>>
        ELSE Used(a, b) /\ UNCHANGED applying
  BY DEF Look
<1>2. applying[a] = None /\ pulled[a][b] # None /\ UNCHANGED <<clock, local, server, sent, behind>> /\ b \in Items
  BY DEF Look, Items
<1>3. mine \in {None} \cup Entry
  BY <1>2 DEF SyncInv, Types, Lists
<1>4. CASE Takes(pulled[a][b], mine)
  <2> DEFINE put == [item |-> b, mine |-> mine, lost |-> FALSE]
  <2>1. applying' = [applying EXCEPT ![a] = put] /\ UNCHANGED <<pulled, since>>
    BY <1>1, <1>4
  <2>2. put \in Puts /\ put.item = b /\ put.mine = mine
    BY <1>3 DEF Puts
  <2> HIDE DEF put
  <2>3. Types' /\ Stamps' /\ ArrivedIsKept'
    BY <1>2, <2>1, <2>2 DEF SyncInv, Types, Stamps, ArrivedIsKept
  <2>4. \A c \in Apps : applying'[c] = IF c = a THEN put ELSE applying[c]
    BY <2>1 DEF SyncInv, Types
  <2>5. Pulls'
    BY <1>2, <1>4, <2>1, <2>2, <2>4 DEF SyncInv, Pulls
  <2>6. QED
    BY <2>3, <2>5 DEF SyncInv
<1>5. CASE ~Takes(pulled[a][b], mine)
  <2>1. Used(a, b) /\ UNCHANGED applying
    BY <1>1, <1>5
  <2>2. clock' \in Nat /\ clock <= clock'
    BY <1>2 DEF SyncInv, Types
  <2>3. pulled' \in [Apps -> Lists] /\ since' \in [Apps -> Nat] /\ Pulls'
    BY <1>2, <2>1, <2>2, UsedKeeps
  <2>4. Types' /\ Stamps' /\ ArrivedIsKept'
    BY <1>2, <2>1, <2>3 DEF SyncInv, Types, Stamps, ArrivedIsKept
  <2>5. QED
    BY <2>3, <2>4 DEF SyncInv
<1>6. QED
  BY <1>4, <1>5

\* An item that was pulled takes the place of the application's own.
LEMMA TakenKeeps ==
  ASSUME SyncInv, NEW a \in Apps, NEW i \in Items, NEW row \in Entry, pulled[a][i] # None,
         row.edit = pulled[a][i].edit, Sound(row, clock'), clock' \in Nat, clock <= clock',
         local' = [local EXCEPT ![a][i] = row], behind' = [behind EXCEPT ![a] = @ \ {i}],
         UNCHANGED <<server, sent>>
  PROVE  local' \in [Apps -> Lists] /\ behind' \in [Apps -> SUBSET Items] /\ Stamps' /\ ArrivedIsKept'
<1>1. local' \in [Apps -> Lists] /\ \A c \in Apps, j \in Items : local'[c][j] =
        IF c = a /\ j = i THEN row ELSE local[c][j]
  BY DEF SyncInv, Types, Lists
<1>2. behind' \in [Apps -> SUBSET Items] /\ \A c \in Apps : behind'[c] = IF c = a THEN behind[c] \ {i} ELSE behind[c]
  BY DEF SyncInv, Types
<1>3. Stamps'
  <2>1. \A c \in Apps : SoundList(local[c], clock')
    BY SoundLater DEF SyncInv, Stamps, Types
  <2>2. \A c \in Apps : SoundList(local'[c], clock')
    BY <1>1, <2>1 DEF SoundList
  <2>3. SoundList(server, clock') /\ \A t \in Senders : sent[t] # quiet => SoundList(sent[t].items, clock')
    BY SoundLater DEF SyncInv, Stamps, Types
  <2>4. QED
    BY <2>2, <2>3 DEF Stamps
<1>4. ArrivedIsKept'
  <2> SUFFICES ASSUME NEW c \in Apps, NEW j \in Items, local'[c][j] # None, j \notin behind'[c]
               PROVE  server[j] # None /\ server[j].stamp >= local'[c][j].edit
    BY DEF ArrivedIsKept
  <2>1. CASE c = a /\ j = i
    <3>1. server[i] # None /\ server[i].stamp >= pulled[a][i].stamp
      BY DEF SyncInv, Pulls
    <3>2. server[i] \in Entry /\ pulled[a][i] \in Entry /\ pulled[a][i].edit <= pulled[a][i].stamp
      BY <3>1 DEF SyncInv, Types, Lists, Pulls, SoundList, Sound
    <3>3. QED
      BY <1>1, <2>1, <3>1, <3>2 DEF Entry
  <2>2. CASE ~(c = a /\ j = i)
    BY <1>1, <1>2, <2>2 DEF SyncInv, ArrivedIsKept
  <2>3. QED
    BY <2>1, <2>2
<1>5. QED
  BY <1>1, <1>2, <1>3, <1>4

LEMMA PutStep ==
  ASSUME SyncInv, NEW a \in Apps, PutBundle(a)
  PROVE  SyncInv'
<1> DEFINE b == applying[a].item
           row == [pulled[a][b] EXCEPT !.stamp = now]
<1>1. /\ applying[a] # None /\ applying' = [applying EXCEPT ![a] = None] /\ Used(a, b)
      /\ UNCHANGED <<server, sent>>
  BY DEF PutBundle
<1>2. \/ clock' = now /\ local' = [local EXCEPT ![a][b] = row] /\ behind' = [behind EXCEPT ![a] = @ \ {b}]
      \/ UNCHANGED <<clock, local, behind>>
  BY DEF PutBundle, Tick
<1>3. b \in Items /\ clock \in Nat /\ now \in Nat /\ clock <= now
  BY <1>1 DEF SyncInv, Types, Puts, Items, now
<1>4. pulled[a][b] # None /\ pulled[a][b] \in Entry /\ Sound(pulled[a][b], clock)
  BY <1>1, <1>3 DEF SyncInv, Types, Lists, Pulls, SoundList, Sound, Entry
<1>5. row \in Entry /\ row.edit = pulled[a][b].edit /\ Sound(row, now)
  <2>1. row \in Entry /\ row.edit = pulled[a][b].edit /\ row.stamp = now
    BY <1>3, <1>4 DEF Entry
  <2>2. QED
    BY <1>3, <1>4, <2>1 DEF Sound, Entry
<1>6. applying' \in [Apps -> {None} \cup Puts] /\ \A c \in Apps : applying'[c] # None => applying'[c] = applying[c] /\ c # a
  BY <1>1 DEF SyncInv, Types
<1> HIDE DEF b, row
<1>7. clock' \in Nat /\ clock <= clock'
  BY <1>2, <1>3
<1>8. pulled' \in [Apps -> Lists] /\ since' \in [Apps -> Nat] /\ Pulls'
  BY <1>1, <1>3, <1>6, <1>7, UsedKeeps
<1>9. local' \in [Apps -> Lists] /\ behind' \in [Apps -> SUBSET Items] /\ Stamps' /\ ArrivedIsKept'
  <2>1. CASE UNCHANGED <<clock, local, behind>>
    BY <1>1, <2>1 DEF SyncInv, Types, Stamps, ArrivedIsKept
  <2>2. CASE clock' = now /\ local' = [local EXCEPT ![a][b] = row] /\ behind' = [behind EXCEPT ![a] = @ \ {b}]
    BY <1>1, <1>3, <1>4, <1>5, <1>7, <2>2, TakenKeeps
  <2>3. QED
    BY <1>2, <2>1, <2>2
<1>10. Types'
  BY <1>1, <1>6, <1>7, <1>8, <1>9 DEF SyncInv, Types
<1>11. QED
  BY <1>8, <1>9, <1>10 DEF SyncInv

LEMMA SetSettingStep ==
  ASSUME Bundles \cap Settings = {}, SyncInv, NEW a \in Apps, NEW g \in Settings, SetSetting(a, g)
  PROVE  SyncInv'
<1> DEFINE row == pulled[a][g]
<1>1. /\ row # None /\ local' = [local EXCEPT ![a][g] = row] /\ behind' = [behind EXCEPT ![a] = @ \ {g}]
      /\ Used(a, g) /\ UNCHANGED <<clock, server, sent, applying>>
  BY DEF SetSetting
<1>2. g \in Items /\ clock \in Nat /\ \A b \in Bundles : b # g
  BY DEF SyncInv, Types, Items
<1>3. row \in Entry /\ Sound(row, clock)
  BY <1>1, <1>2 DEF SyncInv, Types, Lists, Pulls, SoundList, Sound, Entry
<1>4. \A c \in Apps : applying[c] # None => applying[c].item # g
  BY <1>2 DEF SyncInv, Types, Puts
<1>5. clock' \in Nat /\ clock <= clock' /\ Sound(row, clock')
  BY <1>1, <1>2, <1>3
<1>6. pulled' \in [Apps -> Lists] /\ since' \in [Apps -> Nat] /\ Pulls'
  BY <1>1, <1>2, <1>4, <1>5, UsedKeeps
<1>7. local' \in [Apps -> Lists] /\ behind' \in [Apps -> SUBSET Items] /\ Stamps' /\ ArrivedIsKept'
  BY <1>1, <1>2, <1>3, <1>5, TakenKeeps
<1>8. Types'
  BY <1>1, <1>5, <1>6, <1>7 DEF SyncInv, Types
<1>9. QED
  BY <1>6, <1>7, <1>8 DEF SyncInv

LEMMA SyncStep ==
  ASSUME Bundles \cap Settings = {}, SyncInv, [SyncNext]_syncVars
  PROVE  SyncInv'
<1>1. CASE UNCHANGED syncVars
  BY <1>1 DEF syncVars, SyncInv, Types, Stamps, Pulls, ArrivedIsKept
<1>2. QED
  BY <1>1, EditStep, DeleteStep, SendStep, LoseStep, SyncBulkStep, PullStep, LookStep, PutStep,
     SetSettingStep DEF SyncNext

-----------------------------------------------------------------------------
\* What has come to the server stays there, or is replaced by something newer,
\* whichever requests get lost or overtake each other (SyncBulk, ApplyServerData).
THEOREM ArrivedStays ==
  ASSUME Bundles \cap Settings = {}
  PROVE  SyncSpec => []ArrivedIsKept
<1>1. SyncSpec => []SyncInv
  BY SyncInvInit, SyncStep, PTL DEF SyncSpec
<1>2. SyncInv => ArrivedIsKept
  BY DEF SyncInv
<1>3. QED
  BY <1>1, <1>2, PTL

\* A newer edit is never undone by an older one, neither on the server nor in
\* the application, for any number of both (SyncBulk, ApplyServerData).
THEOREM NoOlderEdit ==
  ASSUME Bundles \cap Settings = {}, None \notin Puts
  PROVE  SyncSpec => NewerStays
<1> DEFINE forward == \A i \in Items :
             server[i] # None => server'[i] # None /\ server'[i].stamp >= server[i].stamp
           survive == \A a \in Apps : applying[a] # None /\ applying'[a] = None =>
             LET b == applying[a].item IN
             local[a][b] # None /\ local[a][b].edit > since[a] /\ ~editedBetween(a, b) =>
               local'[a][b] = local[a][b]
<1>1. SyncSpec => []SyncInv
  BY SyncInvInit, SyncStep, PTL DEF SyncSpec
<1>2. ASSUME SyncInv, SyncNext PROVE forward
  <2>1. ASSUME NEW s \in Senders, SyncBulk(s) PROVE forward
    <3>1. server' = Merged(sent[s].items) /\ sent[s].items \in Lists
      BY <1>2, <2>1 DEF SyncBulk, SyncInv, Types
    <3>2. QED
      BY <1>2, <3>1, MergedNewer DEF SyncInv, Types
  <2>2. ASSUME UNCHANGED server PROVE forward
    BY <1>2, <2>2 DEF SyncInv, Types, Lists, Entry
  <2>3. QED
    BY <1>2, <2>1, <2>2 DEF SyncNext, Edit, Delete, Send, Lose, Pull, Look, PutBundle, SetSetting
<1>3. ASSUME SyncInv, SyncNext PROVE survive
  <2> SUFFICES ASSUME NEW a \in Apps, applying[a] # None, applying'[a] = None,
                      local[a][applying[a].item] # None, local[a][applying[a].item].edit > since[a],
                      ~editedBetween(a, applying[a].item)
               PROVE  local'[a][applying[a].item] = local[a][applying[a].item]
    OBVIOUS
  <2> DEFINE b == applying[a].item
  <2>1. PutBundle(a)
    <3>1. ASSUME UNCHANGED applying PROVE FALSE
      BY <3>1
    <3>2. ASSUME NEW c \in Apps, c # a, PutBundle(c) PROVE FALSE
      BY <1>3, <3>2 DEF PutBundle, SyncInv, Types
    <3>3. ASSUME NEW c \in Apps, NEW d \in Bundles, Look(c, d) \/ Delete(c, d) PROVE FALSE
      <4>1. applying \in [Apps -> {None} \cup Puts]
        BY <1>3 DEF SyncInv, Types
      <4>2. ~Look(c, d)
        BY <3>1, <4>1 DEF Look, Puts
      <4>3. applying' = [applying EXCEPT ![c].lost = TRUE]
        BY <3>1, <3>3, <4>2 DEF Delete
      <4>4. applying[a] \in Puts /\ applying'[a] \in {applying[a], [applying[a] EXCEPT !.lost = TRUE]}
        BY <4>1, <4>3
      <4>5. QED
        BY <4>4 DEF Puts
    <3>4. QED
      BY <1>3, <3>1, <3>2, <3>3 DEF SyncNext, Edit, Send, Lose, SyncBulk, Pull, SetSetting
  <2>2. b \in Bundles /\ b \in Items /\ applying[a].mine \in {None} \cup Entry
    BY <1>3 DEF Items, SyncInv, Types, Puts
  <2>3. local[a][b] \in Entry /\ local[a][b].edit <= local[a][b].stamp
    BY <1>3, <2>2 DEF SyncInv, Types, Lists, Stamps, SoundList, Sound
  <2>4. /\ since[a] \in Nat /\ pulled[a][b] \in Entry /\ pulled[a][b].stamp <= since[a]
        /\ Takes(pulled[a][b], applying[a].mine)
    BY <1>3, <2>2 DEF SyncInv, Types, Lists, Pulls, SoundList, Sound
  <2>5. applying[a].mine = None \/ applying[a].lost
    BY <2>2, <2>3, <2>4 DEF Takes, Entry, editedBetween
  <2>6. ~(IF applying[a].mine = None THEN local[a][b] = None ELSE ~applying[a].lost)
    BY <2>5
  <2>7. UNCHANGED local
    BY <2>1, <2>6 DEF PutBundle
  <2>8. QED
    BY <2>7
<1>4. QED
  BY <1>1, <1>2, <1>3, PTL DEF SyncSpec, NewerStays, ServerForward, EditsSurviveApply

-----------------------------------------------------------------------------
(* Desktop.                                                                  *)

\* A step is one of these.
LEMMA DesktopSteps ==
  ASSUME [DesktopNext]_desktopVars
  PROVE  \/ \E keep \in BOOLEAN : DesktopLogin(keep)
         \/ AutoLogin \/ ConnectFails \/ AutoRefresh \/ AutoRefreshFails \/ Save
         \/ CloseClient \/ Clear \/ Exit \/ UNCHANGED desktopVars
         \/ \E c \in Clients : \/ Connect(c) \/ Disconnected(c) \/ Dialled(c)
                               \/ TokenExpired(c) \/ RefreshToken(c) \/ RefreshFails(c) \/ SaveRefreshed(c)
         \/ \E token \in 1..given : Revoke(token)
  BY DEF DesktopNext

-----------------------------------------------------------------------------
(* Types, and what the place of the user's call says about the client.     *)

Tokens == 0..given
UiCalls(tokens) == [at : {"idle", "connect", "refresh", "save", "clear"}, token : tokens, keep : BOOLEAN,
                    auto : {"no", "first", "second"}]
Loops(tokens) == [at : {"gone", "connected", "dialling", "refresh", "load"}, token : tokens,
                  keep : BOOLEAN, ends : BOOLEAN]

Numbers == given \in Nat /\ valid \subseteq Tokens \ {0} /\ app \in Tokens /\ keyring \in Tokens
LoopTypes == clients \in [Clients -> Loops(Tokens)] /\ client \in Clients \cup {None} /\ escaped \subseteq Clients

\* A call that connects or logs out has no client, one that saves has.
UiPlaces ==
  /\ ui \in UiCalls(Tokens)
  /\ ui.at \in {"connect", "refresh", "clear"} => client = None
  /\ ui.at = "save" => client # None /\ clients[client].keep
  /\ ui.at \in {"idle", "clear"} => ui.auto = "no"
  /\ ui.at = "refresh" => ui.auto = "first"
  /\ ui.auto # "no" => ui.keep

\* A loop is that of the client, or of one that has outlived its Close().
LoopPlaces ==
  /\ client # None => clients[client].at # "gone" /\ ~clients[client].ends /\ client \notin escaped
  /\ \A c \in Clients : clients[c].at # "gone" => c = client \/ c \in escaped
  /\ \A c \in Clients : clients[c].at = "gone" => clients[c] = noClient
  /\ \A c \in Clients : clients[c].at = "load" => clients[c].keep

PlaceInv == Numbers /\ LoopTypes /\ UiPlaces /\ LoopPlaces

-----------------------------------------------------------------------------
(* Logging out: nobody is left who could write to the keyring.             *)

Forgotten == forgotten /\ ~crossed =>
  keyring = 0 /\ ui.at \in {"idle", "clear"} /\ \A c \in Clients : clients[c].at = "gone"

-----------------------------------------------------------------------------
(* The saved token. Whoever renews it saves the new one: the refresher of a  *)
(* client that remembers, or AutoLogin. For this, everybody who has a token  *)
(* in hand must have one that nobody else renews.                            *)

loads(c) == clients[c].at = "load"

\* The saved token lives, or its successor is on its way to the keyring, or the
\* keyring is about to be cleared.
SavedOrComing ==
  keyring # 0 =>
    keyring \in valid \/ ui.auto = "second" \/ \E c \in Clients : loads(c) /\ (c = client \/ ui.at = "clear")

\* The token in memory is the one that the user's call has in hand, or the refresher.
InMemory ==
  /\ ui.at \in {"connect", "refresh", "save"} => ui.token = app
  /\ client # None /\ clients[client].at = "refresh" => clients[client].token = app
  /\ ui.at \in {"connect", "save"} => app \in valid
  /\ ui.at = "save" => ~loads(client)

\* What a refresher is about to save lives, and nobody else has it.
Loaded ==
  /\ \A c \in Clients : loads(c) =>
       /\ clients[c].token \in valid /\ clients[c].token # keyring
       /\ c # client /\ (client # None \/ ui.at \in {"connect", "refresh"}) => clients[c].token # app
  /\ \A c, d \in Clients : loads(c) /\ loads(d) /\ c # d => clients[c].token # clients[d].token

\* A token that will not be saved is not the one that was.
Unsaved ==
  /\ client # None /\ ~clients[client].keep => keyring = 0 \/ keyring # app
  /\ ui.at = "connect" /\ ~ui.keep => keyring = 0 \/ keyring # app

SavedInv == ~excused => SavedOrComing /\ InMemory /\ Loaded /\ Unsaved

-----------------------------------------------------------------------------
(* What the steps of a loop do to its client.                              *)

LEMMA LoopChange ==
  ASSUME LoopTypes, NEW c \in Clients, NEW x, clients' = [clients EXCEPT ![c] = x]
  PROVE  /\ \A d \in Clients : clients'[d] = IF d = c THEN x ELSE clients[d]
         /\ x \in Loops(Tokens') /\ given \in Nat /\ given' \in Nat /\ given <= given' =>
              clients' \in [Clients -> Loops(Tokens')]
<1>1. \A d \in Clients : clients'[d] = IF d = c THEN x ELSE clients[d]
  BY DEF LoopTypes
<1>2. ASSUME x \in Loops(Tokens'), given \in Nat, given' \in Nat, given <= given'
      PROVE  clients' \in [Clients -> Loops(Tokens')]
  <2>1. Loops(Tokens) \subseteq Loops(Tokens')
    BY <1>2 DEF Loops, Tokens
  <2>2. QED
    BY <1>2, <2>1 DEF LoopTypes
<1>3. QED
  BY <1>1, <1>2

\* What comes round is gone, or dials.
LEMMA RoundOf ==
  ASSUME Numbers, LoopTypes, NEW c \in Clients
  PROVE  /\ comeRound(clients[c]) \in Loops(Tokens)
         /\ clients[c].ends => comeRound(clients[c]) = noClient
         /\ ~clients[c].ends =>
              /\ comeRound(clients[c]).at = "dialling" /\ ~comeRound(clients[c]).ends
              /\ comeRound(clients[c]).keep = clients[c].keep
<1>1. clients[c] \in Loops(Tokens) /\ 0 \in Tokens
  BY DEF LoopTypes, Tokens, Numbers
<1>2. noClient \in Loops(Tokens)
  BY <1>1 DEF noClient, Loops
<1>3. CASE clients[c].ends
  BY <1>2, <1>3 DEF comeRound
<1>4. CASE ~clients[c].ends
  <2> DEFINE x == clients[c]
             y == [x EXCEPT !.at = "dialling", !.token = 0]
  <2>1. y \in Loops(Tokens) /\ y.at = "dialling" /\ y.ends = x.ends /\ y.keep = x.keep
    BY <1>1 DEF Loops
  <2>2. comeRound(x) = y
    BY <1>4 DEF comeRound
  <2>3. QED
    BY <1>4, <2>1, <2>2
<1>5. QED
  BY <1>3, <1>4

\* The loop that goes on is the client's, or an escaped one: the other parts of
\* PlaceInv follow from what becomes of it.
LEMMA LoopKeepsPlaces ==
  ASSUME None \notin Clients, PlaceInv, NEW c \in Clients, NEW x \in Loops(Tokens'),
  clients' = [clients EXCEPT ![c] = x],
         clients[c].at # "gone", Numbers', given <= given',
         x.at = "gone" => x = noClient /\ clients[c].ends,
         x.at # "gone" => x.ends = clients[c].ends /\ x.keep = clients[c].keep,
         x.at = "load" => x.keep,
         UNCHANGED <<client, ui, escaped>>
  PROVE  PlaceInv'
<1>1. clients' \in [Clients -> Loops(Tokens')] /\ \A d \in Clients : clients'[d] = IF d = c THEN x ELSE clients[d]
  BY LoopChange DEF PlaceInv, Numbers
<1>2. LoopTypes'
  BY <1>1 DEF PlaceInv, LoopTypes
<1>3. c = client => x.at # "gone"
  BY DEF PlaceInv, LoopPlaces
<1>4. UiPlaces'
  <2>1. ui \in UiCalls(Tokens')
    BY DEF PlaceInv, UiPlaces, UiCalls, Tokens, Numbers
  <2>2. client # None => client \in Clients
    BY DEF PlaceInv, LoopTypes
  <2>3. QED
    BY <1>1, <1>3, <2>1, <2>2 DEF PlaceInv, UiPlaces
<1>5. LoopPlaces'
  <2>1. client # None => client \in Clients
    BY DEF PlaceInv, LoopTypes
  <2>2. client # None => clients'[client].at # "gone" /\ ~clients'[client].ends /\ client \notin escaped
    BY <1>1, <1>3, <2>1 DEF PlaceInv, LoopPlaces
  <2>3. \A d \in Clients : /\ clients'[d].at # "gone" => d = client \/ d \in escaped
                           /\ clients'[d].at = "gone" => clients'[d] = noClient
                           /\ clients'[d].at = "load" => clients'[d].keep
    BY <1>1 DEF PlaceInv, LoopPlaces
  <2>4. QED
    BY <2>2, <2>3 DEF LoopPlaces
<1>6. QED
  BY <1>2, <1>4, <1>5 DEF PlaceInv

-----------------------------------------------------------------------------
LEMMA PlaceInit == DesktopInit => PlaceInv
<1> SUFFICES ASSUME DesktopInit PROVE PlaceInv
  OBVIOUS
<1>1. Numbers
  BY DEF DesktopInit, Numbers, Tokens
<1>2. noClient \in Loops(Tokens) /\ noClient.at = "gone"
  BY DEF DesktopInit, Tokens, Loops, noClient
<1>3. noCall \in UiCalls(Tokens) /\ noCall.at = "idle" /\ noCall.auto = "no"
  BY DEF DesktopInit, Tokens, UiCalls, noCall
<1>4. LoopTypes /\ UiPlaces /\ LoopPlaces
  BY <1>2, <1>3 DEF DesktopInit, LoopTypes, UiPlaces, LoopPlaces
<1>5. QED
  BY <1>1, <1>4 DEF PlaceInv

\* What is known stays known when the server renews a token.
LEMMA RenewKeeps ==
  ASSUME Numbers, NEW token, RenewToken(token)
  PROVE  /\ given' \in Nat /\ given' = given + 1 /\ given' \in Tokens' /\ valid' \subseteq Tokens' \ {0}
         /\ Tokens \subseteq Tokens' /\ given' \notin Tokens
         /\ UiCalls(Tokens) \subseteq UiCalls(Tokens') /\ Loops(Tokens) \subseteq Loops(Tokens')
<1>1. given' \in Nat /\ given' = given + 1 /\ valid' \subseteq (Tokens \ {0}) \cup {given'} /\ given' # 0
  BY DEF Numbers, RenewToken
<1>2. Tokens \subseteq Tokens' /\ given' \in Tokens' /\ given' \notin Tokens
  BY <1>1 DEF Tokens, Numbers
<1>3. valid' \subseteq Tokens' \ {0}
  BY <1>1, <1>2
<1>4. UiCalls(Tokens) \subseteq UiCalls(Tokens') /\ Loops(Tokens) \subseteq Loops(Tokens')
  BY <1>2 DEF UiCalls, Loops
<1>5. QED
  BY <1>1, <1>2, <1>3, <1>4

\* Steps of the user's call that leave clients alone.
LEMMA UiKeepsPlaces ==
  ASSUME PlaceInv, UiPlaces', Numbers', given <= given', UNCHANGED <<clients, client, escaped>>
  PROVE  PlaceInv'
<1>1. Loops(Tokens) \subseteq Loops(Tokens')
  BY DEF PlaceInv, Numbers, Loops, Tokens
<1>2. LoopTypes' /\ LoopPlaces'
  BY <1>1 DEF PlaceInv, LoopTypes, LoopPlaces
<1>3. QED
  BY <1>2 DEF PlaceInv

LEMMA PlaceStep ==
  ASSUME None \notin Clients, PlaceInv, [DesktopNext]_desktopVars
  PROVE  PlaceInv'
<1>1. noCall \in UiCalls(Tokens) /\ noCall.at = "idle" /\ noCall.auto = "no" /\ ~noCall.keep
  BY DEF PlaceInv, Numbers, Tokens, noCall, UiCalls
<1>2. noClient \in Loops(Tokens) /\ noClient.at = "gone"
  BY DEF PlaceInv, Numbers, Tokens, noClient, Loops
<1>3. ASSUME NEW keep \in BOOLEAN, DesktopLogin(keep) PROVE PlaceInv'
  <2>1. Numbers' /\ given <= given' /\ given' \in Tokens'
    BY <1>3 DEF DesktopLogin, PlaceInv, Numbers, Tokens
  <2>2. UiPlaces'
    BY <1>3, <2>1 DEF DesktopLogin, UiPlaces, UiCalls
  <2>3. QED
    BY <1>3, <2>1, <2>2, UiKeepsPlaces DEF DesktopLogin
<1>4. CASE AutoLogin
  <2>1. Numbers' /\ given <= given'
    BY <1>4 DEF AutoLogin, PlaceInv, Numbers, Tokens
  <2>2. UiPlaces'
    BY <1>4, <2>1 DEF AutoLogin, PlaceInv, Numbers, Tokens, UiPlaces, UiCalls
  <2>3. QED
    BY <1>4, <2>1, <2>2, UiKeepsPlaces DEF AutoLogin
<1>5. CASE ConnectFails
  <2>1. Numbers' /\ given <= given'
    BY <1>5 DEF ConnectFails, PlaceInv, Numbers, Tokens
  <2>2. UiPlaces'
    BY <1>1, <1>5, <2>1 DEF ConnectFails, PlaceInv, Tokens, UiPlaces, UiCalls
  <2>3. QED
    BY <1>5, <2>1, <2>2, UiKeepsPlaces DEF ConnectFails
<1>6. CASE AutoRefresh
  <2>1. RenewToken(ui.token) /\ app' = given' /\ keyring' = keyring
    BY <1>6 DEF AutoRefresh
  <2>2. Numbers' /\ given <= given'
    BY <2>1, RenewKeeps DEF PlaceInv, Numbers
  <2>3. ui' \in UiCalls(Tokens') /\ ui'.at = "connect" /\ ui'.auto = "second" /\ ui'.keep = ui.keep
    BY <1>6, <2>1, RenewKeeps DEF AutoRefresh, PlaceInv, UiPlaces, UiCalls
  <2>4. UiPlaces'
    BY <1>6, <2>3 DEF AutoRefresh, PlaceInv, UiPlaces
  <2>5. QED
    BY <1>6, <2>2, <2>4, UiKeepsPlaces DEF AutoRefresh
<1>7. CASE AutoRefreshFails
  <2>1. ui' = noCall /\ UNCHANGED <<app, keyring, client, clients, escaped>>
    BY <1>7 DEF AutoRefreshFails
  <2>2. Numbers' /\ given <= given' /\ Tokens \subseteq Tokens'
    <3>1. CASE UNCHANGED <<valid, given>>
      BY <2>1, <3>1 DEF PlaceInv, Numbers, Tokens
    <3>2. CASE RenewToken(ui.token)
      BY <2>1, <3>2, RenewKeeps DEF PlaceInv, Numbers
    <3>3. QED
      BY <1>7, <3>1, <3>2 DEF AutoRefreshFails
  <2>3. UiPlaces'
    BY <1>1, <2>1, <2>2 DEF UiPlaces, UiCalls
  <2>4. QED
    BY <2>1, <2>2, <2>3, UiKeepsPlaces
<1>8. CASE Save \/ Clear
  <2>1. /\ ui' = noCall /\ keyring' \in {0, ui.token} /\ UNCHANGED <<valid, given, app, client, clients, escaped>>
    BY <1>8 DEF Save, Clear
  <2>2. 0 \in Tokens /\ ui.token \in Tokens
    BY DEF PlaceInv, Numbers, Tokens, UiPlaces, UiCalls
  <2>3. Numbers' /\ given <= given'
    BY <2>1, <2>2 DEF PlaceInv, Numbers, Tokens
  <2>4. UiPlaces'
    BY <1>1, <2>1 DEF UiPlaces, UiCalls, Tokens
  <2>5. QED
    BY <2>1, <2>3, <2>4, UiKeepsPlaces
<1>9. CASE CloseClient
  <2>1. /\ ui' = [noCall EXCEPT !.at = "clear"] /\ client' = None
        /\ UNCHANGED <<valid, given, app, keyring>>
    BY <1>9 DEF CloseClient
  <2>2. ui' \in UiCalls(Tokens') /\ ui'.at = "clear" /\ ui'.auto = "no"
    BY <1>1, <2>1 DEF UiCalls, Tokens
  <2>3. Numbers' /\ UiPlaces'
    BY <2>1, <2>2 DEF PlaceInv, Numbers, Tokens, UiPlaces
  <2>4. CASE client = None /\ UNCHANGED <<clients, escaped>>
    BY <2>1, <2>3, <2>4 DEF PlaceInv, LoopTypes, LoopPlaces, Tokens
  <2>5. CASE client # None /\ clients' = [clients EXCEPT ![client] = noClient] /\ UNCHANGED escaped
    <3>1. client \in Clients
      BY <2>5 DEF PlaceInv, LoopTypes
    <3>2. \A d \in Clients : clients'[d] = IF d = client THEN noClient ELSE clients[d]
      BY <2>5, <3>1, LoopChange DEF PlaceInv
    <3>3. LoopTypes'
      BY <1>2, <2>1, <2>5, <3>1 DEF PlaceInv, LoopTypes, Tokens
    <3>4. LoopPlaces'
      BY <1>2, <2>1, <2>5, <3>1, <3>2 DEF PlaceInv, LoopPlaces
    <3>5. QED
      BY <2>3, <3>3, <3>4 DEF PlaceInv
  <2>6. ASSUME client # None, NEW ends \in BOOLEAN, clients' = [clients EXCEPT ![client].ends = ends],
               escaped' = escaped \cup {client}
        PROVE  PlaceInv'
    <3>1. client \in Clients
      BY <2>6 DEF PlaceInv, LoopTypes
    <3> DEFINE x == [clients[client] EXCEPT !.ends = ends]
    <3>2. x \in Loops(Tokens) /\ x.at = clients[client].at /\ x.keep = clients[client].keep
      BY <3>1 DEF PlaceInv, LoopTypes, Loops
    <3>3. clients' = [clients EXCEPT ![client] = x]
      BY <2>6, <3>1 DEF PlaceInv, LoopTypes
    <3> HIDE DEF x
    <3>4. \A d \in Clients : clients'[d] = IF d = client THEN x ELSE clients[d]
      BY <3>1, <3>3, LoopChange DEF PlaceInv
    <3>5. LoopTypes'
      BY <2>1, <2>6, <3>1, <3>2, <3>3 DEF PlaceInv, LoopTypes, Tokens
    <3>6. LoopPlaces'
      BY <2>1, <2>6, <3>1, <3>2, <3>4 DEF PlaceInv, LoopPlaces
    <3>7. QED
      BY <2>3, <3>5, <3>6 DEF PlaceInv
  <2>7. QED
    BY <1>9, <2>4, <2>5, <2>6 DEF CloseClient
<1>10. ASSUME NEW c \in Clients, Connect(c) PROVE PlaceInv'
  <2> DEFINE x == [noClient EXCEPT !.at = "connected", !.keep = ui.keep]
  <2>1. x \in Loops(Tokens) /\ x.at = "connected" /\ x.keep = ui.keep /\ ~x.ends
    BY <1>2 DEF PlaceInv, UiPlaces, UiCalls, Loops, noClient
  <2>2. /\ ui.at = "connect" /\ clients[c] = noClient /\ client' = c /\ clients' = [clients EXCEPT ![c] = x]
        /\ escaped' = escaped \ {c} /\ UNCHANGED <<valid, given, app, keyring>>
        /\ ui' = IF ui.keep THEN [ui EXCEPT !.at = "save"] ELSE noCall
    BY <1>10 DEF Connect
  <2> HIDE DEF x
  <2>3. \A d \in Clients : clients'[d] = IF d = c THEN x ELSE clients[d]
    BY <2>2, LoopChange DEF PlaceInv
  <2>4. ui' \in UiCalls(Tokens) /\ (ui.keep => ui'.at = "save" /\ ui'.keep) /\ (~ui.keep => ui' = noCall)
    BY <1>1, <2>2 DEF PlaceInv, UiPlaces, UiCalls
  <2>5. Numbers' /\ LoopTypes'
    BY <2>1, <2>2 DEF PlaceInv, Numbers, LoopTypes, Tokens
  <2>6. UiPlaces'
    BY <1>1, <2>1, <2>2, <2>3, <2>4 DEF UiPlaces, Tokens
  <2>7. LoopPlaces'
    BY <1>2, <2>1, <2>2, <2>3 DEF PlaceInv, UiPlaces, LoopPlaces
  <2>8. QED
    BY <2>5, <2>6, <2>7 DEF PlaceInv
<1>11. ASSUME NEW c \in Clients, Disconnected(c) PROVE PlaceInv'
  <2> DEFINE x == [clients[c] EXCEPT !.at = "dialling"]
  <2>1. x \in Loops(Tokens) /\ x.at = "dialling" /\ x.keep = clients[c].keep /\ x.ends = clients[c].ends
    BY DEF PlaceInv, LoopTypes, Loops
  <2>2. /\ clients' = [clients EXCEPT ![c] = x] /\ clients[c].at = "connected"
        /\ UNCHANGED <<valid, given, app, keyring, client, ui, escaped>>
    BY <1>11 DEF Disconnected, clientAt, PlaceInv, LoopTypes
  <2> HIDE DEF x
  <2>3. Numbers' /\ given <= given' /\ x \in Loops(Tokens')
    BY <2>1, <2>2 DEF PlaceInv, Numbers, Tokens
  <2>4. QED
    BY <2>1, <2>2, <2>3, LoopKeepsPlaces
<1>12. ASSUME NEW c \in Clients, Dialled(c) PROVE PlaceInv'
  <2> DEFINE y == [clients[c] EXCEPT !.at = "connected"]
             x == IF clients[c].ends THEN noClient ELSE y
  <2>1. y \in Loops(Tokens) /\ y.at = "connected" /\ y.keep = clients[c].keep /\ y.ends = clients[c].ends
    BY DEF PlaceInv, LoopTypes, Loops
  <2>2. /\ clients' = [clients EXCEPT ![c] = x] /\ clients[c].at = "dialling"
        /\ UNCHANGED <<valid, given, app, keyring, client, ui, escaped>>
    BY <1>12 DEF Dialled, clientAt, PlaceInv, LoopTypes
  <2> HIDE DEF y
  <2>3. /\ x \in Loops(Tokens) /\ (x.at = "gone" => x = noClient /\ clients[c].ends) /\ x.at # "load"
        /\ (x.at # "gone" => x.keep = clients[c].keep /\ x.ends = clients[c].ends)
    BY <1>2, <2>1
  <2> HIDE DEF x
  <2>4. Numbers' /\ given <= given' /\ x \in Loops(Tokens')
    BY <2>2, <2>3 DEF PlaceInv, Numbers, Tokens
  <2>5. QED
    BY <2>2, <2>3, <2>4, LoopKeepsPlaces
<1>13. ASSUME NEW c \in Clients, TokenExpired(c) PROVE PlaceInv'
  <2> DEFINE x == [clients[c] EXCEPT !.at = "refresh", !.token = app]
  <2>1. x \in Loops(Tokens) /\ x.at = "refresh" /\ x.keep = clients[c].keep /\ x.ends = clients[c].ends
    BY DEF PlaceInv, LoopTypes, Loops, Numbers
  <2>2. /\ clients' = [clients EXCEPT ![c] = x] /\ clients[c].at = "dialling"
        /\ UNCHANGED <<valid, given, app, keyring, client, ui, escaped>>
    BY <1>13 DEF TokenExpired, clientAt, PlaceInv, LoopTypes
  <2> HIDE DEF x
  <2>3. Numbers' /\ given <= given' /\ x \in Loops(Tokens')
    BY <2>1, <2>2 DEF PlaceInv, Numbers, Tokens
  <2>4. QED
    BY <2>1, <2>2, <2>3, LoopKeepsPlaces
<1>14. ASSUME NEW c \in Clients, RefreshToken(c) PROVE PlaceInv'
  <2> DEFINE y == [clients[c] EXCEPT !.at = "load", !.token = given']
             x == IF clients[c].keep THEN y ELSE comeRound(clients[c])
  <2>1. RenewToken(clients[c].token) /\ app' = given' /\ keyring' = keyring
    BY <1>14 DEF RefreshToken
  <2>2. Numbers' /\ given <= given'
    BY <2>1, RenewKeeps DEF PlaceInv, Numbers
  <2>3. y \in Loops(Tokens') /\ y.at = "load" /\ y.keep = clients[c].keep /\ y.ends = clients[c].ends
    BY <2>1, RenewKeeps DEF PlaceInv, LoopTypes, Loops
  <2>4. /\ clients' = [clients EXCEPT ![c] = x] /\ clients[c].at = "refresh"
        /\ UNCHANGED <<client, ui, escaped>>
    BY <1>14 DEF RefreshToken, clientAt, PlaceInv, LoopTypes
  <2>5. comeRound(clients[c]) \in Loops(Tokens')
    BY <2>1, RenewKeeps, RoundOf DEF PlaceInv
  <2> HIDE DEF y
  <2>6. /\ x \in Loops(Tokens') /\ (x.at = "gone" => x = noClient /\ clients[c].ends) /\ (x.at = "load" => x.keep)
        /\ (x.at # "gone" => x.keep = clients[c].keep /\ x.ends = clients[c].ends)
    <3>1. CASE clients[c].keep
      BY <2>3, <3>1
    <3>2. CASE ~clients[c].keep
      BY <1>2, <2>5, <3>2, RoundOf DEF PlaceInv, LoopTypes, Loops
    <3>3. QED
      BY <3>1, <3>2
  <2> HIDE DEF x
  <2>7. QED
    BY <2>2, <2>4, <2>6, LoopKeepsPlaces
<1>15. ASSUME NEW c \in Clients, RefreshFails(c) \/ SaveRefreshed(c) PROVE PlaceInv'
  <2> DEFINE x == comeRound(clients[c])
  <2>1. /\ clients' = [clients EXCEPT ![c] = x] /\ clients[c].at \in {"refresh", "load"}
        /\ UNCHANGED <<client, app, ui, escaped>> /\ keyring' \in {keyring, clients[c].token}
    BY <1>15 DEF RefreshFails, SaveRefreshed, clientAt, PlaceInv, LoopTypes
  <2>2. keyring \in Tokens /\ clients[c].token \in Tokens
    BY DEF PlaceInv, Numbers, LoopTypes, Loops
  <2>3. Numbers' /\ given <= given' /\ Tokens \subseteq Tokens' /\ Loops(Tokens) \subseteq Loops(Tokens')
    <3>1. CASE UNCHANGED <<valid, given>>
      BY <2>1, <2>2, <3>1 DEF PlaceInv, Numbers, Tokens
    <3>2. CASE RenewToken(clients[c].token)
      BY <2>1, <2>2, <3>2, RenewKeeps DEF PlaceInv, Numbers
    <3>3. QED
      BY <1>15, <3>1, <3>2 DEF RefreshFails, SaveRefreshed
  <2>4. /\ x \in Loops(Tokens) /\ (x.at = "gone" => x = noClient /\ clients[c].ends) /\ x.at # "load"
        /\ (x.at # "gone" => x.keep = clients[c].keep /\ x.ends = clients[c].ends)
    BY <1>2, RoundOf DEF PlaceInv, LoopTypes, Loops
  <2> HIDE DEF x
  <2>5. QED
    BY <2>1, <2>3, <2>4, LoopKeepsPlaces
<1>16. ASSUME NEW token \in 1..given, Revoke(token) PROVE PlaceInv'
  <2>1. Numbers' /\ given <= given' /\ UNCHANGED <<given, ui, client, clients, escaped>>
    BY <1>16 DEF Revoke, PlaceInv, Numbers, Tokens
  <2>2. QED
    BY <2>1, UiKeepsPlaces DEF PlaceInv, UiPlaces, Tokens
<1>17. CASE Exit
  <2>1. Numbers'
    BY <1>17 DEF Exit, PlaceInv, Numbers, Tokens
  <2>2. LoopTypes' /\ UiPlaces' /\ LoopPlaces'
    BY <1>1, <1>2, <1>17 DEF Exit, LoopTypes, UiPlaces, LoopPlaces, Tokens
  <2>3. QED
    BY <2>1, <2>2 DEF PlaceInv
<1>18. CASE UNCHANGED desktopVars
  BY <1>18 DEF desktopVars, PlaceInv, Numbers, LoopTypes, UiPlaces, LoopPlaces, Tokens
<1>19. QED
  BY DesktopSteps, <1>3, <1>4, <1>5, <1>6, <1>7, <1>8, <1>9, <1>10, <1>11, <1>12, <1>13, <1>14, <1>15,
     <1>16, <1>17, <1>18

-----------------------------------------------------------------------------
\* A step of a loop, as far as the invariants below look at it.
LEMMA LoopSteps ==
  ASSUME PlaceInv, NEW c \in Clients
  PROVE  /\ Disconnected(c) \/ Dialled(c) \/ TokenExpired(c) \/ RefreshToken(c) \/ RefreshFails(c)
           \/ SaveRefreshed(c) =>
              /\ clients[c].at # "gone" /\ \A d \in Clients : d # c => clients'[d] = clients[d]
              /\ UNCHANGED <<client, ui, escaped, forgotten, crossed>>
              /\ clients'[c].at # "gone" => clients'[c].keep = clients[c].keep
         /\ Disconnected(c) \/ Dialled(c) \/ TokenExpired(c) \/ RefreshFails(c) \/ SaveRefreshed(c) => ~loads(c)'
         /\ Disconnected(c) \/ Dialled(c) \/ RefreshToken(c) \/ RefreshFails(c) \/ SaveRefreshed(c) =>
              clients'[c].at # "refresh"
         /\ Disconnected(c) \/ Dialled(c) \/ TokenExpired(c) \/ RefreshToken(c) \/ RefreshFails(c) => ~loads(c)
         /\ RefreshToken(c) => (loads(c)' <=> clients[c].keep) /\ (loads(c)' => clients'[c].token = given')
         /\ TokenExpired(c) => clients'[c].token = app
<1> DEFINE y == [clients[c] EXCEPT !.at = "dialling"]
           w == [clients[c] EXCEPT !.at = "connected"]
           z == [clients[c] EXCEPT !.at = "refresh", !.token = app]
           l == [clients[c] EXCEPT !.at = "load", !.token = given']
           r == comeRound(clients[c])
<1>1. clients \in [Clients -> Loops(Tokens)] /\ clients[c] \in Loops(Tokens)
  BY DEF PlaceInv, LoopTypes
<1>2. /\ y.at = "dialling" /\ y.keep = clients[c].keep /\ w.at = "connected" /\ w.keep = clients[c].keep
      /\ z.at = "refresh" /\ z.token = app /\ z.keep = clients[c].keep
      /\ l.at = "load" /\ l.token = given' /\ l.keep = clients[c].keep
  BY <1>1 DEF Loops
<1>3. r.at \in {"gone", "dialling"} /\ (r.at # "gone" => r.keep = clients[c].keep)
  BY RoundOf DEF PlaceInv, noClient
<1>4. noClient.at = "gone"
  BY DEF noClient
<1>5. /\ Disconnected(c) => clients' = [clients EXCEPT ![c] = y]
      /\ Dialled(c) => \E x \in {noClient, w} : clients' = [clients EXCEPT ![c] = x]
      /\ TokenExpired(c) => clients' = [clients EXCEPT ![c] = z]
      /\ RefreshToken(c) => clients' = [clients EXCEPT ![c] = IF clients[c].keep THEN l ELSE r]
      /\ RefreshFails(c) \/ SaveRefreshed(c) => clients' = [clients EXCEPT ![c] = r]
  BY <1>1 DEF Disconnected, Dialled, TokenExpired, RefreshToken, RefreshFails, SaveRefreshed
<1>6. /\ Disconnected(c) => clients[c].at = "connected"
      /\ Dialled(c) \/ TokenExpired(c) => clients[c].at = "dialling"
      /\ RefreshToken(c) \/ RefreshFails(c) => clients[c].at = "refresh"
      /\ SaveRefreshed(c) => clients[c].at = "load"
      /\ Disconnected(c) \/ Dialled(c) \/ TokenExpired(c) \/ RefreshToken(c) \/ RefreshFails(c)
               \/ SaveRefreshed(c) =>
           UNCHANGED <<client, ui, escaped, forgotten, crossed>>
  BY DEF Disconnected, Dialled, TokenExpired, RefreshToken, RefreshFails, SaveRefreshed, clientAt
<1> HIDE DEF y, w, z, l, r
<1>7. \A x : clients' = [clients EXCEPT ![c] = x] =>
        clients'[c] = x /\ \A d \in Clients : d # c => clients'[d] = clients[d]
  BY <1>1
<1>8. CASE Disconnected(c)
  BY <1>2, <1>5, <1>6, <1>7, <1>8 DEF loads
<1>9. CASE Dialled(c)
  BY <1>2, <1>4, <1>5, <1>6, <1>7, <1>9 DEF loads
<1>10. CASE TokenExpired(c)
  BY <1>2, <1>4, <1>5, <1>6, <1>7, <1>10 DEF loads
<1>11. CASE RefreshToken(c)
  BY <1>2, <1>3, <1>5, <1>6, <1>7, <1>11 DEF loads
<1>12. CASE RefreshFails(c)
  BY <1>2, <1>3, <1>5, <1>6, <1>7, <1>12 DEF loads
<1>13. CASE SaveRefreshed(c)
  BY <1>3, <1>5, <1>6, <1>7, <1>13 DEF loads
<1>14. QED
  BY <1>8, <1>9, <1>10, <1>11, <1>12, <1>13

LEMMA ForgottenStep ==
  ASSUME None \notin Clients, PlaceInv, Forgotten, [DesktopNext]_desktopVars
  PROVE  Forgotten'
<1> USE DEF Forgotten
<1>1. ASSUME NEW keep \in BOOLEAN, DesktopLogin(keep) PROVE Forgotten'
  BY <1>1 DEF DesktopLogin
<1>2. CASE AutoLogin \/ ConnectFails \/ AutoRefresh \/ AutoRefreshFails \/ Save
  BY <1>2, Zenon DEF AutoLogin, ConnectFails, AutoRefresh, AutoRefreshFails, Save
<1>3. CASE CloseClient
  <2>1. SUFFICES ASSUME forgotten, ~crossed PROVE Forgotten'
    BY <1>3 DEF CloseClient
  <2>2. client = None
    BY <2>1 DEF PlaceInv, LoopTypes, LoopPlaces
  <2>3. UNCHANGED <<keyring, clients>> /\ ui'.at = "clear"
    BY <1>3, <2>2 DEF CloseClient, noCall
  <2>4. QED
    BY <2>1, <2>3
<1>4. CASE Clear
  <2>1. keyring' = 0 /\ ui'.at = "idle" /\ UNCHANGED clients /\ ui.at = "clear"
        /\ (~crossed' => \A c \in escaped : clients[c] = noClient)
    BY <1>4 DEF Clear, noCall
  <2>2. SUFFICES ASSUME ~crossed', NEW c \in Clients PROVE clients[c].at = "gone"
    BY <2>1
  <2>3. client = None
    BY <2>1 DEF PlaceInv, UiPlaces
  <2>4. CASE c \in escaped
    BY <2>1, <2>2, <2>4 DEF noClient
  <2>5. CASE c \notin escaped
    BY <2>3, <2>5 DEF PlaceInv, LoopPlaces
  <2>6. QED
    BY <2>4, <2>5
<1>5. ASSUME NEW c \in Clients, Connect(c) PROVE Forgotten'
  BY <1>5, Zenon DEF Connect
<1>6. ASSUME NEW c \in Clients,
             Disconnected(c) \/ Dialled(c) \/ TokenExpired(c) \/ RefreshToken(c) \/ RefreshFails(c)
                      \/ SaveRefreshed(c)
      PROVE  Forgotten'
  BY <1>6, LoopSteps
<1>7. ASSUME NEW token \in 1..given, Revoke(token) PROVE Forgotten'
  BY <1>7 DEF Revoke
<1>8. CASE Exit
  <2>1. keyring' = keyring /\ forgotten' = forgotten /\ crossed' = crossed /\ ui' = noCall /\ clients' = [c \in Clients |-> noClient]
    BY <1>8 DEF Exit
  <2>2. ui'.at = "idle" /\ \A c \in Clients : clients'[c].at = "gone"
    BY <2>1 DEF noCall, noClient
  <2>3. QED
    BY <2>1, <2>2
<1>9. CASE UNCHANGED desktopVars
  BY <1>9 DEF desktopVars
<1>10. QED
  BY DesktopSteps, <1>1, <1>2, <1>3, <1>4, <1>5, <1>6, <1>7, <1>8, <1>9

\* A token that is new is none that anybody had.
LEMMA NewToken ==
  ASSUME PlaceInv, given' = given + 1
  PROVE  given' # app /\ given' # keyring /\ given' # ui.token /\ given' # 0 /\ given' \notin valid
         /\ \A c \in Clients : given' # clients[c].token
<1>1. given' \notin Tokens /\ 0 \in Tokens
  BY DEF PlaceInv, Numbers, Tokens
<1>2. ui.token \in Tokens /\ \A c \in Clients : clients[c].token \in Tokens
  BY DEF PlaceInv, UiPlaces, UiCalls, LoopTypes, Loops
<1>3. QED
  BY <1>1, <1>2 DEF PlaceInv, Numbers

LEMMA SavedStep ==
  ASSUME None \notin Clients, PlaceInv, PlaceInv', SavedInv, [DesktopNext]_desktopVars
  PROVE  SavedInv'
<1>1. ~excused' => ~excused
  BY DesktopSteps, Zenon DEF DesktopLogin, AutoLogin, Connect, ConnectFails, AutoRefresh, AutoRefreshFails,
       Save, CloseClient, Clear,
     Disconnected, Dialled, TokenExpired, RefreshToken, RefreshFails, SaveRefreshed, Revoke, Exit, desktopVars
<1> DEFINE Goal == SavedOrComing /\ InMemory /\ Loaded /\ Unsaved
<1> SUFFICES ASSUME ~excused, ~excused', Goal
             PROVE  Goal'
  BY <1>1 DEF SavedInv
<1> USE DEF SavedOrComing, InMemory, Loaded, Unsaved, loads
<1>2. client \in Clients \cup {None} /\ client' \in Clients \cup {None}
  BY DEF PlaceInv, LoopTypes
<1>3. ASSUME NEW keep \in BOOLEAN, DesktopLogin(keep) PROVE Goal'
  <2>1. given' = given + 1 /\ valid' = valid \cup {given'} /\ app' = given' /\
        UNCHANGED <<keyring, client, clients>>
        /\ ui' = [at |-> "connect", token |-> given', keep |-> keep, auto |-> "no"]
        /\ client = None /\ ui.at = "idle"
    BY <1>3 DEF DesktopLogin
  <2>2. ui.auto = "no"
    BY <2>1 DEF PlaceInv, UiPlaces
  <2>3. QED
    BY <1>2, <2>1, <2>2, NewToken
<1>4. CASE AutoLogin
  <2>1. /\ keyring # 0 /\ client = None /\ ui.at = "idle" /\ app' = keyring
        /\ ui' = [at |-> "connect", token |-> keyring, keep |-> TRUE, auto |-> "first"]
        /\ UNCHANGED <<valid, keyring, client, clients>>
    BY <1>4 DEF AutoLogin
  <2>2. keyring \in valid
    BY <1>2, <2>1 DEF PlaceInv, UiPlaces
  <2>3. QED
    BY <1>2, <2>1, <2>2
<1>5. ASSUME NEW c \in Clients, Connect(c) PROVE Goal'
  <2> DEFINE x == [noClient EXCEPT !.at = "connected", !.keep = ui.keep]
  <2>1. /\ ui.at = "connect" /\ clients[c] = noClient /\ client' = c /\ clients' = [clients EXCEPT ![c] = x]
        /\ UNCHANGED <<valid, given, app, keyring>>
        /\ ui' = IF ui.keep THEN [ui EXCEPT !.at = "save"] ELSE noCall
    BY <1>5 DEF Connect
  <2>2. x.at = "connected" /\ x.keep = ui.keep /\ clients[c].at = "gone"
    BY <2>1 DEF noClient
  <2> HIDE DEF x
  <2>3. \A d \in Clients : clients'[d] = IF d = c THEN x ELSE clients[d]
    BY <2>1 DEF PlaceInv, LoopTypes
  <2>4. client = None /\ (ui.auto # "no" => ui.keep)
    BY <2>1 DEF PlaceInv, UiPlaces
  <2>5. /\ ui.keep => ui'.at = "save" /\ ui'.token = ui.token /\ ui'.auto = ui.auto
        /\ ~ui.keep => ui'.at = "idle" /\ ui'.auto = "no"
    BY <2>1 DEF PlaceInv, UiPlaces, UiCalls, noCall
  <2>6. SavedOrComing'
    BY <1>2, <2>1, <2>2, <2>3, <2>4, <2>5
  <2>7. InMemory'
    BY <1>2, <2>1, <2>2, <2>3, <2>4, <2>5
  <2>8. Loaded'
    BY <1>2, <2>1, <2>2, <2>3, <2>4, <2>5
  <2>9. Unsaved'
    BY <1>2, <2>1, <2>2, <2>3, <2>4, <2>5
  <2>10. QED
    BY <2>6, <2>7, <2>8, <2>9
<1>6. CASE ConnectFails
  <2>1. /\ ui.at = "connect" /\ ui' = IF ui.auto = "first" THEN [ui EXCEPT !.at = "refresh"] ELSE noCall
        /\ ui.auto # "second" /\ UNCHANGED <<valid, given, app, keyring, client, clients>>
    BY <1>6 DEF ConnectFails
  <2>2. client = None
    BY <2>1 DEF PlaceInv, UiPlaces
  <2>3. ui'.at \in {"refresh", "idle"} /\ (ui'.at = "refresh" => ui'.token = ui.token) /\ ui'.auto # "second"
    BY <2>1 DEF PlaceInv, UiPlaces, UiCalls, noCall
  <2>4. QED
    BY <1>2, <2>1, <2>2, <2>3
<1>7. CASE AutoRefresh
  <2>1. ui.at = "refresh" /\ RenewToken(ui.token) /\ app' = given' /\ UNCHANGED <<keyring, client, clients>>
    BY <1>7 DEF AutoRefresh
  <2>2. given' = given + 1 /\ valid' = (valid \ {ui.token}) \cup {given'}
    BY <2>1 DEF RenewToken
  <2>3. ui'.at = "connect" /\ ui'.token = given' /\ ui'.auto = "second" /\ ui'.keep = ui.keep
    BY <1>7 DEF AutoRefresh, PlaceInv, UiPlaces, UiCalls
  <2>4. client = None /\ ui.keep
    BY <2>1 DEF PlaceInv, UiPlaces
  <2>5. QED
    BY <1>2, <2>1, <2>2, <2>3, <2>4, NewToken
<1>8. CASE AutoRefreshFails
  <2>1. ui.at = "refresh" /\ ui' = noCall /\ UNCHANGED <<valid, given, app, keyring, client, clients>>
    BY <1>8 DEF AutoRefreshFails
  <2>2. ui.auto = "first" /\ client = None /\ ui'.at = "idle"
    BY <2>1 DEF PlaceInv, UiPlaces, noCall
  <2>3. QED
    BY <1>2, <2>1, <2>2
<1>9. CASE Save
  <2>1. /\ ui.at = "save" /\ keyring' = ui.token /\ ui' = noCall
        /\ UNCHANGED <<valid, given, app, client, clients>>
    BY <1>9 DEF Save
  <2>2. client # None /\ clients[client].keep /\ ui'.at = "idle" /\ ui'.auto = "no"
    BY <2>1 DEF PlaceInv, UiPlaces, noCall
  <2>3. keyring' = app /\ app \in valid /\ ~loads(client)
    BY <2>1
  <2>4. QED
    BY <1>2, <2>1, <2>2, <2>3
<1>10. CASE CloseClient
  <2>1. ui.at = "idle" /\ client' = None /\ ui' = [noCall EXCEPT !.at = "clear"] /\
        UNCHANGED <<valid, given, app, keyring>>
    BY <1>10 DEF CloseClient
  <2>2. ui'.at = "clear" /\ ui'.auto = "no" /\ ui.auto = "no"
    BY <2>1 DEF PlaceInv, UiPlaces, noCall
  <2>3. \A c \in Clients : clients'[c].token = clients[c].token \/ ~loads(c)'
    <3>1. CASE client = None /\ UNCHANGED clients
      BY <3>1
    <3>2. CASE client # None /\ clients' = [clients EXCEPT ![client] = noClient]
      BY <1>2, <3>2 DEF PlaceInv, LoopTypes, noClient
    <3>3. ASSUME client # None, NEW ends \in BOOLEAN, clients' = [clients EXCEPT ![client].ends = ends]
          PROVE  \A c \in Clients : clients'[c].token = clients[c].token
      BY <1>2, <3>3 DEF PlaceInv, LoopTypes, Loops
    <3>4. QED
      BY <1>10, <3>1, <3>2, <3>3 DEF CloseClient
  <2>4. \A c \in Clients : (loads(c)' <=> loads(c))
    <3>1. CASE client = None /\ UNCHANGED clients
      BY <3>1
    <3>2. CASE client # None /\ clients[client].at = "connected" /\ clients' = [clients EXCEPT ![client] = noClient]
      BY <1>2, <3>2 DEF PlaceInv, LoopTypes, noClient
    <3>3. ASSUME client # None, NEW ends \in BOOLEAN, clients' = [clients EXCEPT ![client].ends = ends]
          PROVE  \A c \in Clients : clients'[c].at = clients[c].at
      BY <1>2, <3>3 DEF PlaceInv, LoopTypes, Loops
    <3>4. QED
      BY <1>10, <3>1, <3>2, <3>3 DEF CloseClient, clientAt
  <2>5. QED
    BY <1>2, <2>1, <2>2, <2>3, <2>4
<1>11. CASE Clear
  <2>1. keyring' = 0 /\ ui' = noCall /\ ui.at = "clear" /\ UNCHANGED <<valid, given, app, client, clients>>
    BY <1>11 DEF Clear
  <2>2. client = None /\ ui'.at = "idle"
    BY <2>1 DEF PlaceInv, UiPlaces, noCall
  <2>3. 0 \notin valid
    BY DEF PlaceInv, Numbers
  <2>4. QED
    BY <1>2, <2>1, <2>2, <2>3
<1>12. ASSUME NEW c \in Clients, Disconnected(c) \/ Dialled(c) \/ TokenExpired(c) PROVE Goal'
  <2>1. UNCHANGED <<valid, given, app, keyring, client, ui>>
    BY <1>12 DEF Disconnected, Dialled, TokenExpired
  <2>2. \A d \in Clients : (loads(d)' <=> loads(d)) /\ (loads(d) => clients'[d] = clients[d])
    BY <1>12, LoopSteps
  <2>3. client = c /\ clients'[c].at = "refresh" => clients'[c].token = app
    BY <1>12, LoopSteps
  <2>4. client # None => clients'[client].at # "gone" /\ clients'[client].keep = clients[client].keep
    BY <1>2, <1>12, <2>1, LoopSteps DEF PlaceInv, LoopPlaces
  <2>5. client # None /\ clients'[client].at = "refresh" => clients'[client].token = app
    BY <1>2, <1>12, <2>3, LoopSteps
  <2>6. SavedOrComing'
    BY <1>2, <2>1, <2>2
  <2>7. InMemory'
    BY <1>2, <2>1, <2>2, <2>5 DEF PlaceInv, UiPlaces
  <2>8. Loaded'
    BY <2>1, <2>2
  <2>9. Unsaved'
    BY <2>1, <2>4
  <2>10. QED
    BY <2>6, <2>7, <2>8, <2>9
<1>13. ASSUME NEW c \in Clients, RefreshToken(c) PROVE Goal'
  <2>1. /\ RenewToken(clients[c].token) /\ app' = given' /\ UNCHANGED <<keyring, client, ui, escaped>>
        /\ ui.at # "save" /\ c \notin escaped /\ clients[c].at = "refresh"
    BY <1>13 DEF RefreshToken, clientAt
  <2>2. given' = given + 1 /\ valid' = (valid \ {clients[c].token}) \cup {given'}
    BY <2>1 DEF RenewToken
  <2>3. c = client
    BY <2>1 DEF PlaceInv, LoopPlaces
  <2>4. client # None /\ clients[c].token = app /\ ui.at = "idle" /\ ui.auto = "no"
    BY <2>1, <2>3 DEF PlaceInv, UiPlaces, UiCalls
  <2>5. /\ \A d \in Clients : d # c => clients'[d] = clients[d]
        /\ (loads(c)' <=> clients[c].keep) /\ (loads(c)' => clients'[c].token = given')
        /\ clients'[c].at # "gone" /\ clients'[c].at # "refresh" /\ clients'[c].keep = clients[c].keep
    BY <1>13, <2>1, <2>3, <2>4, LoopSteps DEF PlaceInv, LoopPlaces
  <2>6. \A d \in Clients : loads(d) => d # c /\ clients[d].token # app
    BY <2>1, <2>3, <2>4
  <2>7. SavedOrComing'
    BY <2>1, <2>2, <2>3, <2>4, <2>5, <2>6
  <2>8. InMemory'
    BY <2>1, <2>2, <2>3, <2>4, <2>5
  <2>9. Loaded'
    BY <2>1, <2>2, <2>3, <2>4, <2>5, <2>6, NewToken
  <2>10. Unsaved'
    BY <2>1, <2>2, <2>3, <2>4, <2>5, NewToken
  <2>11. QED
    BY <2>7, <2>8, <2>9, <2>10
<1>14. ASSUME NEW c \in Clients, RefreshFails(c) PROVE Goal'
  <2>1. UNCHANGED <<valid, given, app, keyring, client, ui>>
    BY <1>14 DEF RefreshFails
  <2>2. \A d \in Clients : (loads(d)' <=> loads(d)) /\ (loads(d) => clients'[d] = clients[d])
    BY <1>14, LoopSteps
  <2>3. client # None => clients'[client].at # "gone" /\ clients'[client].keep = clients[client].keep
    BY <1>2, <1>14, <2>1, LoopSteps DEF PlaceInv, LoopPlaces
  <2>4. client # None /\ clients'[client].at = "refresh" => clients'[client].token = app
    BY <1>2, <1>14, LoopSteps
  <2>5. SavedOrComing'
    BY <1>2, <2>1, <2>2
  <2>6. InMemory'
    BY <1>2, <2>1, <2>2, <2>4 DEF PlaceInv, UiPlaces
  <2>7. Loaded'
    BY <2>1, <2>2
  <2>8. Unsaved'
    BY <2>1, <2>3
  <2>9. QED
    BY <2>5, <2>6, <2>7, <2>8
<1>15. ASSUME NEW c \in Clients, SaveRefreshed(c) PROVE Goal'
  <2>1. loads(c) /\ keyring' = clients[c].token /\ UNCHANGED <<valid, given, app, client, ui>>
    BY <1>15 DEF SaveRefreshed, clientAt
  <2>2. ~loads(c)' /\ clients'[c].at # "refresh" /\ \A d \in Clients : d # c => clients'[d] = clients[d]
    BY <1>15, LoopSteps
  <2>3. client # None => clients'[client].at # "gone" /\ clients'[client].keep = clients[client].keep
    BY <1>2, <1>15, <2>1, LoopSteps DEF PlaceInv, LoopPlaces
  <2>4. clients[c].keep /\ (ui.at = "connect" => client = None)
    BY <2>1 DEF PlaceInv, LoopPlaces, UiPlaces
  <2>5. SavedOrComing'
    BY <1>2, <2>1, <2>2
  <2>6. InMemory'
    BY <1>2, <2>1, <2>2 DEF PlaceInv, UiPlaces
  <2>7. Loaded'
    BY <2>1, <2>2
  <2>8. Unsaved'
    BY <1>2, <2>1, <2>2, <2>3, <2>4
  <2>9. QED
    BY <2>5, <2>6, <2>7, <2>8
<1>16. ASSUME NEW token \in 1..given, Revoke(token) PROVE Goal'
  BY <1>16 DEF Revoke
<1>17. CASE Exit
  <2>1. /\ app' = 0 /\ client' = None /\ clients' = [c \in Clients |-> noClient] /\ ui' = noCall
        /\ ui.auto # "second" /\ ~(\E c \in Clients : loads(c)) /\ UNCHANGED <<valid, given, keyring>>
    BY <1>17 DEF Exit, clientAt
  <2>2. ui'.at = "idle" /\ ui'.auto = "no" /\ \A c \in Clients : ~loads(c)'
    BY <2>1 DEF noCall, noClient
  <2>3. QED
    BY <2>1, <2>2
<1>18. CASE UNCHANGED desktopVars
  BY <1>18 DEF desktopVars
<1>19. QED
  BY DesktopSteps, <1>3, <1>4, <1>5, <1>6, <1>7, <1>8, <1>9, <1>10, <1>11, <1>12, <1>13, <1>14, <1>15, <1>16,
       <1>17, <1>18

-----------------------------------------------------------------------------
LEMMA SavedInit == DesktopInit => Forgotten /\ SavedInv
<1>1. noClient.at = "gone" /\ noCall.at = "idle"
  BY DEF noClient, noCall
<1>2. QED
  BY <1>1 DEF DesktopInit, Forgotten, SavedInv, SavedOrComing, InMemory, Loaded, Unsaved, loads

\* The keyring stays empty after a logout, and what is in it is good for the
\* next start, however calls, reconnect loops and refreshes meet, and for any
\* number of clients and of tokens (AuthService.Logout, createTokenRefresher).
\* None is not a client.
THEOREM KeyringCorrect ==
  ASSUME None \notin Clients
  PROVE  DesktopSpec => []KeyringHolds
<1>1. DesktopSpec => []PlaceInv
  BY PlaceInit, PlaceStep, PTL DEF DesktopSpec
<1>2. DesktopSpec => [](Forgotten /\ SavedInv)
  BY <1>1, SavedInit, ForgottenStep, SavedStep, PTL DEF DesktopSpec
<1>3. PlaceInv /\ Forgotten /\ SavedInv => KeyringHolds
  <2>1. Forgotten => LogoutForgets
    BY DEF Forgotten, LogoutForgets
  <2>2. PlaceInv /\ SavedInv => SavedTokenLives
    BY DEF PlaceInv, UiPlaces, SavedInv, SavedOrComing, SavedTokenLives, loads, refreshing, noCall
  <2>3. QED
    BY <2>1, <2>2 DEF KeyringHolds
<1>4. QED
  BY <1>1, <1>2, <1>3, PTL
=============================================================================
