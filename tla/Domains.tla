------------------------------ MODULE Domains ------------------------------
(* Reserved subdomains, the custom domains that lead to them, and their      *)
(* certificates: rows in the database, beside a table of routes and a cache  *)
(* of certificates in memory (internal/api/handlers_domains.go,              *)
(* handlers_custom_domains.go, internal/server/server.go, internal/tls).     *)
(* Handlers and certificate goroutines hold no lock between their calls.     *)
EXTENDS NoValue, Naturals, FiniteSets

CONSTANTS Users,     \* accounts
          Subs,      \* subdomains
          Names,     \* custom domains
          MaxRows,   \* bound: rows of custom_domains, numbered as they are made
          Requests,  \* requests at the same time
          Fetchers,  \* goroutines and handshakes that get a certificate
          Limit      \* the plan's limit, of subdomains and of custom domains

Rows == 1..MaxRows

VARIABLES
  accounts,  \* accounts that have not been deleted
  reserved,  \* reserved_domains: who has a subdomain
  rows,      \* custom_domains by ID
  routes,    \* Server.customDomains: the row of a name, 0 for none
  certs,     \* tls_certificates
  cache,     \* CertManager.cache
  issued,    \* names whose certificate autocert.Manager has in its own memory
  req,       \* the place of a request, and what it has read
  fetch,     \* the place of a fetcher, and its name
  strayed,   \* names whose row went while, or without that, the route was set (history)
  cut,       \* names whose route went with an older row of theirs (history)
  kept       \* names whose certificate was stored, or left, when their row was gone (history)

tableVars == <<accounts, reserved, rows, certs>>
domainsVars == <<tableVars, routes, cache, issued, req, fetch, strayed, cut, kept>>

noRequest == [at |-> "idle", user |-> None, sub |-> None, name |-> None, id |-> 0, verified |-> FALSE]
noFetch == [at |-> "idle", name |-> None]

DomainsInit ==
  /\ accounts = Users /\ reserved = [s \in Subs |-> None] /\ rows = [r \in Rows |-> None]
  /\ routes = [x \in Names |-> 0] /\ certs = {} /\ cache = {} /\ issued = {}
  /\ req = [q \in Requests |-> noRequest] /\ fetch = [f \in Fetchers |-> noFetch]
  /\ strayed = {} /\ cut = {} /\ kept = {}

reqAt(q, place) == req[q].at = place
ReqGo(q, place) == req' = [req EXCEPT ![q].at = place]
ReqAnswer(q) == req' = [req EXCEPT ![q] = noRequest]
live(r) == r \in Rows /\ rows[r] # None
rowOf(x) == {r \in Rows : live(r) /\ rows[r].name = x}
ofUser(u) == {r \in Rows : live(r) /\ rows[r].user = u}
newRow(r) == ~\E m \in Rows : m >= r /\ (live(m) \/ \E q \in Requests : req[q].id = m)

-----------------------------------------------------------------------------
(* Reserved subdomains.                                                    *)

reservations(u) == {s \in Subs : reserved[s] = u}

\* handleReserveDomain counts, then creates; subdomains are unique.
CountReserved(q, u, s) ==
  /\ reqAt(q, "idle") /\ u \in accounts /\ Cardinality(reservations(u)) < Limit
  /\ req' = [req EXCEPT ![q] = [noRequest EXCEPT !.at = "reserve", !.user = u, !.sub = s]]
  /\ UNCHANGED <<tableVars, routes, cache, issued, fetch, strayed, cut, kept>>

Reserve(q) ==
  /\ reqAt(q, "reserve")
  /\ reserved' = IF reserved[req[q].sub] = None /\ req[q].user \in accounts
                 THEN [reserved EXCEPT ![req[q].sub] = req[q].user] ELSE reserved
  /\ ReqAnswer(q)
  /\ UNCHANGED <<accounts, rows, certs, routes, cache, issued, fetch, strayed, cut, kept>>

\* handleReleaseDomain; the custom domains that lead there stay.
Release(s) ==
  /\ reserved[s] # None
  /\ reserved' = [reserved EXCEPT ![s] = None]
  /\ UNCHANGED <<accounts, rows, certs, routes, cache, issued, req, fetch, strayed, cut, kept>>

-----------------------------------------------------------------------------
(* Custom domains: handleAddCustomDomain and handleVerifyCustomDomain.     *)

belowDomainLimit(u) == Cardinality(ofUser(u)) < Limit

CheckAdd(q, u, x, s) ==
  /\ reqAt(q, "idle") /\ u \in accounts /\ reserved[s] = u /\ belowDomainLimit(u)
  /\ req' = [req EXCEPT ![q] =
       [noRequest EXCEPT !.at = "dns", !.user = u, !.name = x, !.sub = s]]
  /\ UNCHANGED <<tableVars, routes, cache, issued, fetch, strayed, cut, kept>>

\* VerifyDNS takes its time, and says what the name's zone says.
VerifyDNS(q, verified) ==
  /\ reqAt(q, "dns")
  /\ req' = [req EXCEPT ![q].at = "create", ![q].verified = verified]
  /\ UNCHANGED <<tableVars, routes, cache, issued, fetch, strayed, cut, kept>>

\* CustomDomains.Create: the name is unique.
Create(q, r) ==
  /\ reqAt(q, "create")
  /\ LET who == req[q] IN
     IF rowOf(who.name) # {} \/ who.user \notin accounts THEN ReqAnswer(q) /\ UNCHANGED rows
     ELSE /\ newRow(r)
          /\ rows' = [rows EXCEPT ![r] =
               [user |-> who.user, name |-> who.name, sub |-> who.sub, verified |-> who.verified]]
          /\ IF who.verified THEN req' = [req EXCEPT ![q].at = "route", ![q].id = r] ELSE ReqAnswer(q)
  /\ UNCHANGED <<accounts, reserved, certs, routes, cache, issued, fetch, strayed, cut, kept>>

\* Verify finds a row, whose name then leads to its target.
FindToVerify(q, r) ==
  /\ reqAt(q, "idle") /\ live(r)
  /\ req' = [req EXCEPT ![q] = [noRequest EXCEPT !.at = "set", !.id = r, !.name = rows[r].name]]
  /\ UNCHANGED <<tableVars, routes, cache, issued, fetch, strayed, cut, kept>>

\* SetVerified does not mind that the row is gone.
SetVerified(q) ==
  /\ reqAt(q, "set")
  /\ rows' = IF live(req[q].id) THEN [rows EXCEPT ![req[q].id].verified = TRUE] ELSE rows
  /\ ReqGo(q, "route")
  /\ UNCHANGED <<accounts, reserved, certs, routes, cache, issued, fetch, strayed, cut, kept>>

\* AddCustomDomain.
AddRoute(q) ==
  /\ reqAt(q, "route")
  /\ routes' = [routes EXCEPT ![req[q].name] = req[q].id]
  /\ strayed' = IF live(req[q].id) THEN strayed \ {req[q].name} ELSE strayed \cup {req[q].name}
  /\ cut' = IF live(req[q].id) THEN cut \ {req[q].name}
            ELSE IF rowOf(req[q].name) # {} THEN cut \cup {req[q].name} ELSE cut
  /\ ReqGo(q, "obtain")
  /\ UNCHANGED <<tableVars, cache, issued, fetch, kept>>

\* ObtainCert starts a goroutine.
ObtainCert(q, f) ==
  /\ reqAt(q, "obtain") /\ fetch[f] = noFetch
  /\ fetch' = [fetch EXCEPT ![f] = [at |-> "acme", name |-> req[q].name]]
  /\ ReqAnswer(q)
  /\ UNCHANGED <<tableVars, routes, cache, issued, strayed, cut, kept>>

-----------------------------------------------------------------------------
(* handleDeleteCustomDomain, handleAdminDeleteCustomDomain.                *)

FindToDelete(q, r) ==
  /\ reqAt(q, "idle") /\ live(r)
  /\ req' = [req EXCEPT ![q] = [noRequest EXCEPT !.at = "delete", !.id = r, !.name = rows[r].name]]
  /\ UNCHANGED <<tableVars, routes, cache, issued, fetch, strayed, cut, kept>>

DeleteRow(q) ==
  /\ reqAt(q, "delete")
  /\ IF live(req[q].id) THEN rows' = [rows EXCEPT ![req[q].id] = None] /\ ReqGo(q, "unroute")
     ELSE UNCHANGED rows /\ ReqAnswer(q)
  /\ UNCHANGED <<accounts, reserved, certs, routes, cache, issued, fetch, strayed, cut, kept>>

\* Mutant: the table keeps the route.
RemoveRouteNot(q) ==
  /\ reqAt(q, "unroute")
  /\ ReqGo(q, "uncache")
  /\ UNCHANGED <<tableVars, routes, cache, issued, fetch, strayed, cut, kept>>

\* RemoveCustomDomain goes by the name, whose row may be a newer one.
RemoveRoute(q) ==
  /\ reqAt(q, "unroute")
  /\ routes' = [routes EXCEPT ![req[q].name] = 0]
  /\ strayed' = strayed \ {req[q].name}
  /\ cut' = IF rowOf(req[q].name) # {} THEN cut \cup {req[q].name} ELSE cut
  /\ ReqGo(q, "uncache")
  /\ UNCHANGED <<tableVars, cache, issued, fetch, kept>>

\* RemoveCert, which leaves what autocert remembers.
Uncache(q) ==
  /\ reqAt(q, "uncache")
  /\ cache' = cache \ {req[q].name}
  /\ ReqGo(q, "uncert")
  /\ UNCHANGED <<tableVars, routes, issued, fetch, strayed, cut, kept>>

\* DeleteByDomain, whose failure is only logged.
DeleteCert(q) ==
  /\ reqAt(q, "uncert")
  /\ \/ certs' = certs \ {req[q].name} /\ kept' = kept \ {req[q].name}
     \/ kept' = kept \cup {req[q].name} /\ UNCHANGED certs
  /\ ReqAnswer(q)
  /\ UNCHANGED <<accounts, reserved, rows, routes, cache, issued, fetch, strayed, cut>>

\* handleDeleteUser: the rows go, the routes and certificates stay.
UserDeleted(u) ==
  /\ u \in accounts
  /\ accounts' = accounts \ {u}
  /\ reserved' = [s \in Subs |-> IF reserved[s] = u THEN None ELSE reserved[s]]
  /\ rows' = [r \in Rows |-> IF live(r) /\ rows[r].user = u THEN None ELSE rows[r]]
  /\ LET gone == {rows[r].name : r \in ofUser(u)} IN
     strayed' = strayed \cup gone /\ kept' = kept \cup gone
  /\ UNCHANGED <<certs, routes, cache, issued, req, fetch, cut>>

-----------------------------------------------------------------------------
(* Certificates.                                                           *)

\* A handshake for a name that the cache does not have, and the renewal of a
\* certificate.
Handshake(f, x) ==
  /\ fetch[f] = noFetch /\ x \notin cache
  /\ fetch' = [fetch EXCEPT ![f] = [at |-> IF x \in certs THEN "cache" ELSE "acme", name |-> x]]
  /\ UNCHANGED <<tableVars, routes, cache, issued, req, strayed, cut, kept>>

Renew(f, x) ==
  /\ fetch[f] = noFetch /\ x \in certs
  /\ fetch' = [fetch EXCEPT ![f] = [at |-> "acme", name |-> x]]
  /\ UNCHANGED <<tableVars, routes, cache, issued, req, strayed, cut, kept>>

\* autocert.Manager: a certificate it remembers, or a new one, which it gets
\* only for a name that hostPolicy finds among the rows.
Acme(f) ==
  /\ fetch[f].at = "acme"
  /\ \/ fetch' = [fetch EXCEPT ![f] = noFetch] /\ UNCHANGED issued
     \/ /\ fetch[f].name \in issued \/ rowOf(fetch[f].name) # {}
        /\ issued' = issued \cup {fetch[f].name}
        /\ fetch' = [fetch EXCEPT ![f].at = "store"]
  /\ UNCHANGED <<tableVars, routes, cache, req, strayed, cut, kept>>

\* Upsert. When it fails, a handshake goes on, and the goroutine of ObtainCert
\* ends.
Store(f) ==
  /\ fetch[f].at = "store"
  /\ LET x == fetch[f].name IN
     \/ /\ certs' = certs \cup {x}
        /\ kept' = IF rowOf(x) = {} THEN kept \cup {x} ELSE kept
        /\ fetch' = [fetch EXCEPT ![f].at = "cache"]
     \/ /\ fetch' \in {[fetch EXCEPT ![f].at = "cache"], [fetch EXCEPT ![f] = noFetch]}
        /\ UNCHANGED <<certs, kept>>
  /\ UNCHANGED <<accounts, reserved, rows, routes, cache, issued, req, strayed, cut>>

Cache(f) ==
  /\ fetch[f].at = "cache"
  /\ cache' = cache \cup {fetch[f].name}
  /\ fetch' = [fetch EXCEPT ![f] = noFetch]
  /\ UNCHANGED <<tableVars, routes, issued, req, strayed, cut, kept>>

\* LoadCustomDomains.
loaded ==
  [x \in Names |-> IF \E r \in rowOf(x) : rows[r].verified THEN CHOOSE r \in rowOf(x) : TRUE ELSE 0]

\* The server dies and starts again: InitCustomDomains, LoadFromDB. Certificates
\* that were not removed are there for good; autocert has forgotten its own.
Restart ==
  /\ routes' = loaded
  /\ cache' = {x \in certs : loaded[x] # 0} /\ issued' = {}
  /\ req' = [q \in Requests |-> noRequest] /\ fetch' = [f \in Fetchers |-> noFetch]
  /\ strayed' = {} /\ cut' = {}
  /\ kept' = kept \cup {req[q].name : q \in {p \in Requests : req[p].at \in {"unroute", "uncache", "uncert"}}}
  /\ UNCHANGED tableVars

RequestStep(q) ==
  \/ Reserve(q) \/ SetVerified(q) \/ AddRoute(q)
  \/ DeleteRow(q) \/ RemoveRoute(q) \/ Uncache(q) \/ DeleteCert(q)
  \/ \E u \in Users, s \in Subs : CountReserved(q, u, s) \/ \E x \in Names : CheckAdd(q, u, x, s)
  \/ \E verified \in BOOLEAN : VerifyDNS(q, verified)
  \/ \E r \in Rows : Create(q, r) \/ FindToVerify(q, r) \/ FindToDelete(q, r)
  \/ \E f \in Fetchers : ObtainCert(q, f)

FetchStep(f) ==
  \/ Acme(f) \/ Store(f) \/ Cache(f)
  \/ \E x \in Names : Handshake(f, x) \/ Renew(f, x)

DomainsNext ==
  \/ \E q \in Requests : RequestStep(q)
  \/ \E f \in Fetchers : FetchStep(f)
  \/ \E s \in Subs : Release(s)
  \/ \E u \in Users : UserDeleted(u)
  \/ Restart

DomainsSpec == DomainsInit /\ [][DomainsNext]_domainsVars

-----------------------------------------------------------------------------
removing(x) == \E q \in Requests : reqAt(q, "unroute") /\ req[q].name = x
adding(x) == \E q \in Requests : reqAt(q, "route") /\ req[q].name = x

\* A name is routed only by a verified row of it, but for a route whose row was
\* deleted while it was being verified, or with its user; a restart forgets it.
RoutesRegistered ==
  \A x \in Names : routes[x] # 0 =>
    (live(routes[x]) /\ rows[routes[x]].name = x /\ rows[routes[x]].verified)
      \/ removing(x) \/ x \in strayed

\* A verified domain is routed, and to its own target, unless an older row of
\* the name was being removed or verified when it was added; a restart finds it.
VerifiedRouted ==
  \A x \in Names : \A r \in rowOf(x) :
    rows[r].verified => routes[x] = r \/ adding(x) \/ removing(x) \/ x \in cut

\* A name that nobody has registered has no certificate in the database, but for
\* one that is being removed, or was stored again since, when autocert got or
\* remembered it, or is left by a user that was deleted, a failed removal, or a
\* crash.
CertsRegistered ==
  \A x \in certs : rowOf(x) # {} \/ x \in kept
    \/ \E q \in Requests : req[q].name = x /\ req[q].at \in {"unroute", "uncache", "uncert"}

\* The routes, their targets and the certificates are those of the verified
\* domains in the database (handleVerifyCustomDomain, handleDeleteCustomDomain).
DomainsServed == RoutesRegistered /\ VerifiedRouted /\ CertsRegistered
=============================================================================
