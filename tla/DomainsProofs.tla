---------------------------- MODULE DomainsProofs ----------------------------
(***************************************************************************)
(* Proofs about Domains, for any number of accounts, names, requests and   *)
(* certificate goroutines.                                                 *)
(***************************************************************************)
EXTENDS Domains, TLAPS

\* The values are records of these fields; a row may be absent.
RequestShape ==
  /\ req = [q \in Requests |-> req[q]]
  /\ \A q \in Requests : req[q] = [at |-> req[q].at, user |-> req[q].user, sub |-> req[q].sub,
                                   name |-> req[q].name, id |-> req[q].id, verified |-> req[q].verified]
FetchShape ==
  /\ fetch = [f \in Fetchers |-> fetch[f]]
  /\ \A f \in Fetchers : fetch[f] = [at |-> fetch[f].at, name |-> fetch[f].name]
RowShape ==
  /\ rows = [r \in Rows |-> rows[r]]
  /\ \A r \in Rows : rows[r] = None \/
       rows[r] = [user |-> rows[r].user, name |-> rows[r].name, sub |-> rows[r].sub, verified |-> rows[r].verified]
RouteShape == routes = [x \in Names |-> routes[x]]
Shapes == RequestShape /\ FetchShape /\ RowShape /\ RouteShape

\* A request that holds the ID of a row has its name, and sets the route of a
\* verified one; a name has one row.
Named == \A q \in Requests : live(req[q].id) => rows[req[q].id].name = req[q].name
RoutedVerified == \A q \in Requests : reqAt(q, "route") /\ live(req[q].id) => rows[req[q].id].verified
Unique == \A r, m \in Rows : live(r) /\ live(m) /\ rows[r].name = rows[m].name => r = m

\* A certificate may be there for a name that is registered, or is being
\* removed, or for the reasons that kept names.
taking(q) == req[q].at \in {"unroute", "uncache", "uncert"}
Backed(x) == rowOf(x) # {} \/ x \in kept \/ \E q \in Requests : taking(q) /\ req[q].name = x
CertsBacked == \A x \in certs : Backed(x)

RowInv == Named /\ RoutedVerified /\ Unique
RouteInv == RoutesRegistered /\ VerifiedRouted
DomainInv == Shapes /\ RowInv /\ RouteInv /\ CertsBacked

\* The value for an absent row is none a row can have.
Absent == \A who, name, sub, verified :
            None # [user |-> who, name |-> name, sub |-> sub, verified |-> verified]

-----------------------------------------------------------------------------
(* What the steps of a request do to its place.                            *)

\* Only q moves, to this place.
MovedTo(q, place) ==
  /\ \A p \in Requests \ {q} : req'[p] = req[p]
  /\ req'[q].at = place /\ req'[q].name = req[q].name /\ req'[q].id = req[q].id

LEMMA GoMoves ==
  ASSUME RequestShape, NEW q \in Requests, NEW place, ReqGo(q, place)
  PROVE  RequestShape' /\ MovedTo(q, place)
  BY DEF ReqGo, RequestShape, MovedTo

LEMMA Answered ==
  ASSUME RequestShape, NEW q \in Requests, ReqAnswer(q)
  PROVE  RequestShape' /\ req'[q] = noRequest /\ \A p \in Requests \ {q} : req'[p] = req[p]
  BY DEF ReqAnswer, RequestShape, noRequest

\* Steps that leave the rows, the routes and the certificates, and do not
\* change who is about to change them.
Minor ==
  /\ Shapes' /\ Named'
  /\ UNCHANGED <<rows, routes, certs, strayed, cut, kept>>
  /\ \A q \in Requests :
       /\ reqAt(q, "route") <=> req'[q].at = "route"
       /\ reqAt(q, "unroute") <=> req'[q].at = "unroute"
       /\ taking(q) <=> taking(q)'
       /\ reqAt(q, "route") \/ taking(q) => req'[q].name = req[q].name /\ req'[q].id = req[q].id

LEMMA MinorStep ==
  ASSUME DomainInv, Minor
  PROVE  DomainInv'
<1> USE DEF DomainInv, Minor
<1>1. \A x : (removing(x) <=> removing(x)') /\ (adding(x) <=> adding(x)')
  BY DEF removing, adding, reqAt, taking
<1>2. \A r : live(r) <=> live(r)'
  BY DEF live
<1>3. RowInv'
  BY DEF RowInv, RoutedVerified, Unique, reqAt, live
<1>4. RouteInv'
  <2>1. RoutesRegistered'
    BY <1>1 DEF RouteInv, RoutesRegistered, live
  <2>2. VerifiedRouted'
    BY <1>1 DEF RouteInv, VerifiedRouted, rowOf, live
  <2>3. QED
    BY <2>1, <2>2 DEF RouteInv
<1>5. \A x : Backed(x) <=> Backed(x)'
  <2>1. \A x : rowOf(x) = rowOf(x)'
    BY DEF rowOf, live
  <2>2. QED
    BY <2>1 DEF Backed
<1>6. CertsBacked'
  BY <1>5 DEF CertsBacked
<1>7. QED
  BY <1>3, <1>4, <1>6

-----------------------------------------------------------------------------
(* Those steps.                                                            *)

quiet == {"idle", "reserve", "dns", "create", "set", "obtain", "delete"}

\* One request goes from one of these places to another.
LEMMA QuietMinor ==
  ASSUME DomainInv, NEW q \in Requests, UNCHANGED <<rows, routes, certs, strayed, cut, kept, fetch>>,
         RequestShape', \A p \in Requests \ {q} : req'[p] = req[p],
         req[q].at \in quiet, req'[q].at \in quiet,
         live(req'[q].id) => rows[req'[q].id].name = req'[q].name
  PROVE  DomainInv'
<1>1. Shapes'
  BY DEF DomainInv, Shapes, FetchShape, RowShape, RouteShape
<1>2. Named'
  BY DEF DomainInv, RowInv, Named, live
<1>3. \A p \in Requests :
        /\ reqAt(p, "route") <=> req'[p].at = "route"
        /\ reqAt(p, "unroute") <=> req'[p].at = "unroute"
        /\ taking(p) <=> taking(p)'
        /\ reqAt(p, "route") \/ taking(p) => req'[p].name = req[p].name /\ req'[p].id = req[p].id
  BY DEF reqAt, taking, quiet
<1>4. QED
  BY <1>1, <1>2, <1>3, MinorStep DEF Minor

(* A request is a record of these fields, and stays one.                   *)
Request(a) ==
  a = [at |-> a.at, user |-> a.user, sub |-> a.sub, name |-> a.name, id |-> a.id, verified |-> a.verified]

LEMMA IdleRequest == Request(noRequest) /\ noRequest.at = "idle" /\ noRequest.id = 0
  BY DEF Request, noRequest

LEMMA RequestMinor ==
  ASSUME DomainInv, NEW q \in Requests,
         \/ \E u \in Users, s \in Subs : CountReserved(q, u, s) \/ \E x \in Names : CheckAdd(q, u, x, s)
         \/ Reserve(q)
         \/ \E verified \in BOOLEAN : VerifyDNS(q, verified)
         \/ \E r \in Rows : FindToVerify(q, r) \/ FindToDelete(q, r)
  PROVE  DomainInv'
<1> USE DEF tableVars
<1>1. RequestShape
  BY DEF DomainInv, Shapes
<1>2. ASSUME NEW new, req' = [req EXCEPT ![q] = new], reqAt(q, "idle"),
             Request(new),
             new.at \in {"reserve", "dns", "set", "delete"}, live(new.id) => rows[new.id].name = new.name,
             UNCHANGED <<rows, routes, certs, strayed, cut, kept, fetch>>
      PROVE  DomainInv'
  <2>1. RequestShape' /\ req'[q] = new /\ \A p \in Requests \ {q} : req'[p] = req[p]
    BY <1>1, <1>2 DEF RequestShape, Request
  <2>2. req[q].at \in quiet /\ req'[q].at \in quiet
    BY <1>2, <2>1 DEF quiet, reqAt
  <2>3. QED
    BY <1>2, <2>1, <2>2, QuietMinor
<1>3. ~live(0)
  BY DEF live, Rows
<1>4. ASSUME NEW u \in Users, NEW s \in Subs, CountReserved(q, u, s) PROVE DomainInv'
  <2> DEFINE s1 == [noRequest EXCEPT !.at = "reserve"]
             s2 == [s1 EXCEPT !.user = u]
             new == [s2 EXCEPT !.sub = s]
  <2>1. req' = [req EXCEPT ![q] = new] /\ reqAt(q, "idle") /\
        UNCHANGED <<rows, routes, certs, strayed, cut, kept, fetch>>
    BY <1>4 DEF CountReserved
  <2>2. Request(s1) /\ s1.at = "reserve" /\ s1.id = 0
    BY IdleRequest DEF Request
  <2> HIDE DEF s1
  <2>3. Request(s2) /\ s2.at = "reserve" /\ s2.id = 0
    BY <2>2 DEF Request
  <2> HIDE DEF s2
  <2>4. Request(new) /\ new.at = "reserve" /\ new.id = 0
    BY <2>3 DEF Request
  <2> HIDE DEF new
  <2>5. QED
    BY <1>2, <1>3, <2>1, <2>4
<1>5. ASSUME NEW u \in Users, NEW s \in Subs, NEW x \in Names, CheckAdd(q, u, x, s) PROVE DomainInv'
  <2> DEFINE s1 == [noRequest EXCEPT !.at = "dns"]
             s2 == [s1 EXCEPT !.user = u]
             s3 == [s2 EXCEPT !.name = x]
             new == [s3 EXCEPT !.sub = s]
  <2>1. req' = [req EXCEPT ![q] = new] /\ reqAt(q, "idle") /\
        UNCHANGED <<rows, routes, certs, strayed, cut, kept, fetch>>
    BY <1>5 DEF CheckAdd
  <2>2. Request(s1) /\ s1.at = "dns" /\ s1.id = 0
    BY IdleRequest DEF Request
  <2> HIDE DEF s1
  <2>3. Request(s2) /\ s2.at = "dns" /\ s2.id = 0
    BY <2>2 DEF Request
  <2> HIDE DEF s2
  <2>4. Request(s3) /\ s3.at = "dns" /\ s3.id = 0 /\ s3.name = x
    BY <2>3 DEF Request
  <2> HIDE DEF s3
  <2>5. Request(new) /\ new.at = "dns" /\ new.id = 0
    BY <2>4 DEF Request
  <2> HIDE DEF new
  <2>6. QED
    BY <1>2, <1>3, <2>1, <2>5
<1>6. ASSUME NEW place \in {"set", "delete"}, NEW r \in Rows, live(r),
             req' = [req EXCEPT ![q] = [noRequest EXCEPT !.at = place, !.id = r, !.name = rows[r].name]],
             reqAt(q, "idle"),
             UNCHANGED <<rows, routes, certs, strayed, cut, kept, fetch>>
      PROVE  DomainInv'
  <2> DEFINE s1 == [noRequest EXCEPT !.at = place]
             s2 == [s1 EXCEPT !.id = r]
             new == [s2 EXCEPT !.name = rows[r].name]
  <2>1. req' = [req EXCEPT ![q] = new]
    BY <1>6
  <2>2. Request(s1) /\ s1.at = place /\ s1.id = 0
    BY IdleRequest DEF Request
  <2> HIDE DEF s1
  <2>3. Request(s2) /\ s2.at = place /\ s2.id = r
    BY <2>2 DEF Request
  <2> HIDE DEF s2
  <2>4. Request(new) /\ new.at = place /\ new.id = r /\ new.name = rows[r].name
    BY <2>3 DEF Request
  <2> HIDE DEF new
  <2>5. QED
    BY <1>2, <1>6, <2>1, <2>4
<1>7. ASSUME NEW r \in Rows, FindToVerify(q, r) \/ FindToDelete(q, r) PROVE DomainInv'
  BY <1>6, <1>7 DEF FindToVerify, FindToDelete
<1>8. CASE Reserve(q)
  <2>1. RequestShape' /\ req'[q] = noRequest /\ \A p \in Requests \ {q} : req'[p] = req[p]
    BY <1>1, <1>8, Answered DEF Reserve
  <2>2. QED
    BY <1>3, <1>8, <2>1, QuietMinor DEF Reserve, noRequest, quiet, reqAt
<1>9. ASSUME NEW verified \in BOOLEAN, VerifyDNS(q, verified) PROVE DomainInv'
  <2> DEFINE step == [req EXCEPT ![q].at = "create"]
  <2>1. req' = [step EXCEPT ![q].verified = verified]
    BY <1>9 DEF VerifyDNS
  <2>2. step = [p \in Requests |-> step[p]] /\ \A p \in Requests : step[p] = IF p = q THEN
          [at |-> "create", user |-> req[q].user, sub |-> req[q].sub, name |-> req[q].name, id |-> req[q].id,
           verified |-> req[q].verified] ELSE req[p]
    BY <1>1 DEF RequestShape
  <2> HIDE DEF step
  <2>3. req' = [p \in Requests |-> req'[p]] /\ \A p \in Requests : p # q => req'[p] = req[p]
    BY <2>1, <2>2
  <2>4. req'[q] = [step[q] EXCEPT !.verified = verified]
    BY <2>1, <2>2
  <2>5. /\ req'[q].at = "create" /\ req'[q].id = req[q].id /\ req'[q].name = req[q].name
        /\ req'[q] = [at |-> req'[q].at, user |-> req'[q].user, sub |-> req'[q].sub, name |-> req'[q].name,
                      id |-> req'[q].id, verified |-> req'[q].verified]
    BY <2>2, <2>4
  <2>6. RequestShape'
    BY <1>1, <2>3, <2>5 DEF RequestShape
  <2>7. live(req[q].id) => rows[req[q].id].name = req[q].name
    BY DEF DomainInv, RowInv, Named
  <2>8. QED
    BY <1>9, <2>3, <2>5, <2>6, <2>7, QuietMinor DEF VerifyDNS, quiet, reqAt
<1>10. QED
  BY <1>4, <1>5, <1>7, <1>8, <1>9

LEMMA OtherMinor ==
  ASSUME DomainInv,
         \/ \E q \in Requests : Uncache(q) \/ \E f \in Fetchers : ObtainCert(q, f)
         \/ \E f \in Fetchers, x \in Names : Handshake(f, x) \/ Renew(f, x)
         \/ \E f \in Fetchers : Acme(f) \/ Cache(f)
         \/ \E s \in Subs : Release(s)
         \/ UNCHANGED domainsVars
  PROVE  DomainInv'
<1> USE DEF tableVars
<1>1. RequestShape /\ FetchShape /\ RowShape /\ RouteShape /\ Named
  BY DEF DomainInv, Shapes, RowInv
\* A fetcher moves, and the requests stay.
<1>2. ASSUME NEW f \in Fetchers, NEW new, fetch' = [fetch EXCEPT ![f] = new],
             new = [at |-> new.at, name |-> new.name],
             UNCHANGED <<rows, routes, certs, strayed, cut, kept, req>>
      PROVE  DomainInv'
  <2>1. FetchShape' /\ \A g \in Fetchers : fetch'[g] = IF g = f THEN new ELSE fetch[g]
    BY <1>1, <1>2 DEF FetchShape
  <2>2. Shapes' /\ Named'
    BY <1>1, <1>2, <2>1 DEF Shapes, RequestShape, RowShape, RouteShape, Named, live
  <2>3. QED
    BY <1>2, <2>1, <2>2, MinorStep DEF Minor, reqAt, taking
<1>3. ASSUME NEW q \in Requests, Uncache(q) PROVE DomainInv'
  <2>1. RequestShape' /\ MovedTo(q, "uncert") /\ req[q].at = "uncache"
    BY <1>1, <1>3, GoMoves DEF Uncache, reqAt
  <2>2. UNCHANGED <<rows, routes, certs, strayed, cut, kept, fetch>>
    BY <1>3 DEF Uncache
  <2>3. Shapes' /\ Named'
    BY <1>1, <2>1, <2>2 DEF Shapes, FetchShape, RowShape, RouteShape, Named, live, MovedTo
  <2>4. \A p \in Requests :
          /\ reqAt(p, "route") <=> req'[p].at = "route"
          /\ reqAt(p, "unroute") <=> req'[p].at = "unroute"
          /\ taking(p) <=> taking(p)'
          /\ req'[p].name = req[p].name /\ req'[p].id = req[p].id
    BY <2>1 DEF MovedTo, reqAt, taking
  <2>5. QED
    BY <2>2, <2>3, <2>4, MinorStep DEF Minor
<1>4. ASSUME NEW q \in Requests, NEW f \in Fetchers, ObtainCert(q, f) PROVE DomainInv'
  <2>1. RequestShape' /\ req'[q] = noRequest /\ req[q].at = "obtain" /\ \A p \in Requests \ {q} : req'[p] = req[p]
    BY <1>1, <1>4, Answered DEF ObtainCert, reqAt
  <2>2. FetchShape' /\ \A g \in Fetchers :
        fetch'[g] = IF g = f THEN [at |-> "acme", name |-> req[q].name] ELSE fetch[g]
    BY <1>1, <1>4 DEF ObtainCert, FetchShape
  <2>3. UNCHANGED <<rows, routes, certs, strayed, cut, kept>>
    BY <1>4 DEF ObtainCert
  <2>4. Shapes' /\ Named'
    <3>1. ~live(0)
      BY DEF live, Rows
    <3>2. QED
      BY <1>1, <2>1, <2>2, <2>3, <3>1 DEF Shapes, RowShape, RouteShape, Named, live, noRequest
  <2>5. \A p \in Requests :
          /\ reqAt(p, "route") <=> req'[p].at = "route"
          /\ reqAt(p, "unroute") <=> req'[p].at = "unroute"
          /\ taking(p) <=> taking(p)'
          /\ reqAt(p, "route") \/ taking(p) => req'[p].name = req[p].name /\ req'[p].id = req[p].id
    BY <2>1 DEF reqAt, taking, noRequest
  <2>6. QED
    BY <2>3, <2>4, <2>5, MinorStep DEF Minor
<1>5. ASSUME NEW f \in Fetchers, NEW x \in Names, Handshake(f, x) PROVE DomainInv'
  <2> DEFINE new == [at |-> IF x \in certs THEN "cache" ELSE "acme", name |-> x]
  <2>1. fetch' = [fetch EXCEPT ![f] = new] /\ UNCHANGED <<rows, routes, certs, strayed, cut, kept, req>>
    BY <1>5 DEF Handshake
  <2>2. new = [at |-> new.at, name |-> new.name]
    OBVIOUS
  <2> HIDE DEF new
  <2>3. QED
    BY <1>2, <2>1, <2>2
<1>6. ASSUME NEW f \in Fetchers, NEW x \in Names, Renew(f, x) PROVE DomainInv'
  <2> DEFINE new == [at |-> "acme", name |-> x]
  <2>1. fetch' = [fetch EXCEPT ![f] = new] /\ UNCHANGED <<rows, routes, certs, strayed, cut, kept, req>>
    BY <1>6 DEF Renew
  <2>2. new = [at |-> new.at, name |-> new.name]
    OBVIOUS
  <2> HIDE DEF new
  <2>3. QED
    BY <1>2, <2>1, <2>2
<1>7. ASSUME NEW f \in Fetchers, Acme(f) \/ Cache(f) PROVE DomainInv'
  <2> DEFINE new == fetch'[f]
  <2>1. fetch' \in {[fetch EXCEPT ![f] = noFetch], [fetch EXCEPT ![f].at = "store"]}
    BY <1>7 DEF Acme, Cache
  <2>2. fetch' = [fetch EXCEPT ![f] = new] /\ new = [at |-> new.at, name |-> new.name]
    BY <1>1, <2>1 DEF FetchShape, noFetch
  <2>3. UNCHANGED <<rows, routes, certs, strayed, cut, kept, req>>
    BY <1>7 DEF Acme, Cache
  <2> HIDE DEF new
  <2>4. QED
    BY <1>2, <2>2, <2>3
<1>9. ASSUME UNCHANGED <<rows, routes, certs, strayed, cut, kept, req, fetch>> PROVE DomainInv'
  <2>1. Shapes' /\ Named'
    BY <1>1, <1>9 DEF Shapes, RequestShape, FetchShape, RowShape, RouteShape, Named, live
  <2>2. QED
    BY <1>9, <2>1, MinorStep DEF Minor, reqAt, taking
<1>10. ASSUME NEW s \in Subs, Release(s) PROVE DomainInv'
  BY <1>9, <1>10 DEF Release
<1>11. QED
  BY <1>3, <1>4, <1>5, <1>6, <1>7, <1>9, <1>10 DEF domainsVars

-----------------------------------------------------------------------------
(* The steps that change rows.                                             *)

LEMMA CreateStep ==
  ASSUME DomainInv, NEW q \in Requests, NEW r \in Rows, Create(q, r)
  PROVE  DomainInv'
<1> DEFINE who == req[q]
           row == [user |-> who.user, name |-> who.name, sub |-> who.sub, verified |-> who.verified]
<1>1. RequestShape
  BY DEF DomainInv, Shapes
<1>a. FetchShape /\ RowShape /\ RouteShape
  BY DEF DomainInv, Shapes
<1>b. req[q].at = "create" /\ ~live(0)
  BY DEF Create, reqAt, live, Rows
<1>2. CASE ReqAnswer(q) /\ UNCHANGED rows
  <2>1. RequestShape' /\ req'[q] = noRequest /\ \A p \in Requests \ {q} : req'[p] = req[p]
    BY <1>1, <1>2, Answered
  <2>2. QED
    BY <1>b, <1>2, <2>1, QuietMinor DEF Create, quiet, noRequest
<1>3. CASE ~(ReqAnswer(q) /\ UNCHANGED rows)
  <2>1. /\ rowOf(who.name) = {} /\ newRow(r) /\ rows' = [rows EXCEPT ![r] = row]
        /\ IF who.verified THEN req' = [req EXCEPT ![q].at = "route", ![q].id = r] ELSE ReqAnswer(q)
        /\ UNCHANGED <<certs, routes, fetch, strayed, cut, kept>>
    BY <1>3 DEF Create
  <2>2. ~live(r) /\ \A p \in Requests : req[p].id # r
    BY <2>1 DEF newRow, Rows
  <2>3. \A m \in Rows : rows'[m] = IF m = r THEN row ELSE rows[m]
    BY <1>a, <2>1 DEF RowShape
  <2>4. /\ RequestShape' /\ \A p \in Requests \ {q} : req'[p] = req[p]
        /\ IF who.verified THEN req'[q].at = "route" /\ req'[q].id = r /\ req'[q].name = who.name
           ELSE req'[q] = noRequest
    <3>1. CASE who.verified
      <4> DEFINE s1 == [who EXCEPT !.at = "route"]
                 s2 == [s1 EXCEPT !.id = r]
      <4>1. req' = [req EXCEPT ![q] = s2]
        BY <1>1, <2>1, <3>1 DEF RequestShape
      <4>2. Request(s1) /\ s1.at = "route" /\ s1.name = who.name
        BY <1>1 DEF RequestShape, Request
      <4> HIDE DEF s1
      <4>3. Request(s2) /\ s2.at = "route" /\ s2.name = who.name /\ s2.id = r
        BY <4>2 DEF Request
      <4> HIDE DEF s2
      <4>4. QED
        BY <1>1, <3>1, <4>1, <4>3 DEF RequestShape, Request
    <3>2. CASE ~who.verified
      BY <1>1, <2>1, <3>2, Answered
    <3>3. QED
      BY <3>1, <3>2
  <2>5. Shapes'
    BY <1>a, <2>1, <2>3, <2>4 DEF Shapes, FetchShape, RowShape, RouteShape
  <2>6. \A m \in Rows : m # r => (live(m) <=> live(m)') /\ rows'[m] = rows[m]
    BY <2>3 DEF live
  <2>7. rows'[r].name = who.name /\ rows'[r].verified = who.verified
    BY <2>3
  <2>8. RowInv'
    <3>1. Named'
      <4> SUFFICES ASSUME NEW p \in Requests, live(req[p].id)' PROVE rows'[req'[p].id].name = req'[p].name
        BY DEF Named
      <4>1. CASE p = q
        BY <1>b, <2>4, <2>7, <4>1 DEF noRequest, live, Rows
      <4>2. CASE p # q
        <5>1. req'[p] = req[p] /\ req[p].id # r /\ req[p].id \in Rows
          BY <2>2, <2>4, <4>2 DEF live
        <5>2. QED
          BY <2>6, <5>1 DEF DomainInv, RowInv, Named
      <4>3. QED
        BY <4>1, <4>2
    <3>2. RoutedVerified'
      <4> SUFFICES ASSUME NEW p \in Requests, req'[p].at = "route",
           live(req[p].id)' PROVE rows'[req'[p].id].verified
        BY DEF RoutedVerified, reqAt
      <4>1. CASE p = q
        BY <2>4, <2>7, <4>1 DEF noRequest
      <4>2. CASE p # q
        <5>1. req'[p] = req[p] /\ req[p].id # r /\ req[p].id \in Rows
          BY <2>2, <2>4, <4>2 DEF live
        <5>2. QED
          BY <2>6, <5>1 DEF DomainInv, RowInv, RoutedVerified, reqAt
      <4>3. QED
        BY <4>1, <4>2
    <3>3. Unique'
      <4>1. \A m \in Rows : live(m) => rows[m].name # who.name
        BY <2>1 DEF rowOf
      <4>2. QED
        BY <2>6, <2>7, <4>1 DEF Unique, DomainInv, RowInv
    <3>4. QED
      BY <3>1, <3>2, <3>3 DEF RowInv
  <2>9. \A x \in Names : (removing(x) => removing(x)') /\ (adding(x) => adding(x)')
    BY <1>b, <2>4 DEF removing, adding, reqAt
  <2>10. RouteInv'
    <3>1. RoutesRegistered'
      <4> SUFFICES ASSUME NEW x \in Names, routes[x] # 0
                   PROVE  \/ live(routes[x])' /\ rows'[routes[x]].name = x /\ rows'[routes[x]].verified
                          \/ removing(x)' \/ x \in strayed
        BY <2>1 DEF RoutesRegistered
      <4>1. CASE live(routes[x]) /\ rows[routes[x]].name = x /\ rows[routes[x]].verified
        BY <2>1, <2>2, <2>6, <4>1 DEF live
      <4>2. QED
        BY <2>9, <4>1 DEF DomainInv, RouteInv, RoutesRegistered
    <3>2. VerifiedRouted'
      <4> SUFFICES ASSUME NEW x \in Names, NEW m \in Rows, live(m)', rows'[m].name = x, rows'[m].verified
                   PROVE  routes[x] = m \/ adding(x)' \/ removing(x)' \/ x \in cut
        BY <2>1 DEF VerifiedRouted, rowOf
      <4>1. CASE m = r
        BY <2>4, <2>7, <4>1 DEF adding, reqAt
      <4>2. CASE m # r
        BY <2>6, <2>9, <4>2 DEF DomainInv, RouteInv, VerifiedRouted, rowOf
      <4>3. QED
        BY <4>1, <4>2
    <3>3. QED
      BY <3>1, <3>2 DEF RouteInv
  <2>11. \A x : Backed(x) => Backed(x)'
    <3> SUFFICES ASSUME NEW x, Backed(x) PROVE Backed(x)'
      OBVIOUS
    <3>1. CASE rowOf(x) # {}
      <4>1. PICK m \in Rows : live(m) /\ rows[m].name = x
        BY <3>1 DEF rowOf
      <4>2. QED
        BY <2>2, <2>6, <4>1 DEF Backed, rowOf
    <3>2. CASE x \in kept
      BY <2>1, <3>2 DEF Backed
    <3>3. CASE \E p \in Requests : taking(p) /\ req[p].name = x
      BY <1>b, <2>4, <3>3 DEF Backed, taking
    <3>4. QED
      BY <3>1, <3>2, <3>3 DEF Backed
  <2>12. CertsBacked'
    BY <2>1, <2>11 DEF DomainInv, CertsBacked
  <2>13. QED
    BY <2>5, <2>8, <2>10, <2>12 DEF DomainInv
<1>4. QED
  BY <1>2, <1>3

LEMMA SetVerifiedStep ==
  ASSUME Absent, DomainInv, NEW q \in Requests, SetVerified(q)
  PROVE  DomainInv'
<1> DEFINE id == req[q].id
<1>1. RequestShape
  BY DEF DomainInv, Shapes
<1>2. FetchShape /\ RowShape /\ RouteShape
  BY DEF DomainInv, Shapes
<1>3. /\ reqAt(q, "set") /\ UNCHANGED <<certs, routes, fetch, strayed, cut, kept>>
      /\ rows' = IF live(id) THEN [rows EXCEPT ![id].verified = TRUE] ELSE rows
  BY DEF SetVerified
<1>4. RequestShape' /\ MovedTo(q, "route")
  BY <1>1, GoMoves DEF SetVerified
<1>5. RowShape' /\ (live(id) => rows'[id].verified) /\ \A r \in Rows :
        /\ live(r) <=> live(r)'
        /\ live(r) => rows'[r].name = rows[r].name /\ (rows[r].verified => rows'[r].verified)
        /\ live(r) /\ r # id => rows'[r] = rows[r]
  <2>1. CASE ~live(id)
    BY <1>2, <1>3, <2>1 DEF RowShape, live
  <2>2. CASE live(id)
    <3>1. rows' = [rows EXCEPT ![id] = [rows[id] EXCEPT !.verified = TRUE]] /\ id \in Rows
      BY <1>3, <2>2 DEF live
    <3>2. \A r \in Rows : rows'[r] = IF r = id THEN [rows[id] EXCEPT !.verified = TRUE] ELSE rows[r]
      BY <1>2, <3>1 DEF RowShape
    <3>3. rows[id] = [user |-> rows[id].user, name |-> rows[id].name, sub |-> rows[id].sub,
                      verified |-> rows[id].verified]
      BY <1>2, <2>2 DEF RowShape, live
    <3>a. rows'[id] = [rows[id] EXCEPT !.verified = TRUE]
      BY <3>1, <3>2
    <3>b. rows'[id].name = rows[id].name /\ rows'[id].verified
      BY <3>3, <3>a
    <3>4. rows'[id] = [user |-> rows'[id].user, name |-> rows'[id].name, sub |-> rows'[id].sub,
                       verified |-> rows'[id].verified]
      BY <3>3, <3>a
    <3>5. rows'[id] # None
      BY <3>4 DEF Absent
    <3>6. RowShape'
      <4>1. \A r \in Rows : rows'[r] = None \/ rows'[r] = [user |-> rows'[r].user, name |-> rows'[r].name,
                                                           sub |-> rows'[r].sub, verified |-> rows'[r].verified]
        BY <1>2, <3>2, <3>4 DEF RowShape
      <4>2. rows' = [r \in Rows |-> rows'[r]]
        BY <1>2, <3>1 DEF RowShape
      <4>3. QED
        BY <4>1, <4>2 DEF RowShape
    <3>7. \A r \in Rows : r # id => rows'[r] = rows[r]
      BY <3>2
    <3>8. QED
      BY <2>2, <3>b, <3>5, <3>6, <3>7 DEF live
  <2>3. QED
    BY <2>1, <2>2
<1>6. Shapes'
  BY <1>2, <1>3, <1>4, <1>5 DEF Shapes, FetchShape, RouteShape
<1>7. reqAt(q, "set") /\ req'[q].at = "route" /\ req'[q].id = id /\ req'[q].name = req[q].name
      /\ \A p \in Requests \ {q} : req'[p] = req[p]
  BY <1>3, <1>4 DEF MovedTo
<1>8. \A p \in Requests : req'[p].id = req[p].id /\ req'[p].name = req[p].name
        /\ (taking(p) <=> taking(p)') /\ (reqAt(p, "unroute") <=> req'[p].at = "unroute")
        /\ (reqAt(p, "route") => req'[p].at = "route") /\ (req'[p].at = "route" => p = q \/ reqAt(p, "route"))
  BY <1>7 DEF reqAt, taking
<1>9. RowInv'
  <2>1. Named'
    BY <1>5, <1>8 DEF DomainInv, RowInv, Named, live
  <2>2. RoutedVerified'
    <3> SUFFICES ASSUME NEW p \in Requests, req'[p].at = "route", live(req[p].id)' PROVE rows'[req'[p].id].verified
      BY DEF RoutedVerified, reqAt
    <3>1. CASE p = q
      BY <1>5, <1>7, <3>1 DEF live
    <3>2. CASE p # q
      BY <1>5, <1>8, <3>2 DEF live, DomainInv, RowInv, RoutedVerified
    <3>3. QED
      BY <3>1, <3>2
  <2>3. Unique'
    BY <1>5 DEF DomainInv, RowInv, Unique
  <2>4. QED
    BY <2>1, <2>2, <2>3 DEF RowInv
<1>10. \A x : (removing(x) <=> removing(x)') /\ (adding(x) => adding(x)')
  BY <1>8 DEF removing, adding, reqAt
<1>11. RouteInv'
  <2>1. RoutesRegistered'
    <3> SUFFICES ASSUME NEW x \in Names, routes[x] # 0
                 PROVE  \/ live(routes[x])' /\ rows'[routes[x]].name = x /\ rows'[routes[x]].verified
                        \/ removing(x)' \/ x \in strayed
      BY <1>3 DEF RoutesRegistered
    <3>1. CASE live(routes[x]) /\ rows[routes[x]].name = x /\ rows[routes[x]].verified
      BY <1>3, <1>5, <3>1 DEF live
    <3>2. QED
      BY <1>10, <3>1 DEF DomainInv, RouteInv, RoutesRegistered
  <2>2. VerifiedRouted'
    <3> SUFFICES ASSUME NEW x \in Names, NEW m \in Rows, live(m)', rows'[m].name = x, rows'[m].verified
                 PROVE  routes[x] = m \/ adding(x)' \/ removing(x)' \/ x \in cut
      BY <1>3 DEF VerifiedRouted, rowOf
    <3>1. CASE m = id
      <4>1. live(id) /\ rows[id].name = x
        BY <1>5, <3>1
      <4>2. req[q].name = x
        BY <4>1 DEF DomainInv, RowInv, Named
      <4>3. adding(x)'
        BY <1>7, <4>2 DEF adding, reqAt
      <4>4. QED
        BY <4>3
    <3>2. CASE m # id
      <4>1. live(m) /\ rows[m].name = x /\ rows[m].verified
        BY <1>5, <3>2
      <4>2. QED
        BY <1>10, <4>1 DEF DomainInv, RouteInv, VerifiedRouted, rowOf
    <3>3. QED
      BY <3>1, <3>2
  <2>3. QED
    BY <2>1, <2>2 DEF RouteInv
<1>12. \A x : Backed(x) => Backed(x)'
  <2>1. \A x : rowOf(x) # {} => rowOf(x)' # {}
    BY <1>5 DEF rowOf
  <2>2. QED
    BY <1>3, <1>8, <2>1 DEF Backed
<1>13. CertsBacked'
  BY <1>3, <1>12 DEF DomainInv, CertsBacked
<1>14. QED
  BY <1>6, <1>9, <1>11, <1>13 DEF DomainInv

\* Rows that go: of a request that removes one, or with their user.
LEMMA RowsGo ==
  ASSUME DomainInv, NEW gone \in SUBSET Rows, rows' = [r \in Rows |-> IF r \in gone THEN None ELSE rows[r]]
  PROVE  /\ RowShape'
         /\ \A r \in Rows : live(r)' <=> live(r) /\ r \notin gone
         /\ \A r \in Rows : r \notin gone => rows'[r] = rows[r]
  BY DEF DomainInv, Shapes, RowShape, live

LEMMA DeleteRowStep ==
  ASSUME DomainInv, NEW q \in Requests, DeleteRow(q)
  PROVE  DomainInv'
<1> DEFINE id == req[q].id
           x0 == req[q].name
<1>1. RequestShape
  BY DEF DomainInv, Shapes
<1>2. FetchShape /\ RowShape /\ RouteShape
  BY DEF DomainInv, Shapes
<1>3. req[q].at = "delete" /\ UNCHANGED <<certs, routes, fetch, strayed, cut, kept>>
  BY DEF DeleteRow, reqAt
<1>4. CASE ~live(id)
  <2>1. RequestShape' /\ req'[q] = noRequest /\ \A p \in Requests \ {q} : req'[p] = req[p]
    BY <1>1, <1>4, Answered DEF DeleteRow
  <2>2. ~live(0) /\ UNCHANGED rows
    BY <1>4 DEF DeleteRow, live, Rows
  <2>3. QED
    BY <1>3, <2>1, <2>2, QuietMinor DEF quiet, noRequest
<1>5. CASE live(id)
  <2>1. RequestShape' /\ MovedTo(q, "unroute") /\ rows' = [rows EXCEPT ![id] = None]
    BY <1>1, <1>5, GoMoves DEF DeleteRow
  <2>2. id \in Rows /\ rows[id].name = x0
    BY <1>5 DEF live, DomainInv, RowInv, Named
  <2>3. rows' = [r \in Rows |-> IF r \in {id} THEN None ELSE rows[r]]
    BY <1>2, <2>1 DEF RowShape
  <2>4. RowShape' /\ \A r \in Rows : (live(r)' <=> live(r) /\ r # id) /\ (r # id => rows'[r] = rows[r])
    BY <2>2, <2>3, RowsGo
  <2>5. Shapes'
    BY <1>2, <1>3, <2>1, <2>4 DEF Shapes, FetchShape, RouteShape
  <2>6. \A p \in Requests :
          /\ req'[p].name = req[p].name /\ req'[p].id = req[p].id
          /\ taking(p) => taking(p)'
          /\ reqAt(p, "unroute") => req'[p].at = "unroute"
          /\ reqAt(p, "route") <=> req'[p].at = "route"
    BY <1>3, <2>1 DEF MovedTo, taking, reqAt
  <2>7. taking(q)' /\ removing(x0)' /\ req'[q].name = x0
    BY <2>1 DEF MovedTo, taking, removing, reqAt
  <2>8. RowInv'
    BY <2>4, <2>6 DEF DomainInv, RowInv, Named, RoutedVerified, Unique, reqAt, live
  <2>9. \A x : (removing(x) => removing(x)') /\ (adding(x) => adding(x)')
    BY <2>6 DEF removing, adding, reqAt
  <2>10. RoutesRegistered'
    <3> SUFFICES ASSUME NEW x \in Names, routes[x] # 0
                 PROVE  \/ live(routes[x])' /\ rows'[routes[x]].name = x /\ rows'[routes[x]].verified
                        \/ removing(x)' \/ x \in strayed
      BY <1>3 DEF RoutesRegistered
    <3>1. CASE routes[x] = id /\ x = x0
      BY <2>7, <3>1
    <3>2. CASE live(routes[x]) /\ rows[routes[x]].name = x /\ rows[routes[x]].verified /\ routes[x] # id
      BY <1>3, <2>4, <3>2 DEF live
    <3>3. QED
      BY <2>2, <2>9, <3>1, <3>2 DEF DomainInv, RouteInv, RoutesRegistered
  <2>11. VerifiedRouted'
    <3> SUFFICES ASSUME NEW x \in Names, NEW m \in Rows, live(m)', rows'[m].name = x, rows'[m].verified
                 PROVE  routes[x] = m \/ adding(x)' \/ removing(x)' \/ x \in cut
      BY <1>3 DEF VerifiedRouted, rowOf
    <3>1. live(m) /\ rows[m].name = x /\ rows[m].verified
      BY <2>4
    <3>2. QED
      BY <2>9, <3>1 DEF DomainInv, RouteInv, VerifiedRouted, rowOf
  <2>12. \A x : Backed(x) => Backed(x)'
    <3> SUFFICES ASSUME NEW x, Backed(x) PROVE Backed(x)'
      OBVIOUS
    <3>1. CASE x = x0
      BY <2>7, <3>1 DEF Backed
    <3>2. CASE rowOf(x) # {} /\ x # x0
      <4>1. PICK m \in Rows : live(m) /\ rows[m].name = x
        BY <3>2 DEF rowOf
      <4>2. QED
        BY <2>2, <2>4, <3>2, <4>1 DEF Backed, rowOf
    <3>3. CASE x \in kept \/ \E p \in Requests : taking(p) /\ req[p].name = x
      BY <1>3, <2>6, <3>3 DEF Backed
    <3>4. QED
      BY <3>1, <3>2, <3>3 DEF Backed
  <2>13. CertsBacked'
    BY <1>3, <2>12 DEF DomainInv, CertsBacked
  <2>14. QED
    BY <2>5, <2>8, <2>10, <2>11, <2>13 DEF DomainInv, RouteInv
<1>6. QED
  BY <1>4, <1>5

LEMMA DeleteUserStep ==
  ASSUME DomainInv, NEW u \in Users, UserDeleted(u)
  PROVE  DomainInv'
<1> DEFINE lost == ofUser(u)
           gone == {rows[r].name : r \in lost}
<1>1. /\ rows' = [r \in Rows |-> IF live(r) /\ rows[r].user = u THEN None ELSE rows[r]]
      /\ strayed' = strayed \cup gone /\ kept' = kept \cup gone /\ UNCHANGED <<certs, routes, req, fetch, cut>>
  BY DEF UserDeleted
<1>2. rows' = [r \in Rows |-> IF r \in lost THEN None ELSE rows[r]]
  BY <1>1 DEF ofUser
<1>3. RowShape' /\ \A r \in Rows : (live(r)' <=> live(r) /\ r \notin lost) /\ (r \notin lost => rows'[r] = rows[r])
  <2>1. lost \in SUBSET Rows
    BY DEF ofUser
  <2>2. QED
    BY <1>2, <2>1, RowsGo
<1> HIDE DEF lost
<1>4. Shapes'
  BY <1>1, <1>3 DEF DomainInv, Shapes, RequestShape, FetchShape, RouteShape
<1>5. RowInv'
  BY <1>1, <1>3 DEF DomainInv, RowInv, Named, RoutedVerified, Unique, reqAt, live
<1>6. \A x : (removing(x) <=> removing(x)') /\ (adding(x) <=> adding(x)')
  BY <1>1 DEF removing, adding, reqAt
<1>7. RoutesRegistered'
  <2> SUFFICES ASSUME NEW x \in Names, routes[x] # 0
               PROVE  \/ live(routes[x])' /\ rows'[routes[x]].name = x /\ rows'[routes[x]].verified
                      \/ removing(x)' \/ x \in strayed'
    BY <1>1 DEF RoutesRegistered
  <2>1. CASE live(routes[x]) /\ rows[routes[x]].name = x /\ rows[routes[x]].verified
    <3>1. CASE routes[x] \in lost
      BY <1>1, <2>1, <3>1
    <3>2. CASE routes[x] \notin lost
      BY <1>1, <1>3, <2>1, <3>2 DEF live
    <3>3. QED
      BY <3>1, <3>2
  <2>2. QED
    BY <1>1, <1>6, <2>1 DEF DomainInv, RouteInv, RoutesRegistered
<1>8. VerifiedRouted'
  <2> SUFFICES ASSUME NEW x \in Names, NEW m \in Rows, live(m)', rows'[m].name = x, rows'[m].verified
               PROVE  routes[x] = m \/ adding(x)' \/ removing(x)' \/ x \in cut
    BY <1>1 DEF VerifiedRouted, rowOf
  <2>1. live(m) /\ rows[m].name = x /\ rows[m].verified
    BY <1>3
  <2>2. QED
    BY <1>6, <2>1 DEF DomainInv, RouteInv, VerifiedRouted, rowOf
<1>9. \A x : Backed(x) => Backed(x)'
  <2> SUFFICES ASSUME NEW x, Backed(x) PROVE Backed(x)'
    OBVIOUS
  <2>1. CASE rowOf(x) # {}
    <3>1. PICK m \in Rows : live(m) /\ rows[m].name = x
      BY <2>1 DEF rowOf
    <3>2. CASE m \in lost
      BY <1>1, <3>1, <3>2 DEF Backed
    <3>3. CASE m \notin lost
      BY <1>3, <3>1, <3>3 DEF Backed, rowOf
    <3>4. QED
      BY <3>2, <3>3
  <2>2. CASE x \in kept \/ \E p \in Requests : taking(p) /\ req[p].name = x
    BY <1>1, <2>2 DEF Backed, taking
  <2>3. QED
    BY <2>1, <2>2 DEF Backed
<1>10. CertsBacked'
  BY <1>1, <1>9 DEF DomainInv, CertsBacked
<1>11. QED
  BY <1>4, <1>5, <1>7, <1>8, <1>10 DEF DomainInv, RouteInv

-----------------------------------------------------------------------------
(* The steps that change routes and certificates.                          *)

\* The rows and the requests' IDs and names stay.
LEMMA RowsStay ==
  ASSUME DomainInv, UNCHANGED rows,
         \A p \in Requests : (req'[p].name = req[p].name /\ req'[p].id = req[p].id) \/ req'[p] = noRequest,
         \A p \in Requests : req'[p].at = "route" => req[p].at = "route"
  PROVE  RowInv'
<1>1. ~live(0)
  BY DEF live, Rows
<1>2. Unique'
  BY DEF DomainInv, RowInv, Unique, live
<1>3. ASSUME NEW p \in Requests, live(req[p].id)'
      PROVE  /\ rows'[req'[p].id].name = req'[p].name
             /\ req'[p].at = "route" => rows'[req'[p].id].verified
  <2>1. CASE req'[p] = noRequest
    BY <1>1, <1>3, <2>1 DEF noRequest, live
  <2>2. CASE req'[p].name = req[p].name /\ req'[p].id = req[p].id
    BY <1>3, <2>2 DEF DomainInv, RowInv, Named, RoutedVerified, reqAt, live
  <2>3. QED
    BY <2>1, <2>2
<1>4. QED
  BY <1>2, <1>3 DEF RowInv, Named, RoutedVerified, reqAt

LEMMA AddRouteStep ==
  ASSUME DomainInv, NEW q \in Requests, AddRoute(q)
  PROVE  DomainInv'
<1> DEFINE id == req[q].id
           x0 == req[q].name
<1>1. RequestShape
  BY DEF DomainInv, Shapes
<1>2. FetchShape /\ RowShape /\ RouteShape
  BY DEF DomainInv, Shapes
<1>3. /\ req[q].at = "route" /\ UNCHANGED <<rows, certs, fetch, kept>>
      /\ routes' = [routes EXCEPT ![x0] = id]
      /\ strayed' = IF live(id) THEN strayed \ {x0} ELSE strayed \cup {x0}
      /\ cut' = IF live(id) THEN cut \ {x0} ELSE IF rowOf(x0) # {} THEN cut \cup {x0} ELSE cut
  BY DEF AddRoute, reqAt, tableVars
<1>4. RequestShape' /\ MovedTo(q, "obtain")
  BY <1>1, GoMoves DEF AddRoute
<1>5. RouteShape' /\ \A x \in Names : routes'[x] = IF x = x0 THEN id ELSE routes[x]
  BY <1>2, <1>3 DEF RouteShape
<1>6. Shapes'
  BY <1>2, <1>3, <1>4, <1>5 DEF Shapes, FetchShape, RowShape
<1>7. \A p \in Requests :
        /\ req'[p].name = req[p].name /\ req'[p].id = req[p].id
        /\ (taking(p) <=> taking(p)') /\ (reqAt(p, "unroute") <=> req'[p].at = "unroute")
        /\ (req'[p].at = "route" => req[p].at = "route") /\ (req[p].at = "route" /\ p # q => req'[p].at = "route")
  BY <1>3, <1>4 DEF MovedTo, taking, reqAt
<1>8. RowInv'
  BY <1>3, <1>7, RowsStay
<1>9. \A x : (removing(x) <=> removing(x)') /\ (x # x0 /\ adding(x) => adding(x)')
  BY <1>7 DEF removing, adding, reqAt
<1>10. live(id) => rows[id].name = x0 /\ rows[id].verified
  BY <1>3 DEF DomainInv, RowInv, Named, RoutedVerified, reqAt
<1>11. RoutesRegistered'
  <2> SUFFICES ASSUME NEW x \in Names, routes'[x] # 0
               PROVE  \/ live(routes[x])' /\ rows[routes'[x]].name = x /\ rows[routes'[x]].verified
                      \/ removing(x)' \/ x \in strayed'
    BY <1>3 DEF RoutesRegistered
  <2>1. CASE x = x0
    <3>1. CASE live(id)
      BY <1>3, <1>5, <1>10, <2>1, <3>1 DEF live
    <3>2. CASE ~live(id)
      BY <1>3, <2>1, <3>2
    <3>3. QED
      BY <3>1, <3>2
  <2>2. CASE x # x0
    <3>1. routes'[x] = routes[x] /\ (x \in strayed => x \in strayed')
      BY <1>3, <1>5, <2>2
    <3>2. live(routes[x]) => live(routes[x])'
      BY <1>3, <3>1 DEF live
    <3>3. QED
      BY <1>9, <2>2, <3>1, <3>2 DEF DomainInv, RouteInv, RoutesRegistered
  <2>3. QED
    BY <2>1, <2>2
<1>12. VerifiedRouted'
  <2> SUFFICES ASSUME NEW x \in Names, NEW m \in Rows, live(m), rows[m].name = x, rows[m].verified
               PROVE  routes'[x] = m \/ adding(x)' \/ removing(x)' \/ x \in cut'
    BY <1>3 DEF VerifiedRouted, rowOf, live
  <2>1. CASE x = x0
    <3>1. CASE live(id)
      <4>1. m = id
        BY <1>10, <2>1, <3>1 DEF DomainInv, RowInv, Unique, live
      <4>2. QED
        BY <1>5, <2>1, <4>1
    <3>2. CASE ~live(id)
      <4>1. rowOf(x0) # {}
        BY <2>1 DEF rowOf
      <4>2. QED
        BY <1>3, <2>1, <3>2, <4>1
    <3>3. QED
      BY <3>1, <3>2
  <2>2. CASE x # x0
    <3>1. routes'[x] = routes[x] /\ (x \in cut => x \in cut')
      BY <1>3, <1>5, <2>2
    <3>2. QED
      BY <1>9, <2>2, <3>1 DEF DomainInv, RouteInv, VerifiedRouted, rowOf
  <2>3. QED
    BY <2>1, <2>2
<1>13. \A x : Backed(x) => Backed(x)'
  <2>1. \A x : rowOf(x) = rowOf(x)'
    BY <1>3 DEF rowOf, live
  <2>2. QED
    BY <1>3, <1>7, <2>1 DEF Backed
<1>14. CertsBacked'
  BY <1>3, <1>13 DEF DomainInv, CertsBacked
<1>15. QED
  BY <1>6, <1>8, <1>11, <1>12, <1>14 DEF DomainInv, RouteInv

LEMMA RemoveRouteStep ==
  ASSUME DomainInv, NEW q \in Requests, RemoveRoute(q)
  PROVE  DomainInv'
<1> DEFINE x0 == req[q].name
<1>1. RequestShape
  BY DEF DomainInv, Shapes
<1>2. FetchShape /\ RowShape /\ RouteShape
  BY DEF DomainInv, Shapes
<1>3. /\ req[q].at = "unroute" /\ UNCHANGED <<rows, certs, fetch, kept>>
      /\ routes' = [routes EXCEPT ![x0] = 0] /\ strayed' = strayed \ {x0}
      /\ cut' = IF rowOf(x0) # {} THEN cut \cup {x0} ELSE cut
  BY DEF RemoveRoute, reqAt, tableVars
<1>4. RequestShape' /\ MovedTo(q, "uncache")
  BY <1>1, GoMoves DEF RemoveRoute
<1>5. RouteShape' /\ \A x \in Names : routes'[x] = IF x = x0 THEN 0 ELSE routes[x]
  BY <1>2, <1>3 DEF RouteShape
<1>6. Shapes'
  BY <1>2, <1>3, <1>4, <1>5 DEF Shapes, FetchShape, RowShape
<1>7. \A p \in Requests :
        /\ req'[p].name = req[p].name /\ req'[p].id = req[p].id
        /\ (taking(p) <=> taking(p)') /\ (reqAt(p, "unroute") /\ p # q => req'[p].at = "unroute")
        /\ (req'[p].at = "route" <=> req[p].at = "route")
  BY <1>3, <1>4 DEF MovedTo, taking, reqAt
<1>8. RowInv'
  BY <1>3, <1>7, RowsStay
<1>9. \A x : x # x0 => (removing(x) => removing(x)') /\ (adding(x) => adding(x)')
  BY <1>7 DEF removing, adding, reqAt
<1>10. RoutesRegistered'
  <2> SUFFICES ASSUME NEW x \in Names, routes'[x] # 0
               PROVE  \/ live(routes[x])' /\ rows[routes'[x]].name = x /\ rows[routes'[x]].verified
                      \/ removing(x)' \/ x \in strayed'
    BY <1>3 DEF RoutesRegistered
  <2>1. x # x0 /\ routes'[x] = routes[x] /\ (x \in strayed => x \in strayed')
    BY <1>3, <1>5
  <2>2. live(routes[x]) => live(routes[x])'
    BY <1>3, <2>1 DEF live
  <2>3. QED
    BY <1>9, <2>1, <2>2 DEF DomainInv, RouteInv, RoutesRegistered
<1>11. VerifiedRouted'
  <2> SUFFICES ASSUME NEW x \in Names, NEW m \in Rows, live(m), rows[m].name = x, rows[m].verified
               PROVE  routes'[x] = m \/ adding(x)' \/ removing(x)' \/ x \in cut'
    BY <1>3 DEF VerifiedRouted, rowOf, live
  <2>1. CASE x = x0
    <3>1. rowOf(x0) # {}
      BY <2>1 DEF rowOf
    <3>2. QED
      BY <1>3, <2>1, <3>1
  <2>2. CASE x # x0
    <3>1. routes'[x] = routes[x] /\ (x \in cut => x \in cut')
      BY <1>3, <1>5, <2>2
    <3>2. QED
      BY <1>9, <2>2, <3>1 DEF DomainInv, RouteInv, VerifiedRouted, rowOf
  <2>3. QED
    BY <2>1, <2>2
<1>12. \A x : Backed(x) => Backed(x)'
  <2>1. \A x : rowOf(x) = rowOf(x)'
    BY <1>3 DEF rowOf, live
  <2>2. QED
    BY <1>3, <1>7, <2>1 DEF Backed
<1>13. CertsBacked'
  BY <1>3, <1>12 DEF DomainInv, CertsBacked
<1>14. QED
  BY <1>6, <1>8, <1>10, <1>11, <1>13 DEF DomainInv, RouteInv

\* Steps that leave the rows, the routes and who changes them.
LEMMA RoutesStay ==
  ASSUME DomainInv, UNCHANGED <<rows, routes, strayed, cut>>,
         \A p \in Requests : req'[p] = req[p] \/ (req[p].at = "uncert" /\ req'[p] = noRequest)
  PROVE  RowInv' /\ RouteInv'
<1>1. RowInv'
  <2>1. \A p \in Requests : req'[p].at = "route" => req[p].at = "route"
    BY DEF noRequest
  <2>2. QED
    BY <2>1, RowsStay
<1>2. \A x : (removing(x) <=> removing(x)') /\ (adding(x) <=> adding(x)')
  BY DEF removing, adding, reqAt, noRequest
<1>3. RoutesRegistered'
  BY <1>2 DEF DomainInv, RouteInv, RoutesRegistered, live
<1>4. VerifiedRouted'
  BY <1>2 DEF DomainInv, RouteInv, VerifiedRouted, rowOf, live
<1>5. QED
  BY <1>1, <1>3, <1>4 DEF RouteInv

LEMMA DeleteCertStep ==
  ASSUME DomainInv, NEW q \in Requests, DeleteCert(q)
  PROVE  DomainInv'
<1> DEFINE x0 == req[q].name
<1>1. RequestShape
  BY DEF DomainInv, Shapes
<1>2. /\ req[q].at = "uncert" /\ UNCHANGED <<rows, routes, fetch, strayed, cut>>
      /\ \/ certs' = certs \ {x0} /\ kept' = kept \ {x0}
         \/ certs' = certs /\ kept' = kept \cup {x0}
  BY DEF DeleteCert, reqAt
<1>3. RequestShape' /\ req'[q] = noRequest /\ \A p \in Requests \ {q} : req'[p] = req[p]
  BY <1>1, Answered DEF DeleteCert
<1>4. RowInv' /\ RouteInv'
  BY <1>2, <1>3, RoutesStay
<1>5. Shapes'
  BY <1>2, <1>3 DEF DomainInv, Shapes, FetchShape, RowShape, RouteShape
<1>6. \A x : Backed(x) /\ x # x0 => Backed(x)'
  <2>1. \A x : rowOf(x) = rowOf(x)'
    BY <1>2 DEF rowOf, live
  <2>2. QED
    BY <1>2, <1>3, <2>1 DEF Backed, taking
<1>7. CertsBacked'
  <2>1. x0 \in certs' => x0 \in kept'
    BY <1>2
  <2>2. QED
    BY <1>2, <1>6, <2>1 DEF DomainInv, CertsBacked, Backed
<1>8. QED
  BY <1>4, <1>5, <1>7 DEF DomainInv

LEMMA StoreStep ==
  ASSUME DomainInv, NEW f \in Fetchers, Store(f)
  PROVE  DomainInv'
<1>0. PICK x0 : x0 = fetch[f].name
  OBVIOUS
<1>1. /\ UNCHANGED <<rows, routes, strayed, cut, req>>
      /\ \/ certs' = certs \cup {x0} /\ kept' = IF rowOf(x0) = {} THEN kept \cup {x0} ELSE kept
         \/ UNCHANGED <<certs, kept>>
      /\ fetch' \in {[fetch EXCEPT ![f].at = "cache"], [fetch EXCEPT ![f] = noFetch]}
  BY <1>0 DEF Store
<1>2. RowInv' /\ RouteInv'
  BY <1>1, RoutesStay
<1>3. Shapes'
  BY <1>1 DEF DomainInv, Shapes, RequestShape, FetchShape, RowShape, RouteShape, noFetch
<1>4. \A x : rowOf(x) = rowOf(x)'
  BY <1>1 DEF rowOf, live
<1>5. \A x : Backed(x) => Backed(x)'
  BY <1>1, <1>4 DEF Backed, taking
<1>6. x0 \in certs' => Backed(x0)'
  <2>1. CASE UNCHANGED certs
    BY <1>5, <2>1 DEF DomainInv, CertsBacked
  <2>2. CASE certs' # certs /\ rowOf(x0) = {}
    <3>1. x0 \in kept'
      BY <1>1, <2>2
    <3>2. QED
      BY <3>1 DEF Backed
  <2>3. CASE rowOf(x0) # {}
    <3>1. rowOf(x0)' # {}
      BY <1>4, <2>3
    <3>2. QED
      BY <3>1 DEF Backed
  <2>4. QED
    BY <2>1, <2>2, <2>3
<1>7. CertsBacked'
  <2> SUFFICES ASSUME NEW x \in certs' PROVE Backed(x)'
    BY DEF CertsBacked
  <2>1. x \in certs \/ x = x0
    BY <1>1
  <2>2. QED
    BY <1>5, <1>6, <2>1 DEF DomainInv, CertsBacked
<1>8. QED
  BY <1>2, <1>3, <1>7 DEF DomainInv

LEMMA RestartStep ==
  ASSUME DomainInv, Restart
  PROVE  DomainInv'
<1>1. /\ routes' = loaded /\ req' = [q \in Requests |-> noRequest] /\ fetch' = [f \in Fetchers |-> noFetch]
      /\ UNCHANGED <<rows, certs>>
      /\ kept' = kept \cup {req[q].name : q \in {p \in Requests : req[p].at \in {"unroute", "uncache", "uncert"}}}
  BY DEF Restart, tableVars
<1>2. Shapes'
  <2>1. RequestShape' /\ FetchShape'
    BY <1>1 DEF RequestShape, FetchShape, noRequest, noFetch
  <2>2. RowShape' /\ RouteShape'
    BY <1>1 DEF DomainInv, Shapes, RowShape, RouteShape, loaded
  <2>3. QED
    BY <2>1, <2>2 DEF Shapes
<1>3. RowInv'
  <2>1. \A p \in Requests : req'[p] = noRequest /\ req'[p].at # "route"
    BY <1>1 DEF noRequest
  <2>2. QED
    BY <1>1, <2>1, RowsStay
\* A name has one row at most: the one that is loaded.
<1>4. \A x \in Names : \A r \in rowOf(x) : routes'[x] = IF rows[r].verified THEN r ELSE 0
  <2> SUFFICES ASSUME NEW x \in Names, NEW r \in rowOf(x)
               PROVE  routes'[x] = IF rows[r].verified THEN r ELSE 0
    OBVIOUS
  <2>1. rowOf(x) = {r}
    BY DEF rowOf, DomainInv, RowInv, Unique
  <2>2. (CHOOSE m \in rowOf(x) : TRUE) = r
    BY <2>1
  <2>3. QED
    BY <1>1, <2>1, <2>2 DEF loaded
<1>5. \A x \in Names : rowOf(x) = {} => routes'[x] = 0
  BY <1>1 DEF loaded
<1>6. RoutesRegistered'
  <2> SUFFICES ASSUME NEW x \in Names, routes'[x] # 0
               PROVE  live(routes[x])' /\ rows[routes'[x]].name = x /\ rows[routes'[x]].verified
    BY <1>1 DEF RoutesRegistered
  <2>1. PICK r : r \in rowOf(x)
    BY <1>5
  <2>2. routes'[x] = r /\ rows[r].verified
    BY <1>4, <2>1
  <2>3. QED
    BY <1>1, <2>1, <2>2 DEF rowOf, live
<1>7. VerifiedRouted'
  BY <1>1, <1>4 DEF VerifiedRouted, rowOf, live
<1>8. CertsBacked'
  <2>1. \A x : Backed(x) => Backed(x)'
    <3>1. \A x : rowOf(x) = rowOf(x)'
      BY <1>1 DEF rowOf, live
    <3>2. QED
      BY <1>1, <3>1 DEF Backed, taking
  <2>2. QED
    BY <1>1, <2>1 DEF DomainInv, CertsBacked
<1>9. QED
  BY <1>2, <1>3, <1>6, <1>7, <1>8 DEF DomainInv, RouteInv

-----------------------------------------------------------------------------
LEMMA DomainInvInit == DomainsInit => DomainInv
<1> SUFFICES ASSUME DomainsInit PROVE DomainInv
  OBVIOUS
<1>1. Shapes
  BY DEF DomainsInit, Shapes, RequestShape, FetchShape, RowShape, RouteShape, noRequest, noFetch
<1>2. \A r : ~live(r)
  BY DEF DomainsInit, live
<1>3. RowInv
  BY <1>2 DEF RowInv, Named, RoutedVerified, Unique
<1>4. RouteInv
  BY <1>2 DEF DomainsInit, RouteInv, RoutesRegistered, VerifiedRouted, rowOf
<1>5. CertsBacked
  BY DEF DomainsInit, CertsBacked
<1>6. QED
  BY <1>1, <1>3, <1>4, <1>5 DEF DomainInv

LEMMA DomainStep ==
  ASSUME Absent, DomainInv, [DomainsNext]_domainsVars
  PROVE  DomainInv'
<1>1. ASSUME NEW q \in Requests, RequestStep(q) PROVE DomainInv'
  BY <1>1, RequestMinor, OtherMinor, CreateStep, SetVerifiedStep, AddRouteStep, DeleteRowStep, RemoveRouteStep,
     DeleteCertStep, Zenon DEF RequestStep
<1>2. ASSUME NEW f \in Fetchers, FetchStep(f) PROVE DomainInv'
  BY <1>2, OtherMinor, StoreStep, Zenon DEF FetchStep
<1>3. QED
  BY <1>1, <1>2, OtherMinor, DeleteUserStep, RestartStep, Zenon DEF DomainsNext

\* The routes, their targets and the certificates are those of the verified
\* domains in the database, but for the ways the history variables name, however
\* many requests, certificate goroutines, deletions and restarts meet
\* (handleVerifyCustomDomain, handleDeleteCustomDomain, InitCustomDomains).
THEOREM DomainsAreServed ==
  ASSUME Absent
  PROVE  DomainsSpec => []DomainsServed
<1>1. DomainsSpec => []DomainInv
  BY DomainInvInit, DomainStep, PTL DEF DomainsSpec
<1>2. DomainInv => DomainsServed
  BY DEF DomainInv, RouteInv, CertsBacked, Backed, taking, DomainsServed, CertsRegistered
<1>3. QED
  BY <1>1, <1>2, PTL
=============================================================================
