---------------------------- MODULE BillingProofs ----------------------------
(***************************************************************************)
(* Proofs about Billing, for any number of users, admins, plans, webhook    *)
(* requests, subscriptions and payments, and any length of a period.        *)
(***************************************************************************)
EXTENDS Billing, FiniteSetTheorems, TLAPS

Requests == Users \cup Admins

-----------------------------------------------------------------------------
(* Shapes: what is a record stays one, with the same fields. (That the next   *)
(* invoice ID exists at all is a fact about maxima, and not needed.)          *)

Rows == [user : Users \cup {None}, plan : Plans \cup {Free, None}, next : Plans \cup {Free, None},
         status : {"unused", "pending", "active", "cancelled", "expired", "deleted"},
         recurring : BOOLEAN, method : BOOLEAN, end : Nat]

isPayment(x) ==
  /\ DOMAIN x = {"status", "invoice", "sub", "for", "created"}
  /\ x.for \in 0 .. MaxSub /\ x.sub \in 0 .. MaxSub

isYoo(x) == DOMAIN x = {"status", "invoice", "save"}

isProcess(x) ==
  /\ DOMAIN x = {"at", "sub", "row", "plan", "pay", "invoice", "paid"}
  /\ x.row \in Rows
  /\ x.sub \in 0 .. MaxSub /\ x.pay \in 0 .. MaxPay /\ x.plan \in Plans \cup {Free, None}

TablesShaped ==
  /\ DOMAIN subs = SubIds /\ \A s \in SubIds : subs[s] \in Rows
  /\ DOMAIN payments = PayIds /\ \A p \in PayIds : isPayment(payments[p])
  /\ DOMAIN yoo = PayIds /\ \A p \in PayIds : isYoo(yoo[p])
  /\ userPlan \in [Users -> Plans \cup {Free, None}]

ProcessesShaped ==
  /\ now \in Nat
  /\ DOMAIN request = Requests /\ \A r \in Requests : isProcess(request[r])
  /\ DOMAIN hook = Hooks /\ \A h \in Hooks : isProcess(hook[h])
  /\ isProcess(sched)
  /\ \A e \in list : e.sub \in SubIds /\ e.row \in Rows

Shaped == TablesShaped /\ ProcessesShaped

-----------------------------------------------------------------------------
(* Who holds what. A row that is used stays used, and so does what it refers  *)
(* to: copies may be stale, but not in this.                                 *)

usedSub(s) == s \in SubIds /\ subs[s].status # "unused"
usedPay(p) == p \in PayIds /\ payments[p].status # "unused"

\* A row that may be written to subscription s.
fits(s, row) ==
  /\ row \in Rows /\ row.user = subs[s].user
  /\ row.status = "active" \/ row.next # None => backed(s)

\* A process that works on s, or on payment p of s.
holds(s, row) == usedSub(s) /\ fits(s, row) /\ row.status # "unused"
bills(p, s) == usedPay(p) /\ payments[p].for = s

TablesFit ==
  /\ \A s \in SubIds : fits(s, subs[s])
  /\ \A s \in SubIds : subs[s].status = "unused" => subs[s].user = None
  /\ \A p \in PayIds : payments[p].status = "unused" =>
       payments[p].for = 0 /\ payments[p].sub = 0 /\ yoo[p].status = "none"
  /\ \A p \in PayIds : /\ payments[p].sub \in {0, payments[p].for}
                       /\ payments[p].for # 0 => usedSub(payments[p].for)
  /\ \A u \in Users : userPlan[u] # Free => entitled(u)

checkout == {"billing", "calling", "saving"}

RequestFits(q) ==
  /\ q.at = "subscribing" => q.row.status = "pending" /\ q.row.next = None /\ q.row.end = 0
  /\ q.at \in checkout => usedSub(q.sub)
  /\ q.at \in {"calling", "saving"} => bills(q.pay, q.sub)
  /\ q.at = "calling" => yoo[q.pay].status = "none"
  /\ q.at = "saving" => yoo[q.pay].status = "created"
  /\ q.at \in {"writing", "planning"} =>
       holds(q.sub, q.row) /\ (q.plan \notin {None, Free} => backed(q.sub))
  /\ q.at = "planning" => q.plan # None
  /\ q.at = "updating" => q.row.user \in Users /\ (q.plan = Free \/ entitled(q.row.user))

HookFits(k) ==
  /\ k.at \in {"marking", "failing"} => usedPay(k.pay) /\ k.sub \in {0, payments[k.pay].for}
  /\ k.at = "marking" => k.sub = 0 \/ backed(k.sub)
  /\ k.at = "reading" => k.sub # 0 /\ backed(k.sub)
  /\ k.at \in {"activating", "upgrading"} => holds(k.sub, k.row) /\ backed(k.sub)

\* While the scheduler renews, and while a payment of it is under way.
underway == {"calling", "refused", "charged", "marking"}
renewal == {"billing", "calling", "refused", "charged", "marking", "extending"}

SchedFits ==
  /\ \A e \in list : /\ holds(e.sub, e.row)
                     /\ sched.at = "renewing" => e.row.status = "active"
                     /\ sched.at \in {"changing", "planning"} => e.row.next # None
  /\ sched.at \in renewal =>
       holds(sched.sub, sched.row) /\ backed(sched.sub) /\ \A e \in list : e.row.status = "active"
  /\ sched.at \in underway => bills(sched.pay, sched.sub)
  /\ sched.at = "calling" => yoo[sched.pay].status = "none"
  /\ sched.at = "planning" => \E s \in SubIds : usedSub(s) /\ subs[s].user = sched.row.user /\ backed(s)

Fits ==
  /\ TablesFit
  /\ \A r \in Requests : RequestFits(request[r])
  /\ \A h \in Hooks : HookFits(hook[h])
  /\ SchedFits

-----------------------------------------------------------------------------
(* The subscription of a checkout is new: nobody else bills it.               *)

\* Not to be renewed today.
notDue(end) == end = 0 \/ end > now

\* Nobody but the checkout of s makes a payment for s.
New(s) ==
  /\ notDue(subs[s].end)
  /\ \A r \in Requests : request[r].at = "writing" /\ request[r].sub = s => notDue(request[r].row.end)
  /\ \A e \in list : e.sub # s
  /\ sched.at \in renewal => sched.sub # s

\* There is no payment for it but that of the checkout.
OnlyOwn(r) == \A p \in PayIds : payments[p].for = request[r].sub =>
                                  request[r].at # "billing" /\ p = request[r].pay

FreshInv ==
  /\ \A r \in Requests : request[r].at \in checkout =>
       /\ New(request[r].sub) /\ OnlyOwn(r)
       /\ \A q \in Requests : request[q].at \in checkout /\ request[q].sub = request[r].sub => q = r
  /\ \A h \in Hooks : hook[h].at = "activating" => notDue(hook[h].row.end)
  /\ sched.at = "billing" => pending(sched.sub) = {}
  /\ sched.at \in underway => pending(sched.sub) \subseteq {sched.pay}
  /\ \A s \in SubIds : \A p, q \in pending(s) : p = q

-----------------------------------------------------------------------------
(* The steps there are, and which of them change a table.                     *)

Checkouts(u) ==
  \/ \E plan \in Plans, recurring \in BOOLEAN : Checkout(u, plan, recurring)
  \/ CreateSubscription(u) \/ CreatePayment(u) \/ CallYooKassa(u) \/ SavePayment(u)
Changes(r) ==
  \/ \E s \in SubIds : \/ r \in Users /\ Cancel(r, s)
                       \/ r \in Users /\ \E plan \in Plans \cup {Free} : ChangePlan(r, s, plan)
                       \/ r \in Admins /\ (AdminCancel(r, s) \/ AdminExtend(r, s))
  \/ \E u \in Users : UpdateUser(r, u) \/ \E plan \in Plans \cup {Free} : UpdatePlan(r, u, plan)
  \/ WriteSubscription(r) \/ SetUserPlan(r)
Notified(h) ==
  \/ \E p, q \in PayIds : NotifySucceeded(h, p, q) \/ NotifyCanceled(h, p, q)
  \/ MarkSuccess(h) \/ ReadSubscription(h) \/ Activate(h) \/ Upgrade(h) \/ MarkFailed(h)
Checks ==
  \/ \E e \in list : Expire(e) \/ Renew(e) \/ ApplyChange(e)
  \/ RunChecks \/ Downgrade \/ BeginRenewals
  \/ BillRenewal \/ CallAutopayment \/ FailRenewal \/ SaveRenewal \/ MarkRenewal \/ ExtendPeriod
  \/ BeginChanges \/ ChangeUserPlan \/ BeginCleanup \/ DeleteSubs \/ DeletePayments

LEMMA Steps ==
  ASSUME [Next]_vars
  PROVE  \/ Tick \/ UNCHANGED vars
         \/ \E p \in PayIds : Settle(p)
         \/ \E u \in Users : Checkouts(u)
         \/ \E r \in Requests : Changes(r)
         \/ \E h \in Hooks : Notified(h)
         \/ Checks
  BY Zenon DEF Next, UserRequest, CheckoutStep, AdminRequest, RequestStep, Notify, HookStep, SchedStep,
               Checkouts, Changes, Notified, Checks, Requests

-----------------------------------------------------------------------------
(* Writing to a table.                                                       *)

LEMMA WroteSub ==
  ASSUME TablesShaped, NEW s \in 0 .. MaxSub, NEW row \in Rows, WriteSub(s, row)
  PROVE  /\ DOMAIN subs' = SubIds
         /\ \A t \in SubIds : subs'[t] = subs[t] \/ (t = s /\ subExists(t) /\ subs'[t] = row)
  BY DEF TablesShaped, WriteSub

LEMMA WrotePay ==
  ASSUME TablesShaped, NEW p, NEW s \in 0 .. MaxSub, NEW status, WritePay(p, s, status)
  PROVE  /\ DOMAIN payments' = PayIds
         /\ \A q \in PayIds : /\ isPayment(payments'[q])
                              /\ payments'[q].for = payments[q].for
                              /\ payments'[q].invoice = payments[q].invoice
                              /\ payments'[q].created = payments[q].created
                              /\ \/ payments'[q] = payments[q]
                                 \/ /\ q = p /\ payExists(q)
                                    /\ payments'[q].sub = s /\ payments'[q].status = status
  BY DEF TablesShaped, WritePay, isPayment

LEMMA NextIsUnused ==
  ASSUME NEW table, room(table)
  PROVE  nextId(table) \in DOMAIN table /\ table[nextId(table)].status = "unused"
  BY DEF room, nextId, isNext

LEMMA Paid ==
  ASSUME TablesShaped, NEW s \in 0 .. MaxSub, NEW i, canPay(s, i), Pay(s, i)
  PROVE  /\ DOMAIN payments' = PayIds /\ nextId(payments) \in PayIds /\ subExists(s)
         /\ payments[nextId(payments)].status = "unused"
         /\ \A q \in PayIds : /\ isPayment(payments'[q])
                              /\ \/ q # nextId(payments) /\ payments'[q] = payments[q]
                                 \/ /\ q = nextId(payments) /\ payments'[q].status = "pending"
                                    /\ payments'[q].sub = s /\ payments'[q].for = s
                                    /\ payments'[q].invoice = i
<1>1. nextId(payments) \in PayIds /\ payments[nextId(payments)].status = "unused" /\ subExists(s)
  BY NextIsUnused DEF TablesShaped, canPay
<1> QED
  BY <1>1 DEF TablesShaped, Pay, isPayment

-----------------------------------------------------------------------------
(* What a step does to a process: no other of its kind moves.                *)

LEMMA Doing ==
  ASSUME Shaped, NEW r \in Requests, NEW x, isProcess(x), Does(r, x)
  PROVE  /\ DOMAIN request' = Requests /\ \A q \in Requests : isProcess(request'[q])
         /\ request'[r] = x /\ \A q \in Requests \ {r} : request'[q] = request[q]
  BY DEF Shaped, ProcessesShaped, Does

LEMMA Serving ==
  ASSUME Shaped, NEW h \in Hooks, NEW x, isProcess(x), Serves(h, x)
  PROVE  /\ DOMAIN hook' = Hooks /\ \A g \in Hooks : isProcess(hook'[g])
         /\ hook'[h] = x /\ \A g \in Hooks \ {h} : hook'[g] = hook[g]
  BY DEF Shaped, ProcessesShaped, Serves

LEMMA Idles == isProcess(Idle)
  BY BillingAssumption DEF isProcess, Idle, Rows, NoSub

\* A row written into a copy.
LEMMA Copies ==
  ASSUME TablesShaped, NEW s \in SubIds
  PROVE  /\ subs[s] \in Rows /\ s \in 0 .. MaxSub
         /\ subs[s].plan \in Plans \cup {Free, None}
  BY BillingAssumption DEF TablesShaped, Rows, SubIds

\* The steps that move a request, or serve one of YooKassa.
LEMMA RequestSteps ==
  ASSUME [Next]_vars
  PROVE  request' = request \/ (\E u \in Users : Checkouts(u)) \/ (\E r \in Requests : Changes(r))
<1>1. ASSUME \/ Tick \/ UNCHANGED vars \/ Checks
             \/ \E p \in PayIds : Settle(p)
             \/ \E h \in Hooks : Notified(h)
      PROVE  request' = request
  BY <1>1 DEF Tick, vars, Settle, Notified, NotifySucceeded, NotifyCanceled, MarkSuccess, ReadSubscription,
       Activate,
              Upgrade, MarkFailed, Checks, Expire, Renew, ApplyChange, RunChecks, Downgrade, BeginRenewals,
              BillRenewal, CallAutopayment, FailRenewal, SaveRenewal, MarkRenewal, ExtendPeriod, BeginChanges,
              ChangeUserPlan, BeginCleanup, DeleteSubs, DeletePayments
<1> QED
  BY Steps, <1>1, Zenon

LEMMA HookSteps ==
  ASSUME [Next]_vars
  PROVE  hook' = hook \/ \E h \in Hooks : Notified(h)
<1>1. ASSUME \/ Tick \/ UNCHANGED vars \/ Checks
             \/ \E p \in PayIds : Settle(p)
             \/ \E u \in Users : Checkouts(u)
             \/ \E r \in Requests : Changes(r)
      PROVE  hook' = hook
  BY <1>1 DEF Tick, vars, Settle, Checkouts, Checkout, CreateSubscription, CreatePayment, CallYooKassa, SavePayment,
              Changes, Cancel, ChangePlan, AdminCancel, AdminExtend, UpdateUser, UpdatePlan, WriteSubscription,
              SetUserPlan,
              Checks, Expire, Renew, ApplyChange, RunChecks, Downgrade, BeginRenewals,
              BillRenewal, CallAutopayment, FailRenewal, SaveRenewal, MarkRenewal, ExtendPeriod, BeginChanges,
              ChangeUserPlan, BeginCleanup, DeleteSubs, DeletePayments
<1> QED
  BY Steps, <1>1, Zenon

LEMMA SchedSteps ==
  ASSUME [Next]_vars
  PROVE  UNCHANGED <<sched, list>> \/ Checks
<1>1. ASSUME \/ Tick \/ UNCHANGED vars
             \/ \E p \in PayIds : Settle(p)
             \/ \E u \in Users : Checkouts(u)
             \/ \E r \in Requests : Changes(r)
             \/ \E h \in Hooks : Notified(h)
      PROVE  UNCHANGED <<sched, list>>
  BY <1>1 DEF Tick, vars, Settle, Checkouts, Checkout, CreateSubscription, CreatePayment, CallYooKassa, SavePayment,
              Changes, Cancel, ChangePlan, AdminCancel, AdminExtend, UpdateUser, UpdatePlan, WriteSubscription,
              SetUserPlan,
              Notified, NotifySucceeded, NotifyCanceled, MarkSuccess, ReadSubscription, Activate, Upgrade,
              MarkFailed
<1> QED
  BY Steps, <1>1, Zenon

LEMMA RequestsShaped ==
  ASSUME Shaped, [Next]_vars
  PROVE  DOMAIN request' = Requests /\ \A r \in Requests : isProcess(request'[r])
<1> DEFINE OK == DOMAIN request' = Requests /\ \A r \in Requests : isProcess(request'[r])
<1>1. request' = request => OK
  BY DEF Shaped, ProcessesShaped
<1>2. ASSUME NEW r \in Requests, NEW x, isProcess(x), Does(r, x)
      PROVE  OK
  BY <1>2, Doing
<1>3. ASSUME NEW r \in Requests
      PROVE  isProcess(request[r])
  BY <1>3 DEF Shaped, ProcessesShaped
<1> HIDE DEF OK
<1>5. ASSUME NEW u \in Users, Checkouts(u)
      PROVE  OK
  <2>0. u \in Requests /\ isProcess(request[u])
    BY <1>3 DEF Requests
  <2>1. ASSUME NEW plan \in Plans, NEW recurring \in BOOLEAN, Checkout(u, plan, recurring)
        PROVE  OK
    <3> DEFINE row == [NoSub EXCEPT !.user = u, !.plan = plan, !.status = "pending", !.recurring = recurring]
               x == [Idle EXCEPT !.at = "subscribing", !.invoice = nextInvoice, !.row = row]
    <3>1. row \in Rows
      BY DEF NoSub, Rows
    <3>2. Does(u, x)
      BY <2>1 DEF Checkout
    <3> HIDE DEF row
    <3>3. isProcess(x)
      BY <3>1, Idles DEF isProcess
    <3> QED
      BY <1>2, <2>0, <3>2, <3>3
  <2>2. CASE CreateSubscription(u)
    <3>1. CASE room(subs)
      <4>1. nextId(subs) \in 0 .. MaxSub
        BY <3>1, NextIsUnused, BillingAssumption DEF Shaped, TablesShaped, SubIds
      <4> DEFINE x == [request[u] EXCEPT !.at = "billing", !.sub = nextId(subs)]
      <4>2. isProcess(x)
        BY <2>0, <4>1 DEF isProcess
      <4> QED
        BY <1>2, <2>0, <2>2, <3>1, <4>2 DEF CreateSubscription
    <3>2. CASE ~room(subs)
      BY <1>2, <2>0, <2>2, <3>2, Idles DEF CreateSubscription
    <3> QED
      BY <3>1, <3>2
  <2>3. CASE CreatePayment(u)
    <3> DEFINE r == request[u]
               x == [r EXCEPT !.at = "calling", !.pay = nextId(payments)]
    <3>1. CASE canPay(r.sub, r.invoice)
      <4>1. nextId(payments) \in 0 .. MaxPay
        BY <3>1, NextIsUnused, BillingAssumption DEF Shaped, TablesShaped, PayIds, canPay
      <4>2. isProcess(x)
        BY <2>0, <4>1 DEF isProcess
      <4> QED
        BY <1>2, <2>0, <2>3, <3>1, <4>2 DEF CreatePayment
    <3>2. CASE ~canPay(r.sub, r.invoice)
      BY <1>2, <2>0, <2>3, <3>2, Idles DEF CreatePayment
    <3> QED
      BY <3>1, <3>2
  <2>4. CASE CallYooKassa(u)
    <3> DEFINE x == [request[u] EXCEPT !.at = "saving"]
    <3>1. isProcess(x)
      BY <2>0 DEF isProcess
    <3> QED
      BY <1>2, <2>0, <2>4, <3>1, Idles DEF CallYooKassa
  <2>5. CASE SavePayment(u)
    BY <1>2, <2>0, <2>5, Idles DEF SavePayment
  <2> QED
    BY <1>5, <2>1, <2>2, <2>3, <2>4, <2>5 DEF Checkouts
<1>6. ASSUME NEW r \in Requests, Changes(r)
      PROVE  OK
  <2>0. isProcess(request[r])
    BY <1>3
  \* A copy of s, changed.
  <2>1. ASSUME NEW s \in SubIds, NEW row \in Rows, NEW plan \in Plans \cup {Free, None},
               Does(r, [Idle EXCEPT !.at = "writing", !.sub = s, !.plan = plan, !.row = row])
        PROVE  OK
    <3> DEFINE x == [Idle EXCEPT !.at = "writing", !.sub = s, !.plan = plan, !.row = row]
    <3>1. isProcess(x)
      BY Idles, BillingAssumption DEF isProcess, SubIds
    <3> HIDE DEF x
    <3> QED
      BY <1>2, <2>1, <3>1 DEF x
  <2>2. ASSUME NEW s \in SubIds, NEW row \in Rows, Does(r, [Idle EXCEPT !.at = "writing", !.sub = s, !.row = row])
        PROVE  OK
    <3> DEFINE x == [Idle EXCEPT !.at = "writing", !.sub = s, !.row = row]
    <3>1. isProcess(x)
      BY Idles, BillingAssumption DEF isProcess, SubIds
    <3> HIDE DEF x
    <3> QED
      BY <1>2, <2>2, <3>1 DEF x
  <2>3. ASSUME NEW s \in SubIds, Cancel(r, s)
        PROVE  OK
    <3> DEFINE row == [subs[s] EXCEPT !.status = "cancelled", !.recurring = FALSE, !.method = FALSE]
    <3>1. row \in Rows
      BY Copies DEF Shaped, Rows
    <3>2. Does(r, [Idle EXCEPT !.at = "writing", !.sub = s, !.row = row])
      BY <2>3 DEF Cancel
    <3> HIDE DEF row
    <3> QED
      BY <2>2, <3>1, <3>2
  <2>4. ASSUME NEW s \in SubIds, NEW plan \in Plans \cup {Free}, ChangePlan(r, s, plan)
        PROVE  OK
    <3> DEFINE row == [subs[s] EXCEPT !.next = IF plan = subs[s].plan THEN None ELSE plan]
    <3>1. row \in Rows
      BY Copies DEF Shaped, Rows
    <3>2. Does(r, [Idle EXCEPT !.at = "writing", !.sub = s, !.row = row])
      BY <2>4 DEF ChangePlan
    <3> HIDE DEF row
    <3> QED
      BY <2>2, <3>1, <3>2
  <2>5. ASSUME NEW s \in SubIds, AdminCancel(r, s)
        PROVE  OK
    <3> DEFINE row == [subs[s] EXCEPT !.status = "cancelled", !.recurring = FALSE]
    <3>1. row \in Rows
      BY Copies DEF Shaped, Rows
    <3>2. Does(r, [Idle EXCEPT !.at = "writing", !.sub = s, !.plan = Free, !.row = row])
      BY <2>5 DEF AdminCancel
    <3> HIDE DEF row
    <3> QED
      BY <2>1, <3>1, <3>2
  <2>6. ASSUME NEW s \in SubIds, AdminExtend(r, s)
        PROVE  OK
    <3> DEFINE row == [subs[s] EXCEPT !.end = IF @ = 0 \/ over(s) THEN now + 1 ELSE @ + 1,
                                      !.status = IF @ \in {"expired", "cancelled"} THEN "active" ELSE @]
    <3>1. row \in Rows
      <4>1. subs[s] \in Rows /\ now + 1 \in Nat /\ subs[s].end + 1 \in Nat
        BY Copies DEF Shaped, ProcessesShaped, Rows
      <4> QED
        BY <4>1 DEF Rows
    <3>2. Does(r, [Idle EXCEPT !.at = "writing", !.sub = s, !.plan = subs[s].plan, !.row = row])
      BY <2>6 DEF AdminExtend
    <3>3. subs[s].plan \in Plans \cup {Free, None}
      BY Copies DEF Shaped
    <3> HIDE DEF row
    <3> QED
      BY <2>1, <3>1, <3>2, <3>3
  <2>9. ASSUME NEW u \in Users, NEW plan \in Plans \cup {Free, None},
               Does(r, [Idle EXCEPT !.at = "updating", !.row.user = u, !.plan = plan])
        PROVE  OK
    <3> DEFINE row == [NoSub EXCEPT !.user = u]
    <3>1. row \in Rows
      BY DEF NoSub, Rows
    <3>2. Does(r, [Idle EXCEPT !.at = "updating", !.plan = plan, !.row = row])
      BY <2>9 DEF Idle
    <3> HIDE DEF row
    <3>3. isProcess([Idle EXCEPT !.at = "updating", !.plan = plan, !.row = row])
      BY <3>1, Idles DEF isProcess
    <3> QED
      BY <1>2, <3>2, <3>3
  <2>10. ASSUME NEW u \in Users, UpdateUser(r, u) \/ \E plan \in Plans \cup {Free} : UpdatePlan(r, u, plan)
         PROVE  OK
    BY <2>9, <2>10 DEF UpdateUser, UpdatePlan, Shaped, TablesShaped
  <2>7. CASE WriteSubscription(r)
    <3>1. isProcess([request[r] EXCEPT !.at = "planning"])
      BY <2>0 DEF isProcess
    <3> QED
      BY <1>2, <2>7, <3>1, Idles DEF WriteSubscription
  <2>8. CASE SetUserPlan(r)
    BY <1>2, <2>8, Idles DEF SetUserPlan
  <2> QED
    BY <1>6, <2>3, <2>4, <2>5, <2>6, <2>7, <2>8, <2>10 DEF Changes
<1> QED
  BY RequestSteps, <1>1, <1>5, <1>6 DEF OK

LEMMA HooksShaped ==
  ASSUME Shaped, [Next]_vars
  PROVE  DOMAIN hook' = Hooks /\ \A h \in Hooks : isProcess(hook'[h])
<1> DEFINE OK == DOMAIN hook' = Hooks /\ \A h \in Hooks : isProcess(hook'[h])
<1>1. hook' = hook => OK
  BY DEF Shaped, ProcessesShaped
<1>2. ASSUME NEW h \in Hooks, NEW x, isProcess(x), Serves(h, x)
      PROVE  OK
  BY <1>2, Serving
<1>3. ASSUME NEW h \in Hooks
      PROVE  isProcess(hook[h])
  BY <1>3 DEF Shaped, ProcessesShaped
<1> HIDE DEF OK
<1>4. ASSUME NEW h \in Hooks, Notified(h)
      PROVE  OK
  <2>1. ASSUME NEW p \in PayIds, NEW q \in PayIds, NotifySucceeded(h, p, q)
        PROVE  OK
    <3> DEFINE x == [Idle EXCEPT !.at = "marking", !.pay = q, !.sub = payments[q].sub,
                                 !.row.method = (yoo[p].status = "saved")]
    <3>1. isProcess(x)
      <4>1. x.row = [NoSub EXCEPT !.method = (yoo[p].status = "saved")]
        BY DEF Idle
      <4>2. \A b \in BOOLEAN : [NoSub EXCEPT !.method = b] \in Rows
        BY DEF NoSub, Rows
      <4>3. q \in 0 .. MaxPay /\ payments[q].sub \in 0 .. MaxSub
        BY BillingAssumption DEF Shaped, TablesShaped, isPayment, PayIds
      <4>4. x.row \in Rows
        BY <4>1, <4>2
      <4> QED
        BY <4>3, <4>4 DEF isProcess, Idle
    <3> QED
      BY <1>2, <2>1, <3>1 DEF NotifySucceeded
  <2>2. ASSUME NEW p \in PayIds, NEW q \in PayIds, NotifyCanceled(h, p, q)
        PROVE  OK
    <3> DEFINE x == [Idle EXCEPT !.at = "failing", !.pay = q, !.sub = payments[q].sub]
    <3>1. isProcess(x)
      BY BillingAssumption DEF isProcess, Idle, NoSub, Rows, Shaped, TablesShaped, isPayment, PayIds
    <3> QED
      BY <1>2, <2>2, <3>1 DEF NotifyCanceled
  <2>3. CASE MarkSuccess(h)
    <3>1. isProcess([hook[h] EXCEPT !.at = "reading"])
      BY <1>3 DEF isProcess
    <3> QED
      BY <1>2, <2>3, <3>1, Idles DEF MarkSuccess
  <2>4. CASE ReadSubscription(h)
    <3> DEFINE k == hook[h]
               row == [subs[k.sub] EXCEPT !.status = "active", !.end = now + Month, !.method = @ \/ k.row.method]
               x == [k EXCEPT !.at = "activating", !.row = row, !.plan = row.plan]
    <3>1. isProcess(k)
      BY <1>3
    <3>2. CASE subExists(k.sub)
      <4>1. k.sub \in SubIds /\ now + Month \in Nat
        BY <3>1, <3>2, BillingAssumption DEF subExists, SubIds, isProcess, Shaped, ProcessesShaped
      <4>2. row \in Rows /\ row.plan \in Plans \cup {Free, None}
        <5>1. subs[k.sub] \in Rows /\ k.row.method \in BOOLEAN
          BY <3>1, <4>1, Copies DEF isProcess, Rows, Shaped
        <5> QED
          BY <4>1, <5>1 DEF Rows
      <4>3. Serves(h, x)
        BY <2>4, <3>2 DEF ReadSubscription
      <4> HIDE DEF row
      <4>4. isProcess(x)
        BY <3>1, <4>2 DEF isProcess
      <4> QED
        BY <1>2, <4>3, <4>4
    <3>3. CASE ~subExists(k.sub)
      BY <1>2, <2>4, <3>3, Idles DEF ReadSubscription
    <3> QED
      BY <3>2, <3>3
  <2>5. CASE Activate(h)
    <3>1. isProcess([hook[h] EXCEPT !.at = "upgrading"])
      BY <1>3 DEF isProcess
    <3> QED
      BY <1>2, <2>5, <3>1 DEF Activate
  <2>6. CASE Upgrade(h) \/ MarkFailed(h)
    BY <1>2, <2>6, Idles DEF Upgrade, MarkFailed
  <2> QED
    BY <1>4, <2>1, <2>2, <2>3, <2>4, <2>5, <2>6 DEF Notified
<1> QED
  BY HookSteps, <1>1, <1>4 DEF OK

LEMMA SchedShaped ==
  ASSUME Shaped, [Next]_vars
  PROVE  isProcess(sched') /\ (\A e \in list' : e.sub \in SubIds /\ e.row \in Rows)
<1> DEFINE OK == isProcess(sched') /\ (\A e \in list' : e.sub \in SubIds /\ e.row \in Rows)
<1>1. UNCHANGED <<sched, list>> => OK
  BY DEF Shaped, ProcessesShaped
<1>2. ASSUME isProcess(sched'), list' \subseteq list
      PROVE  OK
  BY <1>2 DEF Shaped, ProcessesShaped
<1>3. ASSUME NEW at PROVE isProcess([Idle EXCEPT !.at = at])
  BY Idles DEF isProcess
<1>4. ASSUME NEW at, NEW S \in SUBSET SubIds, Begin(at, S)
      PROVE  OK
  <2>1. \A e \in rows(S) : e.sub \in SubIds /\ e.row \in Rows
    BY Copies DEF rows, Shaped
  <2> QED
    BY <1>3, <1>4, <2>1 DEF Begin
<1>5. ASSUME NEW at, Resume(at)
      PROVE  OK
  BY <1>2, <1>3, <1>5 DEF Resume
<1>6. isProcess(sched)
  BY DEF Shaped, ProcessesShaped
<1> SUFFICES OK
  OBVIOUS
<1> HIDE DEF OK
<1>7. ASSUME NEW e \in list, Expire(e) \/ ApplyChange(e)
      PROVE  OK
  <2>1. isProcess([sched EXCEPT !.at = "downgrading", !.row = e.row])
        /\ isProcess([sched EXCEPT !.at = "planning", !.row = e.row])
    BY <1>6 DEF isProcess, Shaped, ProcessesShaped
  <2> QED
    BY <1>2, <1>7, <2>1 DEF Expire, ApplyChange
<1>8. ASSUME NEW e \in list, Renew(e)
      PROVE  OK
  <2>1. isProcess([sched EXCEPT !.at = "billing", !.sub = e.sub, !.row = e.row, !.invoice = nextInvoice])
    BY <1>6, BillingAssumption DEF isProcess, Shaped, ProcessesShaped, SubIds
  <2> QED
    BY <1>2, <1>6, <1>8, <2>1 DEF Renew
<1>9. CASE BillRenewal
  <2>1. CASE canPay(sched.sub, sched.invoice)
    <3>1. nextId(payments) \in 0 .. MaxPay
      BY <2>1, NextIsUnused, BillingAssumption DEF Shaped, TablesShaped, PayIds, canPay
    <3>2. isProcess([sched EXCEPT !.at = "calling", !.pay = nextId(payments)])
      BY <1>6, <3>1 DEF isProcess
    <3> QED
      BY <1>2, <1>9, <2>1, <3>2 DEF BillRenewal
  <2> QED
    BY <1>5, <1>9, <2>1 DEF BillRenewal
<1>10. CASE CallAutopayment
  <2>1. isProcess([sched EXCEPT !.at = "refused"])
    BY <1>6 DEF isProcess
  <2>2. ASSUME NEW at, NEW b
        PROVE  isProcess([sched EXCEPT !.at = at, !.paid = b])
    BY <1>6 DEF isProcess
  <2>3. \/ sched' = [sched EXCEPT !.at = "refused"]
        \/ \E at, b : sched' = [sched EXCEPT !.at = at, !.paid = b]
    BY <1>10, Zenon DEF CallAutopayment
  <2>4. list' = list
    BY <1>10 DEF CallAutopayment
  <2>5. ASSUME NEW at, NEW b, sched' = [sched EXCEPT !.at = at, !.paid = b]
        PROVE  isProcess(sched')
    BY <2>2, <2>5
  <2> QED
    BY <1>2, <2>1, <2>3, <2>4, <2>5
<1>11. CASE SaveRenewal \/ MarkRenewal
  <2>1. isProcess([sched EXCEPT !.at = "marking"]) /\ isProcess([sched EXCEPT !.at = "extending"])
    BY <1>6 DEF isProcess
  <2> QED
    BY <1>2, <1>5, <1>11, <2>1 DEF SaveRenewal, MarkRenewal
<1>12. CASE FailRenewal \/ ExtendPeriod \/ Downgrade \/ ChangeUserPlan \/ DeleteSubs \/ DeletePayments
  BY <1>5, <1>12 DEF FailRenewal, ExtendPeriod, Downgrade, ChangeUserPlan, DeleteSubs, DeletePayments
<1>13. CASE RunChecks \/ BeginRenewals \/ BeginChanges \/ BeginCleanup
  BY <1>4, <1>13 DEF RunChecks, BeginRenewals, BeginChanges, BeginCleanup, expired, renewable, changing
<1>15. Checks => OK
  BY <1>7, <1>8, <1>9, <1>10, <1>11, <1>12, <1>13 DEF Checks
<1> QED
  BY SchedSteps, <1>1, <1>15

\* The steps that write to a table, and what they write.
LEMMA SubsSteps ==
  ASSUME Shaped, [Next]_vars
  PROVE  \/ subs' = subs
         \/ \E u \in Users : CreateSubscription(u)
         \/ \E r \in Requests : WriteSubscription(r)
         \/ \E h \in Hooks : Activate(h)
         \/ \E e \in list : Expire(e) \/ ApplyChange(e)
         \/ ExtendPeriod \/ DeleteSubs
<1>1. ASSUME NEW u \in Users, Checkouts(u), ~CreateSubscription(u)
      PROVE  subs' = subs
  BY <1>1 DEF Checkouts, Checkout, CreatePayment, CallYooKassa, SavePayment, tables
<1>2. ASSUME NEW r \in Requests, Changes(r), ~WriteSubscription(r)
      PROVE  subs' = subs
  BY <1>2 DEF Changes, Cancel, ChangePlan, AdminCancel, AdminExtend, UpdateUser, UpdatePlan, SetUserPlan, tables
<1>3. ASSUME NEW h \in Hooks, Notified(h), ~Activate(h)
      PROVE  subs' = subs
  BY <1>3 DEF Notified, NotifySucceeded, NotifyCanceled, MarkSuccess, ReadSubscription, Upgrade, MarkFailed, tables
<1>4. ASSUME Checks, \A e \in list : ~Expire(e) /\ ~ApplyChange(e), ~ExtendPeriod, ~DeleteSubs
      PROVE  subs' = subs
  BY <1>4 DEF Checks, Renew, RunChecks, Downgrade, BeginRenewals, BillRenewal, CallAutopayment, FailRenewal,
              SaveRenewal, MarkRenewal, BeginChanges, ChangeUserPlan, BeginCleanup, DeletePayments, tables
<1>5. Tick \/ UNCHANGED vars \/ (\E p \in PayIds : Settle(p)) => subs' = subs
  BY DEF Tick, vars, Settle, tables
<1> QED
  BY Steps, <1>1, <1>2, <1>3, <1>4, <1>5, Zenon

LEMMA PaymentsSteps ==
  ASSUME Shaped, [Next]_vars
  PROVE  \/ payments' = payments
         \/ \E u \in Users : CreatePayment(u) \/ SavePayment(u)
         \/ \E h \in Hooks : MarkSuccess(h) \/ MarkFailed(h)
         \/ BillRenewal \/ FailRenewal \/ SaveRenewal \/ MarkRenewal \/ DeleteSubs \/ DeletePayments
<1>1. ASSUME NEW u \in Users, Checkouts(u), ~CreatePayment(u), ~SavePayment(u)
      PROVE  payments' = payments
  BY <1>1 DEF Checkouts, Checkout, CreateSubscription, CallYooKassa, tables
<1>2. ASSUME NEW r \in Requests, Changes(r)
      PROVE  payments' = payments
  BY <1>2 DEF Changes, Cancel, ChangePlan, AdminCancel, AdminExtend, UpdateUser, UpdatePlan, WriteSubscription,
              SetUserPlan, tables
<1>3. ASSUME NEW h \in Hooks, Notified(h), ~MarkSuccess(h), ~MarkFailed(h)
      PROVE  payments' = payments
  BY <1>3 DEF Notified, NotifySucceeded, NotifyCanceled, ReadSubscription, Activate, Upgrade, tables
<1>4. ASSUME Checks, ~BillRenewal, ~FailRenewal, ~SaveRenewal, ~MarkRenewal, ~DeleteSubs, ~DeletePayments
      PROVE  payments' = payments
  BY <1>4 DEF Checks, Expire, Renew, ApplyChange, RunChecks, Downgrade, BeginRenewals, CallAutopayment,
              ExtendPeriod, BeginChanges, ChangeUserPlan, BeginCleanup, tables
<1>5. Tick \/ UNCHANGED vars \/ (\E p \in PayIds : Settle(p)) => payments' = payments
  BY DEF Tick, vars, Settle, tables
<1> QED
  BY Steps, <1>1, <1>2, <1>3, <1>4, <1>5, Zenon

LEMMA YooSteps ==
  ASSUME Shaped, [Next]_vars
  PROVE  \/ yoo' = yoo
         \/ \E p \in PayIds : Settle(p)
         \/ \E u \in Users : CallYooKassa(u) \/ SavePayment(u)
         \/ CallAutopayment
<1>1. ASSUME NEW u \in Users, Checkouts(u), ~CallYooKassa(u), ~SavePayment(u)
      PROVE  yoo' = yoo
  BY <1>1 DEF Checkouts, Checkout, CreateSubscription, CreatePayment
<1>2. ASSUME NEW r \in Requests, Changes(r)
      PROVE  yoo' = yoo
  BY <1>2 DEF Changes, Cancel, ChangePlan, AdminCancel, AdminExtend, UpdateUser, UpdatePlan, WriteSubscription,
              SetUserPlan
<1>3. ASSUME NEW h \in Hooks, Notified(h)
      PROVE  yoo' = yoo
  BY <1>3 DEF Notified, NotifySucceeded, NotifyCanceled, MarkSuccess, ReadSubscription, Activate, Upgrade,
       MarkFailed
<1>4. ASSUME Checks, ~CallAutopayment
      PROVE  yoo' = yoo
  BY <1>4 DEF Checks, Expire, Renew, ApplyChange, RunChecks, Downgrade, BeginRenewals, BillRenewal, FailRenewal,
              SaveRenewal, MarkRenewal, ExtendPeriod, BeginChanges, ChangeUserPlan, BeginCleanup, DeleteSubs,
              DeletePayments
<1>5. Tick \/ UNCHANGED vars => yoo' = yoo
  BY DEF Tick, vars
<1> QED
  BY Steps, <1>1, <1>2, <1>3, <1>4, <1>5, Zenon

-----------------------------------------------------------------------------
(* What a table keeps.                                                       *)

SubsKept == \A s \in SubIds : usedSub(s) => usedSub(s)' /\ subs'[s].user = subs[s].user
PaymentsKept == \A p \in PayIds : usedPay(p) => /\ usedPay(p)' /\ payments'[p].for = payments[p].for
                                              /\ payments'[p].invoice = payments[p].invoice
YooKept == \A p \in PayIds : paid(p) => paid(p)' /\ yoo'[p].invoice = yoo[p].invoice

\* What subscriptions may become: only one that is backed gets active.
SubsGrow ==
  /\ DOMAIN subs' = SubIds /\ SubsKept
  /\ \A s \in SubIds :
       /\ subs'[s] \in Rows
       /\ subs'[s].status = "unused" => subs[s].status = "unused" /\ subs'[s] = subs[s]
       /\ subs'[s].status = "active" \/ subs'[s].next # None => backed(s)

LEMMA SubsStep ==
  ASSUME Shaped, Fits, [Next]_vars
  PROVE  SubsGrow
<1> USE DEF SubsGrow, SubsKept
<1>1. subs' = subs => SubsGrow
  BY DEF Shaped, TablesShaped, Fits, TablesFit, fits, usedSub
<1>2. ASSUME NEW s, NEW row, holds(s, row), WriteSub(s, row)
      PROVE  SubsGrow
  <2>1. s \in 0 .. MaxSub /\ row \in Rows
    BY <1>2, BillingAssumption DEF holds, usedSub, fits, SubIds
  <2> QED
    BY <1>2, <2>1, WroteSub DEF Shaped, TablesShaped, Fits, TablesFit, fits, holds, usedSub, subExists
<1>3. ASSUME NEW u \in Users, CreateSubscription(u)
      PROVE  SubsGrow
  <2>1. CASE room(subs)
    <3> DEFINE row == request[u].row
    <3>1. nextId(subs) \in SubIds /\ subs[nextId(subs)].status = "unused"
      BY <2>1, NextIsUnused DEF Shaped, TablesShaped
    <3>2. row \in Rows /\ row.status = "pending" /\ row.next = None
      BY <1>3 DEF CreateSubscription, Requests, Fits, RequestFits, Shaped, ProcessesShaped, isProcess
    <3>3. subs' = [subs EXCEPT ![nextId(subs)] = row]
      BY <1>3, <2>1 DEF CreateSubscription
    <3> HIDE DEF row
    <3> QED
      BY <3>1, <3>2, <3>3 DEF Shaped, TablesShaped, Fits, TablesFit, fits, usedSub
  <2> QED
    BY <1>1, <1>3, <2>1 DEF CreateSubscription
<1>4. ASSUME NEW r \in Requests, WriteSubscription(r)
      PROVE  SubsGrow
  BY <1>2, <1>4 DEF WriteSubscription, Fits, RequestFits
<1>5. ASSUME NEW h \in Hooks, Activate(h)
      PROVE  SubsGrow
  BY <1>2, <1>5 DEF Activate, Fits, HookFits
<1>6. ASSUME NEW e \in list, Expire(e)
      PROVE  SubsGrow
  <2>1. holds(e.sub, e.row)
    BY DEF Fits, SchedFits
  <2>2. holds(e.sub, [e.row EXCEPT !.status = "expired"])
    BY <2>1 DEF holds, fits, Rows
  <2> QED
    BY <1>2, <1>6, <2>2 DEF Expire
<1>7. ASSUME NEW e \in list, ApplyChange(e)
      PROVE  SubsGrow
  <2>1. holds(e.sub, e.row) /\ e.row.next # None
    BY <1>7 DEF Fits, SchedFits, ApplyChange
  <2>2. holds(e.sub, [e.row EXCEPT !.plan = e.row.next, !.next = None])
    BY <2>1 DEF holds, fits, Rows
  <2> QED
    BY <1>2, <1>7, <2>2 DEF ApplyChange
<1>8. CASE ExtendPeriod
  <2>1. holds(sched.sub, sched.row) /\ backed(sched.sub) /\ now + Month \in Nat
    BY <1>8, BillingAssumption DEF Fits, SchedFits, ExtendPeriod, renewal, Shaped, ProcessesShaped
  <2>2. holds(sched.sub, [sched.row EXCEPT !.status = "active", !.end = now + Month])
    BY <2>1 DEF holds, fits, Rows
  <2> QED
    BY <1>2, <1>8, <2>2 DEF ExtendPeriod
<1>9. CASE DeleteSubs
  BY <1>9 DEF DeleteSubs, Shaped, TablesShaped, Fits, TablesFit, fits, usedSub, Rows
<1> HIDE DEF SubsGrow, SubsKept
<1> QED
  BY SubsSteps, <1>1, <1>3, <1>4, <1>5, <1>6, <1>7, <1>8, <1>9

\* What payments may become: what is created refers to its subscription, and
\* what is rewritten to that or to none.
PaymentsGrow ==
  /\ DOMAIN payments' = PayIds /\ PaymentsKept
  /\ \A p \in PayIds :
       /\ isPayment(payments'[p])
       /\ payments'[p].status = "unused" => payments[p].status = "unused" /\ payments'[p] = payments[p]
       /\ payments'[p].sub \in {0, payments'[p].for}
       /\ payments'[p].for # 0 => usedSub(payments'[p].for)

LEMMA PaymentsStep ==
  ASSUME Shaped, Fits, [Next]_vars
  PROVE  PaymentsGrow
<1> USE DEF PaymentsGrow, PaymentsKept
<1>1. payments' = payments => PaymentsGrow
  BY DEF Shaped, TablesShaped, Fits, TablesFit, usedPay
<1>2. ASSUME NEW p \in PayIds, NEW s \in 0 .. MaxSub, NEW status, WritePay(p, s, status),
             s \in {0, payments[p].for}, status # "unused"
      PROVE  PaymentsGrow
  BY <1>2, WrotePay DEF Shaped, TablesShaped, Fits, TablesFit, usedPay, payExists
<1>3. ASSUME NEW s \in 0 .. MaxSub, NEW i, canPay(s, i), Pay(s, i)
      PROVE  PaymentsGrow
  <2>1. usedSub(s)
    BY <1>3 DEF canPay, subExists, usedSub, SubIds
  <2> QED
    BY <1>3, <2>1, Paid DEF Shaped, TablesShaped, Fits, TablesFit, usedPay
<1>4. ASSUME NEW u \in Users, CreatePayment(u)
      PROVE  PaymentsGrow
  <2>1. request[u].sub \in 0 .. MaxSub
    BY DEF Requests, Shaped, ProcessesShaped, isProcess
  <2> QED
    BY <1>1, <1>3, <1>4, <2>1 DEF CreatePayment
<1>5. ASSUME NEW u \in Users, SavePayment(u)
      PROVE  PaymentsGrow
  <2>1. bills(request[u].pay, request[u].sub) /\ request[u].sub \in 0 .. MaxSub
    BY <1>5 DEF Requests, Shaped, ProcessesShaped, isProcess, Fits, RequestFits, SavePayment
  <2> QED
    BY <1>2, <1>5, <2>1 DEF SavePayment, bills, usedPay
<1>6. ASSUME NEW h \in Hooks, MarkSuccess(h) \/ MarkFailed(h)
      PROVE  PaymentsGrow
  <2>1. usedPay(hook[h].pay) /\ hook[h].sub \in {0, payments[hook[h].pay].for} /\ hook[h].sub \in 0 .. MaxSub
    BY <1>6 DEF Shaped, ProcessesShaped, isProcess, Fits, HookFits, MarkSuccess, MarkFailed
  <2> QED
    BY <1>2, <1>6, <2>1 DEF MarkSuccess, MarkFailed, usedPay
<1>7. CASE BillRenewal
  <2>1. sched.sub \in 0 .. MaxSub
    BY DEF Shaped, ProcessesShaped, isProcess
  <2> QED
    BY <1>1, <1>3, <1>7, <2>1 DEF BillRenewal
<1>8. CASE FailRenewal \/ SaveRenewal \/ MarkRenewal
  <2>1. bills(sched.pay, sched.sub) /\ sched.sub \in 0 .. MaxSub
    BY <1>8 DEF Shaped, ProcessesShaped, isProcess, Fits, SchedFits, FailRenewal, SaveRenewal, MarkRenewal, underway
  <2> QED
    BY <1>2, <1>8, <2>1 DEF FailRenewal, SaveRenewal, MarkRenewal, bills, usedPay
<1>9. CASE DeleteSubs
  <2>1. /\ DOMAIN payments' = PayIds
        /\ \A p \in PayIds : payments'[p] = payments[p] \/ payments'[p] = [payments[p] EXCEPT !.sub = 0]
    BY <1>9 DEF DeleteSubs
  <2>2. \A p \in PayIds : payments[p].status = "unused" => payments'[p] = payments[p]
    BY <1>9 DEF DeleteSubs, Fits, TablesFit, SubIds
  <2> QED
    BY <2>1, <2>2, BillingAssumption DEF Shaped, TablesShaped, isPayment, Fits, TablesFit, usedPay
<1>10. CASE DeletePayments
  BY <1>10 DEF DeletePayments, Shaped, TablesShaped, isPayment, Fits, TablesFit, usedPay, stale
<1> HIDE DEF PaymentsGrow, PaymentsKept
<1> QED
  BY PaymentsSteps, <1>1, <1>4, <1>5, <1>6, <1>7, <1>8, <1>9, <1>10

\* What YooKassa knows changes for a payment that is open, or that its process
\* is just creating; nobody else's.
YooGrow ==
  /\ DOMAIN yoo' = PayIds /\ YooKept
  /\ \A p \in PayIds : isYoo(yoo'[p]) /\ (~usedPay(p) => yoo'[p] = yoo[p])

LEMMA YooStep ==
  ASSUME Shaped, Fits, [Next]_vars
  PROVE  YooGrow
<1> USE DEF YooGrow, YooKept, paid
<1>1. yoo' = yoo => YooGrow
  BY DEF Shaped, TablesShaped
<1>2. ASSUME NEW p \in PayIds, NEW y, yoo' = [yoo EXCEPT ![p] = y], isYoo(y), usedPay(p), ~paid(p)
      PROVE  YooGrow
  BY <1>2 DEF Shaped, TablesShaped
<1>3. ASSUME NEW p \in PayIds, NEW status, yoo' = [yoo EXCEPT ![p].status = status], usedPay(p), ~paid(p)
      PROVE  YooGrow
  <2>1. isYoo([yoo[p] EXCEPT !.status = status])
    BY DEF Shaped, TablesShaped, isYoo
  <2> QED
    BY <1>2, <1>3, <2>1
<1>4. ASSUME NEW p \in PayIds, Settle(p)
      PROVE  YooGrow
  <2>1. usedPay(p) /\ ~paid(p)
    BY <1>4 DEF Settle, Fits, TablesFit, usedPay
  <2> QED
    BY <1>3, <1>4, <2>1 DEF Settle
<1>5. ASSUME NEW u \in Users, CallYooKassa(u)
      PROVE  YooGrow
  <2> DEFINE p == request[u].pay
             y == [status |-> "created", invoice |-> request[u].invoice, save |-> request[u].row.recurring]
  <2>1. p \in PayIds /\ usedPay(p) /\ ~paid(p)
    BY <1>5 DEF CallYooKassa, Requests, Fits, RequestFits, bills, usedPay
  <2>2. yoo' = yoo \/ yoo' = [yoo EXCEPT ![p] = y]
    BY <1>5 DEF CallYooKassa
  <2>3. isYoo(y)
    BY DEF isYoo
  <2> HIDE DEF p, y
  <2> QED
    BY <1>1, <1>2, <2>1, <2>2, <2>3
<1>6. ASSUME NEW u \in Users, SavePayment(u)
      PROVE  YooGrow
  <2>1. request[u].pay \in PayIds /\ usedPay(request[u].pay) /\ ~paid(request[u].pay)
    BY <1>6 DEF SavePayment, Requests, Fits, RequestFits, bills, usedPay
  <2> QED
    BY <1>3, <1>6, <2>1 DEF SavePayment
<1>7. CASE CallAutopayment
  <2>1. sched.pay \in PayIds /\ usedPay(sched.pay) /\ ~paid(sched.pay)
    BY <1>7 DEF CallAutopayment, Fits, SchedFits, bills, usedPay, underway
  <2>2. \A status : isYoo([status |-> status, invoice |-> sched.invoice, save |-> TRUE])
    BY DEF isYoo
  <2>3. \/ yoo' = yoo
        \/ \E status : yoo' = [yoo EXCEPT ![sched.pay] = [status |-> status, invoice |-> sched.invoice,
                                             save |-> TRUE]]
    BY <1>7, Zenon DEF CallAutopayment
  <2> QED
    BY <1>1, <1>2, <2>1, <2>2, <2>3
<1> HIDE DEF YooGrow, YooKept
<1> QED
  BY YooSteps, <1>1, <1>4, <1>5, <1>6, <1>7

\* An admin's grant is for good.
LEMMA GrantedStep ==
  ASSUME [Next]_vars
  PROVE  granted \subseteq granted'
<1>1. ASSUME NEW r \in Requests, Changes(r)
      PROVE  granted \subseteq granted'
  BY <1>1 DEF Changes, Cancel, ChangePlan, AdminCancel, AdminExtend, UpdateUser, UpdatePlan, WriteSubscription,
              SetUserPlan
<1>2. ASSUME NEW u \in Users, Checkouts(u)
      PROVE  granted' = granted
  BY <1>2 DEF Checkouts, Checkout, CreateSubscription, CreatePayment, CallYooKassa, SavePayment
<1>3. ASSUME NEW h \in Hooks, Notified(h)
      PROVE  granted' = granted
  BY <1>3 DEF Notified, NotifySucceeded, NotifyCanceled, MarkSuccess, ReadSubscription, Activate, Upgrade,
       MarkFailed
<1>4. Checks \/ Tick \/ UNCHANGED vars \/ (\E p \in PayIds : Settle(p)) => granted' = granted
  BY DEF Checks, Expire, Renew, ApplyChange, RunChecks, Downgrade, BeginRenewals, BillRenewal, CallAutopayment,
         FailRenewal, SaveRenewal, MarkRenewal, ExtendPeriod, BeginChanges, ChangeUserPlan, BeginCleanup,
         DeleteSubs, DeletePayments, Tick, Settle, vars
<1> QED
  BY Steps, <1>1, <1>2, <1>3, <1>4

\* So nobody loses what was paid for him, or granted to him.
LEMMA BackedStep ==
  ASSUME Shaped, Fits, [Next]_vars, NEW s \in SubIds, backed(s)
  PROVE  backed(s)'
<1>2. ASSUME NEW p, p \in receipts(s)
      PROVE  p \in receipts(s)'
  <2>1. PICK q \in PayIds : payments[q].for = s /\ payments[q].invoice = yoo[p].invoice
    BY <1>2 DEF receipts, Shaped, TablesShaped
  <2>2. usedPay(q)
    BY <2>1 DEF SubIds, Fits, TablesFit, usedPay
  <2>3. p \in PayIds /\ paid(p)
    BY <1>2 DEF receipts, Shaped, TablesShaped
  <2>4. payments'[q].for = s /\ payments'[q].invoice = yoo'[p].invoice /\ paid(p)'
    BY <2>1, <2>2, <2>3, PaymentsStep, YooStep DEF PaymentsGrow, PaymentsKept, YooGrow, YooKept
  <2> QED
    BY <2>3, <2>4, PaymentsStep DEF receipts, PaymentsGrow
<1> QED
  BY GrantedStep, <1>2 DEF backed

LEMMA EntitledStep ==
  ASSUME Shaped, Fits, [Next]_vars, NEW u \in Users, entitled(u)
  PROVE  entitled(u)'
<1>1. CASE u \in granted
  BY <1>1, GrantedStep DEF entitled
<1>2. ASSUME NEW s \in DOMAIN subs, subs[s].user = u, backed(s)
      PROVE  entitled(u)'
  <2>1. s \in SubIds /\ usedSub(s)
    BY <1>2, BillingAssumption DEF usedSub, Shaped, TablesShaped, Fits, TablesFit
  <2>2. subs'[s].user = u /\ s \in DOMAIN subs'
    BY <1>2, <2>1, SubsStep DEF SubsGrow, SubsKept
  <2>3. backed(s)'
    BY <1>2, <2>1, BackedStep
  <2> QED
    BY <2>2, <2>3 DEF entitled
<1> QED
  BY <1>1, <1>2 DEF entitled

-----------------------------------------------------------------------------
(* What a process may rely on.                                               *)

LEMMA Keeps ==
  ASSUME Shaped, Fits, [Next]_vars
  PROVE  /\ \A s \in SubIds : backed(s) => backed(s)'
         /\ \A u \in Users : entitled(u) => entitled(u)'
         /\ \A s : usedSub(s) => usedSub(s)'
         /\ \A s, row : holds(s, row) => holds(s, row)'
         /\ \A p : usedPay(p) => usedPay(p)' /\ payments'[p].for = payments[p].for
         /\ \A p, s : bills(p, s) => bills(p, s)'
<1>1. \A s \in SubIds : backed(s) => backed(s)'
  BY BackedStep
<1>2. \A s : usedSub(s) => usedSub(s)' /\ s \in SubIds /\ subs'[s].user = subs[s].user
  BY SubsStep DEF SubsGrow, SubsKept, usedSub
<1>3. \A p : usedPay(p) => usedPay(p)' /\ payments'[p].for = payments[p].for
  BY PaymentsStep DEF PaymentsGrow, PaymentsKept, usedPay
<1>4. \A s, row : holds(s, row) => holds(s, row)'
  BY <1>1, <1>2 DEF holds, fits
<1> QED
  BY <1>1, <1>2, <1>3, <1>4, EntitledStep DEF bills

\* The request is not concerned: it goes on fitting, if nobody else calls
\* YooKassa about its payment.
LEMMA RequestKept ==
  ASSUME Shaped, Fits, [Next]_vars, NEW q, isProcess(q), RequestFits(q),
         q.at \in {"calling", "saving"} => yoo'[q.pay] = yoo[q.pay]
  PROVE  RequestFits(q)'
<1>1. q.at \in {"writing", "planning"} /\ q.plan \notin {None, Free} => backed(q.sub)'
  BY Keeps DEF RequestFits, holds, usedSub
<1> QED
  BY Keeps, <1>1 DEF RequestFits

LEMMA HookKept ==
  ASSUME Shaped, Fits, [Next]_vars, NEW k, isProcess(k), HookFits(k)
  PROVE  HookFits(k)'
<1>1. \A s \in 0 .. MaxSub : s # 0 /\ backed(s) => backed(s)'
  BY Keeps, BillingAssumption DEF SubIds
<1> QED
  BY Keeps, <1>1 DEF HookFits, isProcess, holds, usedSub

\* Nobody calls YooKassa about the payment of another.
LEMMA OwnPayment ==
  ASSUME Shaped, Fits, FreshInv, [Next]_vars, NEW r \in Requests,
         request[r].at \in {"calling", "saving"}, request'[r] = request[r]
  PROVE  yoo'[request[r].pay] = yoo[request[r].pay]
<1> DEFINE p == request[r].pay
<1>1. bills(p, request[r].sub) /\ p \in PayIds /\ yoo[p].status \in {"none", "created"}
  BY DEF Fits, RequestFits, bills, usedPay
<1>2. ASSUME NEW z \in PayIds, Settle(z)
      PROVE  yoo'[p] = yoo[p]
  BY <1>1, <1>2 DEF Settle, Shaped, TablesShaped
<1>3. ASSUME NEW u \in Users, CallYooKassa(u) \/ SavePayment(u)
      PROVE  yoo'[p] = yoo[p]
  <2>1. u \in Requests /\ bills(request[u].pay, request[u].sub) /\ request[u].at \in {"calling", "saving"}
    BY <1>3 DEF CallYooKassa, SavePayment, Requests, Fits, RequestFits
  <2>2. CASE u = r
    <3>1. isProcess(request[u]) /\ isProcess(request'[u])
      BY <2>1, RequestsShaped DEF Shaped, ProcessesShaped
    <3>2. request'[u].at # request[u].at \/ yoo' = yoo
      BY <1>3, <2>1, <3>1 DEF CallYooKassa, SavePayment, Does, Idle, Shaped, ProcessesShaped, isProcess
    <3> QED
      BY <2>2, <3>2
  <2>3. CASE u # r
    <3>1. request[u].sub # request[r].sub
      BY <2>1, <2>3 DEF FreshInv, checkout
    <3>2. request[u].pay # p
      BY <1>1, <2>1, <3>1 DEF bills
    <3> HIDE DEF p
    <3> QED
      BY <1>1, <1>3, <3>2 DEF CallYooKassa, SavePayment, Shaped, TablesShaped
  <2> QED
    BY <2>2, <2>3
<1>4. CASE CallAutopayment
  <2>1. bills(sched.pay, sched.sub) /\ sched.sub # request[r].sub
    BY <1>4 DEF CallAutopayment, Fits, SchedFits, FreshInv, New, checkout, renewal, underway
  <2>2. sched.pay # p
    BY <1>1, <2>1 DEF bills
  <2>3. yoo' = yoo \/ \E y : yoo' = [yoo EXCEPT ![sched.pay] = y]
    BY <1>4, Zenon DEF CallAutopayment
  <2> QED
    BY <1>1, <2>2, <2>3 DEF Shaped, TablesShaped
<1> QED
  BY YooSteps, <1>2, <1>3, <1>4

\* One request moves, and the others keep what they rely on.
LEMMA RequestMoved ==
  ASSUME Shaped, Fits, FreshInv, [Next]_vars, NEW r \in Requests, NEW x, isProcess(x), Does(r, x), RequestFits(x)'
  PROVE  \A q \in Requests : RequestFits(request[q])'
<1>1. request'[r] = x /\ \A q \in Requests \ {r} : request'[q] = request[q]
  BY Doing
<1>2. ASSUME NEW q \in Requests \ {r}
      PROVE  RequestFits(request[q])'
  <2>1. RequestFits(request[q]) /\ isProcess(request[q]) /\ request'[q] = request[q]
    BY <1>1 DEF Fits, Shaped, ProcessesShaped
  <2> QED
    BY <2>1, RequestKept, OwnPayment
<1> QED
  BY <1>1, <1>2

\* A step of a checkout: what it goes on with is its own.
LEMMA CheckoutFits ==
  ASSUME Shaped, Fits, FreshInv, [Next]_vars, NEW u \in Users, Checkouts(u)
  PROVE  \A q \in Requests : RequestFits(request[q])'
<1> DEFINE OK == \A q \in Requests : RequestFits(request[q])'
<1>0. u \in Requests /\ isProcess(request[u]) /\ RequestFits(request[u])
  BY DEF Requests, Shaped, ProcessesShaped, Fits
<1>a. ASSUME NEW x, isProcess(x), Does(u, x), RequestFits(x)'
      PROVE  OK
  BY <1>0, <1>a, RequestMoved
<1>b. Does(u, Idle) => OK
  BY <1>a, Idles DEF RequestFits, Idle, checkout
<1> SUFFICES OK
  OBVIOUS
<1> HIDE DEF OK
<1>1. ASSUME NEW plan \in Plans, NEW recurring \in BOOLEAN, Checkout(u, plan, recurring)
      PROVE  OK
  <2>1. PICK row : row = [NoSub EXCEPT !.user = u, !.plan = plan, !.status = "pending", !.recurring = recurring]
    OBVIOUS
  <2>2. PICK x : x = [Idle EXCEPT !.at = "subscribing", !.invoice = nextInvoice, !.row = row]
    OBVIOUS
  <2>3. row \in Rows /\ row.status = "pending" /\ row.next = None /\ row.end = 0
    BY <2>1 DEF NoSub, Rows
  <2>4. Does(u, x)
    BY <1>1, <2>1, <2>2 DEF Checkout
  <2>5. isProcess(x) /\ x.at = "subscribing" /\ x.row = row
    BY <2>2, <2>3, Idles DEF isProcess
  <2>6. RequestFits(x)'
    BY <2>3, <2>5 DEF RequestFits, checkout
  <2> QED
    BY <1>a, <2>4, <2>5, <2>6
<1>2. CASE CreateSubscription(u)
  <2>1. CASE room(subs)
    <3>1. PICK n : n = nextId(subs)
      OBVIOUS
    <3>2. PICK x : x = [request[u] EXCEPT !.at = "billing", !.sub = n]
      OBVIOUS
    <3>3. n \in SubIds /\ n \in 0 .. MaxSub
      BY <2>1, <3>1, NextIsUnused, BillingAssumption DEF Shaped, TablesShaped, SubIds
    <3>4. Does(u, x) /\ subs' = [subs EXCEPT ![n] = request[u].row] /\ request[u].row.status = "pending"
      BY <1>0, <1>2, <2>1, <3>1, <3>2 DEF CreateSubscription, RequestFits
    <3>5. isProcess(x) /\ x.at = "billing" /\ x.sub = n
      BY <1>0, <3>2, <3>3 DEF isProcess
    <3>6. usedSub(n)'
      BY <3>3, <3>4 DEF usedSub, Shaped, TablesShaped
    <3>7. RequestFits(x)'
      BY <3>5, <3>6 DEF RequestFits, checkout
    <3> QED
      BY <1>a, <3>4, <3>5, <3>7
  <2> QED
    BY <1>b, <1>2, <2>1 DEF CreateSubscription
<1>3. CASE CreatePayment(u)
  <2>1. CASE canPay(request[u].sub, request[u].invoice)
    <3>1. PICK n, s, i : n = nextId(payments) /\ s = request[u].sub /\ i = request[u].invoice
      OBVIOUS
    <3>2. PICK x : x = [request[u] EXCEPT !.at = "calling", !.pay = n]
      OBVIOUS
    <3>3. s \in 0 .. MaxSub /\ usedSub(s)
      BY <1>0, <1>3, <3>1 DEF isProcess, RequestFits, CreatePayment, checkout
    <3>4. Does(u, x) /\ canPay(s, i) /\ Pay(s, i) /\ yoo' = yoo
      BY <1>3, <2>1, <3>1, <3>2 DEF CreatePayment
    <3>5. n \in PayIds /\ n \in 0 .. MaxPay /\ payments[n].status = "unused"
      BY <3>1, <3>4, NextIsUnused, BillingAssumption DEF Shaped, TablesShaped, PayIds, canPay
    <3>6. payments'[n].for = s /\ payments'[n].status = "pending" /\ yoo'[n].status = "none"
      BY <3>1, <3>3, <3>4, <3>5, Paid DEF Shaped, Fits, TablesFit
    <3>7. isProcess(x) /\ x.at = "calling" /\ x.sub = s /\ x.pay = n
      BY <1>0, <3>1, <3>2, <3>5 DEF isProcess
    <3>8. RequestFits(x)'
      BY <3>3, <3>5, <3>6, <3>7, Keeps DEF RequestFits, checkout, bills, usedPay
    <3> QED
      BY <1>a, <3>4, <3>7, <3>8
  <2> QED
    BY <1>b, <1>3, <2>1 DEF CreatePayment
<1>4. CASE CallYooKassa(u)
  <2>1. PICK x, y : /\ x = [request[u] EXCEPT !.at = "saving"]
                    /\ y = [status |-> "created", invoice |-> request[u].invoice, save |-> request[u].row.recurring]
    OBVIOUS
  <2>2. PICK p, s : p = request[u].pay /\ s = request[u].sub
    OBVIOUS
  <2>3. CASE Does(u, x) /\ yoo' = [yoo EXCEPT ![p] = y]
    <3>1. isProcess(x) /\ x.at = "saving" /\ x.sub = s /\ x.pay = p
      BY <1>0, <2>1, <2>2 DEF isProcess
    <3>2. usedSub(s) /\ bills(p, s)
      BY <1>0, <1>4, <2>2 DEF RequestFits, CallYooKassa, checkout
    <3>3. yoo'[p].status = "created"
      BY <2>1, <2>3, <3>2 DEF bills, usedPay, Shaped, TablesShaped
    <3>4. RequestFits(x)'
      BY <3>1, <3>2, <3>3, Keeps DEF RequestFits, checkout
    <3> QED
      BY <1>a, <2>3, <3>1, <3>4
  <2> QED
    BY <1>b, <1>4, <2>1, <2>2, <2>3 DEF CallYooKassa
<1>5. CASE SavePayment(u)
  BY <1>b, <1>5 DEF SavePayment
<1> QED
  BY <1>1, <1>2, <1>3, <1>4, <1>5 DEF Checkouts

\* A step of another request: what it is about to write fits the row.
LEMMA ChangeFits ==
  ASSUME Shaped, Fits, FreshInv, [Next]_vars, NEW r \in Requests, Changes(r)
  PROVE  \A q \in Requests : RequestFits(request[q])'
<1> DEFINE OK == \A q \in Requests : RequestFits(request[q])'
<1>0. isProcess(request[r]) /\ RequestFits(request[r])
  BY DEF Shaped, ProcessesShaped, Fits
<1>a. ASSUME NEW x, isProcess(x), Does(r, x), RequestFits(x)'
      PROVE  OK
  BY <1>a, RequestMoved
<1>b. Does(r, Idle) => OK
  BY <1>a, Idles DEF RequestFits, Idle, checkout
<1> SUFFICES OK
  OBVIOUS
<1> HIDE DEF OK
\* A copy of s, changed, that may become active only if s is backed by then.
<1>1. ASSUME NEW s \in SubIds, NEW row \in Rows, NEW plan \in Plans \cup {Free, None},
             \/ Does(r, [Idle EXCEPT !.at = "writing", !.sub = s, !.plan = plan, !.row = row])
             \/ Does(r, [Idle EXCEPT !.at = "writing", !.sub = s, !.row = row]) /\ plan = None,
             usedSub(s), row.user = subs[s].user, row.status # "unused",
             row.status = "active" \/ row.next # None \/ plan \notin {None, Free} => backed(s)'
      PROVE  OK
  <2>1. PICK x, y : /\ x = [Idle EXCEPT !.at = "writing", !.sub = s, !.plan = plan, !.row = row]
                    /\ y = [Idle EXCEPT !.at = "writing", !.sub = s, !.row = row]
    OBVIOUS
  <2>2. isProcess(x) /\ x.at = "writing" /\ x.sub = s /\ x.plan = plan /\ x.row = row
    BY <2>1, Idles, BillingAssumption DEF isProcess, SubIds
  <2>3. isProcess(y) /\ y.at = "writing" /\ y.sub = s /\ y.plan = None /\ y.row = row
    <3>1. Idle.plan = None
      BY DEF Idle
    <3> QED
      BY <2>1, <3>1, Idles, BillingAssumption DEF isProcess, SubIds
  <2>4. holds(s, row)'
    BY <1>1, SubsStep DEF SubsGrow, SubsKept, holds, fits, usedSub
  <2>5. RequestFits(x)'
    BY <1>1, <2>2, <2>4 DEF RequestFits, checkout
  <2>6. RequestFits(y)'
    BY <1>1, <2>3, <2>4 DEF RequestFits, checkout
  <2> QED
    BY <1>1, <1>a, <2>1, <2>2, <2>3, <2>5, <2>6
<1>2. ASSUME NEW s \in SubIds, NEW row, row.status = "active" \/ row.next # None => backed(s)
      PROVE  row.status = "active" \/ row.next # None => backed(s)'
  BY <1>2, Keeps
<1>3. ASSUME NEW s \in SubIds
      PROVE  /\ subs[s] \in Rows
             /\ subs[s].status = "active" \/ subs[s].next # None => backed(s)
             /\ subs[s].status \in {"active", "cancelled"} => usedSub(s)
             /\ subExists(s) => usedSub(s)
  BY <1>3 DEF Shaped, TablesShaped, Fits, TablesFit, fits, usedSub, subExists
<1>4. ASSUME NEW s \in SubIds, Cancel(r, s)
      PROVE  OK
  <2>1. PICK row : row = [subs[s] EXCEPT !.status = "cancelled", !.recurring = FALSE, !.method = FALSE]
    OBVIOUS
  <2>2. /\ row \in Rows /\ row.user = subs[s].user /\ row.status = "cancelled" /\ row.next = subs[s].next
    BY <1>3, <2>1 DEF Rows
  <2>3. Does(r, [Idle EXCEPT !.at = "writing", !.sub = s, !.row = row]) /\ usedSub(s)
    BY <1>3, <1>4, <2>1 DEF Cancel, activeSub, ownSubs
  <2> QED
    BY <1>1, <1>2, <1>3, <2>2, <2>3
<1>5. ASSUME NEW s \in SubIds, NEW plan \in Plans \cup {Free}, ChangePlan(r, s, plan)
      PROVE  OK
  <2>1. PICK row : row = [subs[s] EXCEPT !.next = IF plan = subs[s].plan THEN None ELSE plan]
    OBVIOUS
  <2>2. row \in Rows /\ row.user = subs[s].user /\ row.status = subs[s].status
    BY <1>3, <2>1 DEF Rows
  <2>3. Does(r, [Idle EXCEPT !.at = "writing", !.sub = s, !.row = row]) /\ activeSub(r, s)
    BY <1>5, <2>1 DEF ChangePlan
  <2>4. subs[s].status = "active"
    BY <2>3 DEF activeSub, hasActive, ownSubs, SubIds
  <2> QED
    BY <1>1, <1>2, <1>3, <2>2, <2>3, <2>4
<1>6. ASSUME NEW s \in SubIds, AdminCancel(r, s)
      PROVE  OK
  <2>1. PICK row : row = [subs[s] EXCEPT !.status = "cancelled", !.recurring = FALSE]
    OBVIOUS
  <2>2. row \in Rows /\ row.user = subs[s].user /\ row.status = "cancelled" /\ row.next = subs[s].next
    BY <1>3, <2>1 DEF Rows
  <2>3. Does(r, [Idle EXCEPT !.at = "writing", !.sub = s, !.plan = Free, !.row = row]) /\ usedSub(s)
    BY <1>3, <1>6, <2>1 DEF AdminCancel
  <2> QED
    BY <1>1, <1>2, <1>3, <2>2, <2>3
<1>7. ASSUME NEW s \in SubIds, AdminExtend(r, s)
      PROVE  OK
  <2>1. PICK row : row = [subs[s] EXCEPT !.end = IF @ = 0 \/ over(s) THEN now + 1 ELSE @ + 1,
                                         !.status = IF @ \in {"expired", "cancelled"} THEN "active" ELSE @]
    OBVIOUS
  <2>2. row \in Rows /\ row.user = subs[s].user /\ row.status # "unused"
    <3>1. now + 1 \in Nat /\ subs[s].end + 1 \in Nat /\ subs[s].status # "unused"
      BY <1>3, <1>7 DEF Shaped, ProcessesShaped, Rows, AdminExtend, subExists
    <3> QED
      BY <1>3, <2>1, <3>1 DEF Rows
  <2>3. PICK plan : plan = subs[s].plan
    OBVIOUS
  <2>4. /\ Does(r, [Idle EXCEPT !.at = "writing", !.sub = s, !.plan = plan, !.row = row]) /\ usedSub(s)
        /\ plan \in Plans \cup {Free, None}
    BY <1>3, <1>7, <2>1, <2>3 DEF AdminExtend, Rows
  <2>5. backed(s)'
    BY <1>7 DEF AdminExtend, backed
  <2> QED
    BY <1>1, <2>2, <2>4, <2>5
<1>8. CASE WriteSubscription(r)
  <2>1. PICK q, x : q = request[r] /\ x = [q EXCEPT !.at = "planning"]
    OBVIOUS
  <2>2. q.plan # None => Does(r, x)
    BY <1>8, <2>1 DEF WriteSubscription
  <2>3. isProcess(x) /\ x.at = "planning" /\ x.sub = q.sub /\ x.row = q.row /\ x.plan = q.plan
    BY <1>0, <2>1 DEF isProcess
  <2>4. holds(q.sub, q.row) /\ (q.plan \notin {None, Free} => backed(q.sub)) /\ q.sub \in SubIds
    BY <1>0, <1>8, <2>1 DEF RequestFits, WriteSubscription, holds, usedSub
  <2>5. q.plan # None => RequestFits(x)'
    BY <2>3, <2>4, Keeps DEF RequestFits, checkout
  <2>6. q.plan = None => Does(r, Idle)
    BY <1>8, <2>1 DEF WriteSubscription
  <2> QED
    BY <1>a, <1>b, <2>2, <2>3, <2>5, <2>6
<1>9. CASE SetUserPlan(r)
  BY <1>b, <1>9 DEF SetUserPlan
<1>10. ASSUME NEW u \in Users, NEW plan \in Plans \cup {Free, None}, plan = Free \/ entitled(u)',
              Does(r, [Idle EXCEPT !.at = "updating", !.row.user = u, !.plan = plan])
       PROVE  OK
  <2>1. PICK row, x : row = [NoSub EXCEPT !.user = u] /\
        x = [Idle EXCEPT !.at = "updating", !.plan = plan, !.row = row]
    OBVIOUS
  <2>2. row \in Rows /\ row.user = u
    BY <2>1 DEF NoSub, Rows
  <2>3. isProcess(x) /\ x.at = "updating" /\ x.plan = plan /\ x.row = row
    BY <2>1, <2>2, Idles DEF isProcess
  <2>4. Does(r, x)
    BY <1>10, <2>1 DEF Idle
  <2>5. RequestFits(x)'
    BY <1>10, <2>2, <2>3 DEF RequestFits, checkout
  <2> QED
    BY <1>a, <2>3, <2>4, <2>5
<1>11. ASSUME NEW u \in Users, UpdateUser(r, u)
       PROVE  OK
  <2>1. userPlan[u] \in Plans \cup {Free, None} /\ (userPlan[u] = Free \/ entitled(u)')
    BY Keeps DEF Shaped, TablesShaped, Fits, TablesFit
  <2> QED
    BY <1>10, <1>11, <2>1 DEF UpdateUser
<1>12. ASSUME NEW u \in Users, NEW plan \in Plans \cup {Free}, UpdatePlan(r, u, plan)
       PROVE  OK
  <2>1. entitled(u)'
    BY <1>12 DEF UpdatePlan, entitled
  <2> QED
    BY <1>10, <1>12, <2>1 DEF UpdatePlan
<1> QED
  BY <1>4, <1>5, <1>6, <1>7, <1>8, <1>9, <1>11, <1>12 DEF Changes

LEMMA RequestsFit ==
  ASSUME Shaped, Fits, FreshInv, [Next]_vars
  PROVE  \A q \in Requests : RequestFits(request[q])'
<1>1. CASE request' = request
  <2> SUFFICES ASSUME NEW q \in Requests
               PROVE  RequestFits(request[q])'
    OBVIOUS
  <2>1. RequestFits(request[q]) /\ isProcess(request[q]) /\ request'[q] = request[q]
    BY <1>1 DEF Fits, Shaped, ProcessesShaped
  <2> QED
    BY <2>1, RequestKept, OwnPayment
<1>2. request' = request \/ (\E u \in Users : Checkouts(u)) \/ (\E r \in Requests : Changes(r))
  BY RequestSteps
<1> QED
  BY <1>1, <1>2, CheckoutFits, ChangeFits

\* A step of the webhook: a payment that has succeeded backs its subscription.
LEMMA HooksFit ==
  ASSUME Shaped, Fits, [Next]_vars
  PROVE  \A h \in Hooks : HookFits(hook[h])'
<1> DEFINE OK == \A h \in Hooks : HookFits(hook[h])'
<1>1. ASSUME NEW h \in Hooks
      PROVE  isProcess(hook[h]) /\ HookFits(hook[h])
  BY <1>1 DEF Shaped, ProcessesShaped, Fits
<1>2. ASSUME NEW h \in Hooks, hook'[h] = hook[h]
      PROVE  HookFits(hook[h])'
  BY <1>1, <1>2, HookKept
<1>3. ASSUME NEW h \in Hooks, NEW x, isProcess(x), Serves(h, x), HookFits(x)'
      PROVE  OK
  <2>1. hook'[h] = x /\ \A g \in Hooks \ {h} : hook'[g] = hook[g]
    BY <1>3, Serving
  <2> QED
    BY <1>2, <1>3, <2>1
<1>4. ASSUME NEW h \in Hooks, Serves(h, Idle)
      PROVE  OK
  BY <1>3, <1>4, Idles DEF HookFits, Idle
<1>5. hook' = hook => OK
  BY <1>2
<1> SUFFICES OK
  OBVIOUS
<1> HIDE DEF OK
<1>6. ASSUME NEW h \in Hooks, NEW p \in PayIds, NEW q \in PayIds, NotifySucceeded(h, p, q)
      PROVE  OK
  <2>1. PICK s, b : s = payments[q].sub /\ b = (yoo[p].status = "saved")
    OBVIOUS
  <2>2. PICK x : x = [Idle EXCEPT !.at = "marking", !.pay = q, !.sub = s, !.row.method = b]
    OBVIOUS
  <2>3. Serves(h, x)
    BY <1>6, <2>1, <2>2, Zenon DEF NotifySucceeded
  <2>4. usedPay(q) /\ payments[q].sub \in {0, payments[q].for} /\ s \in 0 .. MaxSub
    BY <1>6, <2>1 DEF NotifySucceeded, notified, payExists, usedPay, Fits, TablesFit, Shaped, TablesShaped,
         isPayment
  <2>5. s # 0 => p \in receipts(s)
    BY <1>6, <2>1, <2>4 DEF NotifySucceeded, notified, receipts, Shaped, TablesShaped
  <2>6. s = 0 \/ backed(s)'
    BY <2>4, <2>5, Keeps, BillingAssumption DEF backed, SubIds
  <2>7. x.at = "marking" /\ x.pay = q /\ x.sub = s
    BY <2>2 DEF Idle
  <2>8. isProcess(x)
    <3>1. b \in BOOLEAN
      BY <2>1
    <3>2. [NoSub EXCEPT !.method = b] \in Rows
      BY <3>1 DEF NoSub, Rows
    <3>3. q \in 0 .. MaxPay
      BY BillingAssumption DEF PayIds
    <3> QED
      BY <2>2, <2>4, <3>2, <3>3 DEF isProcess, Idle
  <2>9. usedPay(q)' /\ payments'[q].for = payments[q].for
    BY <2>4, Keeps
  <2>10. HookFits(x)'
    BY <2>1, <2>4, <2>6, <2>7, <2>9 DEF HookFits
  <2> QED
    BY <1>3, <2>3, <2>8, <2>10
<1>7. ASSUME NEW h \in Hooks, NEW p \in PayIds, NEW q \in PayIds, NotifyCanceled(h, p, q)
      PROVE  OK
  <2>1. PICK s : s = payments[q].sub
    OBVIOUS
  <2>2. PICK x : x = [Idle EXCEPT !.at = "failing", !.pay = q, !.sub = s]
    OBVIOUS
  <2>3. Serves(h, x)
    BY <1>7, <2>1, <2>2 DEF NotifyCanceled
  <2>4. usedPay(q) /\ payments[q].sub \in {0, payments[q].for} /\ s \in 0 .. MaxSub
    BY <1>7, <2>1 DEF NotifyCanceled, notified, payExists, usedPay, Fits, TablesFit, Shaped, TablesShaped, isPayment
  <2>5. q \in 0 .. MaxPay
    BY BillingAssumption DEF PayIds
  <2>6. isProcess(x) /\ x.at = "failing" /\ x.pay = q /\ x.sub = s
    BY <2>2, <2>4, <2>5, Idles DEF isProcess
  <2>7. usedPay(q)' /\ payments'[q].for = payments[q].for
    BY <2>4, Keeps
  <2>8. HookFits(x)'
    BY <2>1, <2>4, <2>6, <2>7 DEF HookFits
  <2> QED
    BY <1>3, <2>3, <2>6, <2>8
<1>8. ASSUME NEW h \in Hooks, MarkSuccess(h)
      PROVE  OK
  <2>1. PICK k, x : k = hook[h] /\ x = [k EXCEPT !.at = "reading"]
    OBVIOUS
  <2>2. isProcess(x) /\ x.at = "reading" /\ x.sub = k.sub /\ k.sub \in 0 .. MaxSub
    BY <1>1, <2>1 DEF isProcess
  <2>3. Serves(h, Idle) \/ (Serves(h, x) /\ k.sub # 0)
    BY <1>8, <2>1 DEF MarkSuccess
  <2>4. k.sub # 0 => backed(k.sub)'
    BY <1>1, <1>8, <2>1, <2>2, Keeps, BillingAssumption DEF HookFits, MarkSuccess, SubIds
  <2>5. k.sub # 0 => HookFits(x)'
    BY <2>2, <2>4 DEF HookFits
  <2> QED
    BY <1>3, <1>4, <2>2, <2>3, <2>5
<1>9. ASSUME NEW h \in Hooks, ReadSubscription(h)
      PROVE  OK
  <2>1. PICK k : k = hook[h]
    OBVIOUS
  <2>2. PICK row : row = [subs[k.sub] EXCEPT !.status = "active", !.end = now + Month, !.method = @ \/ k.row.method]
    OBVIOUS
  <2>3. PICK x : x = [k EXCEPT !.at = "activating", !.row = row, !.plan = row.plan]
    OBVIOUS
  <2>4. CASE subExists(k.sub)
    <3>1. k.sub \in SubIds /\ usedSub(k.sub) /\ backed(k.sub) /\ now + Month \in Nat
      BY <1>1, <1>9, <2>1, <2>4, BillingAssumption
      DEF subExists, SubIds, isProcess, Shaped, ProcessesShaped, usedSub, HookFits, ReadSubscription
    <3>2. row \in Rows /\ row.status = "active" /\ row.user = subs[k.sub].user
      <4>1. subs[k.sub] \in Rows /\ k.row.method \in BOOLEAN
        BY <1>1, <2>1, <3>1, Copies DEF isProcess, Rows, Shaped
      <4> QED
        BY <2>2, <3>1, <4>1 DEF Rows
    <3>3. holds(k.sub, row)' /\ backed(k.sub)'
      <4>1. holds(k.sub, row)
        BY <3>1, <3>2 DEF holds, fits
      <4> QED
        BY <3>1, <4>1, Keeps
    <3>4. isProcess(x) /\ x.at = "activating" /\ x.sub = k.sub /\ x.row = row
      BY <1>1, <2>1, <2>3, <3>2 DEF isProcess, Rows
    <3>5. HookFits(x)'
      BY <3>3, <3>4 DEF HookFits
    <3>6. Serves(h, x)
      BY <1>9, <2>1, <2>2, <2>3, <2>4 DEF ReadSubscription
    <3> QED
      BY <1>3, <3>4, <3>5, <3>6
  <2> QED
    BY <1>4, <1>9, <2>1, <2>4 DEF ReadSubscription
<1>10. ASSUME NEW h \in Hooks, Activate(h)
       PROVE  OK
  <2>1. PICK k, x : k = hook[h] /\ x = [k EXCEPT !.at = "upgrading"]
    OBVIOUS
  <2>2. isProcess(x) /\ x.at = "upgrading" /\ x.sub = k.sub /\ x.row = k.row
    BY <1>1, <2>1 DEF isProcess
  <2>3. holds(k.sub, k.row)' /\ backed(k.sub)'
    <3>1. holds(k.sub, k.row) /\ backed(k.sub) /\ k.sub \in SubIds
      BY <1>1, <1>10, <2>1 DEF Activate, HookFits, holds, usedSub
    <3> QED
      BY <3>1, Keeps
  <2>4. HookFits(x)' /\ Serves(h, x)
    BY <1>10, <2>1, <2>2, <2>3 DEF HookFits, Activate
  <2> QED
    BY <1>3, <2>2, <2>4
<1>11. ASSUME NEW h \in Hooks, Upgrade(h) \/ MarkFailed(h)
       PROVE  OK
  BY <1>4, <1>11 DEF Upgrade, MarkFailed
<1> QED
  BY HookSteps, <1>5, <1>6, <1>7, <1>8, <1>9, <1>10, <1>11 DEF Notified

\* The scheduler does not move: what it relies on is kept.
LEMMA SchedKept ==
  ASSUME Shaped, Fits, FreshInv, [Next]_vars, UNCHANGED <<sched, list>>
  PROVE  SchedFits'
<1>1. SchedFits /\ isProcess(sched)
  BY DEF Fits, Shaped, ProcessesShaped
<1>2. \A e \in list : holds(e.sub, e.row) => holds(e.sub, e.row)'
  BY Keeps
<1>3. sched.at \in renewal => holds(sched.sub, sched.row)' /\ backed(sched.sub)'
  <2>1. PICK s, row : s = sched.sub /\ row = sched.row
    OBVIOUS
  <2>2. sched.at \in renewal => holds(s, row)' /\ backed(s)'
    BY <1>1, <2>1, Keeps DEF SchedFits, holds, usedSub
  <2> QED
    BY <2>1, <2>2
<1>4. sched.at \in underway => bills(sched.pay, sched.sub)'
  <2>1. PICK s, p : s = sched.sub /\ p = sched.pay
    OBVIOUS
  <2>2. sched.at \in underway => bills(p, s)'
    BY <1>1, <2>1, Keeps DEF SchedFits
  <2> QED
    BY <2>1, <2>2
<1>5. sched.at = "calling" => yoo'[sched.pay] = yoo[sched.pay]
  <2> SUFFICES ASSUME sched.at = "calling"
               PROVE  yoo'[sched.pay] = yoo[sched.pay]
    OBVIOUS
  <2>1. bills(sched.pay, sched.sub) /\ sched.pay \in PayIds /\ yoo[sched.pay].status = "none"
    BY <1>1 DEF SchedFits, bills, usedPay, underway
  <2>2. ASSUME NEW z \in PayIds, Settle(z)
        PROVE  yoo'[sched.pay] = yoo[sched.pay]
    BY <2>1, <2>2 DEF Settle, Shaped, TablesShaped
  <2>3. ASSUME NEW u \in Users, CallYooKassa(u) \/ SavePayment(u)
        PROVE  yoo'[sched.pay] = yoo[sched.pay]
    <3>1. /\ u \in Requests /\ bills(request[u].pay, request[u].sub)
          /\ request[u].at \in {"calling", "saving"}
      BY <2>3 DEF CallYooKassa, SavePayment, Requests, Fits, RequestFits
    <3>2. request[u].sub # sched.sub
      BY <3>1 DEF FreshInv, New, checkout, renewal
    <3>3. request[u].pay # sched.pay
      BY <2>1, <3>1, <3>2 DEF bills
    <3> QED
      BY <2>1, <2>3, <3>3 DEF CallYooKassa, SavePayment, Shaped, TablesShaped
  <2>4. ~CallAutopayment
    BY <1>1 DEF CallAutopayment, isProcess
  <2> QED
    BY YooSteps, <2>2, <2>3, <2>4
<1>6. sched.at = "planning" => \E s \in SubIds : /\ usedSub(s)' /\ subs'[s].user = sched.row.user
                                              /\ backed(s)'
  BY <1>1, Keeps, SubsStep DEF SchedFits, SubsGrow, SubsKept
<1> QED
  BY <1>1, <1>2, <1>3, <1>4, <1>5, <1>6 DEF SchedFits

\* A step of the scheduler: the rows it reads fit, and it renews what is active.
LEMMA SchedFit ==
  ASSUME Shaped, Fits, FreshInv, [Next]_vars
  PROVE  SchedFits'
<1>0. SchedFits /\ isProcess(sched)
  BY DEF Fits, Shaped, ProcessesShaped
<1>a. \A e \in list : holds(e.sub, e.row)'
  BY <1>0, Keeps DEF SchedFits
<1>b. ASSUME NEW at, sched' = [Idle EXCEPT !.at = at]
      PROVE  sched'.at = at
  BY <1>b DEF Idle
\* On with another task.
<1>1. ASSUME NEW at, NEW S \in SUBSET SubIds, Begin(at, S), at \notin renewal, at # "planning",
             \A s \in S : /\ usedSub(s)
                          /\ at = "renewing" => subs[s].status = "active"
                          /\ at = "changing" => subs[s].next # None
      PROVE  SchedFits'
  <2>1. \A s \in S : fits(s, subs[s])
    BY DEF Fits, TablesFit
  <2>2. \A e \in rows(S) : /\ holds(e.sub, e.row)
                           /\ at = "renewing" => e.row.status = "active"
                           /\ at = "changing" => e.row.next # None
    BY <1>1, <2>1 DEF rows, holds, usedSub
  <2>3. list' = rows(S) /\ sched'.at = at
    BY <1>1, <1>b DEF Begin
  <2>4. \A e \in list' : holds(e.sub, e.row)'
    BY <2>2, <2>3, Keeps
  <2> QED
    BY <1>1, <2>2, <2>3, <2>4 DEF SchedFits, renewal, underway
\* Or with the rest of the list.
<1>2. ASSUME NEW at, Resume(at), at \notin renewal, at # "planning",
             at = "renewing" => \A e \in list : e.row.status = "active",
             at = "changing" => \A e \in list : e.row.next # None
      PROVE  SchedFits'
  BY <1>2, <1>a, <1>b DEF Resume, SchedFits, renewal, underway
<1>3. ASSUME NEW e \in list, Expire(e)
      PROVE  SchedFits'
  <2>1. sched'.at = "downgrading" /\ list' \subseteq list
    BY <1>0, <1>3 DEF Expire, isProcess
  <2> QED
    BY <1>a, <2>1 DEF SchedFits, renewal, underway
<1>4. ASSUME NEW e \in list, Renew(e)
      PROVE  SchedFits'
  <2>1. list' \subseteq list /\ \A d \in list : d.row.status = "active"
    BY <1>0, <1>4 DEF Renew, SchedFits
  <2>2. CASE sched' = sched
    <3>1. sched'.at = "renewing"
      BY <1>4, <2>2 DEF Renew
    <3> QED
      BY <1>a, <2>1, <3>1 DEF SchedFits, renewal, underway
  <2>3. CASE sched' # sched
    <3>1. sched'.at = "billing" /\ sched'.sub = e.sub /\ sched'.row = e.row
      BY <1>0, <1>4, <2>3 DEF Renew, isProcess
    <3>2. holds(e.sub, e.row)' /\ backed(e.sub)'
      BY <1>0, <1>a, <2>1, Keeps DEF SchedFits, holds, fits, usedSub
    <3>3. holds(sched.sub, sched.row)' /\ backed(sched.sub)'
      BY <3>1, <3>2
    <3> QED
      BY <1>a, <2>1, <3>1, <3>3 DEF SchedFits, renewal, underway
  <2> QED
    BY <2>2, <2>3
<1>5. ASSUME NEW e \in list, ApplyChange(e)
      PROVE  SchedFits'
  <2>1. list' \subseteq list /\ (\A d \in list : d.row.next # None) /\ sched'.at = "planning" /\ sched'.row = e.row
    BY <1>0, <1>5 DEF ApplyChange, SchedFits, isProcess
  <2>2. e.sub \in SubIds /\ usedSub(e.sub) /\ backed(e.sub) /\ subs[e.sub].user = e.row.user
    BY <1>0, <2>1 DEF SchedFits, holds, fits, usedSub
  <2>3. usedSub(e.sub)' /\ backed(e.sub)' /\ subs'[e.sub].user = e.row.user
    BY <2>2, Keeps, SubsStep DEF SubsGrow, SubsKept
  <2> QED
    BY <1>a, <2>1, <2>2, <2>3 DEF SchedFits, renewal, underway
<1>6. CASE BillRenewal
  <2>1. /\ holds(sched.sub, sched.row) /\ backed(sched.sub) /\ sched.sub \in SubIds
        /\ \A e \in list : e.row.status = "active"
    BY <1>0, <1>6 DEF BillRenewal, SchedFits, renewal, holds, usedSub
  <2>2. CASE canPay(sched.sub, sched.invoice)
    <3>1. PICK n, s, i, row : n = nextId(payments) /\ s = sched.sub /\ i = sched.invoice /\ row = sched.row
      OBVIOUS
    <3>2. s \in 0 .. MaxSub /\ canPay(s, i) /\ Pay(s, i) /\ yoo' = yoo
      BY <1>0, <1>6, <2>2, <3>1 DEF BillRenewal, isProcess
    <3>3. n \in PayIds /\ payments[n].status = "unused"
      BY <3>1, <3>2, NextIsUnused DEF Shaped, TablesShaped, canPay
    <3>4. payments'[n].for = s /\ payments'[n].status = "pending" /\ yoo'[n].status = "none"
      BY <3>1, <3>2, <3>3, Paid DEF Shaped, Fits, TablesFit
    <3>5. sched'.at = "calling" /\ sched'.pay = n /\ sched'.sub = s /\ sched'.row = row /\ list' = list
      BY <1>0, <1>6, <2>2, <3>1 DEF BillRenewal, isProcess
    <3>6. holds(s, row)' /\ backed(s)' /\ bills(n, s)'
      BY <2>1, <3>1, <3>3, <3>4, Keeps DEF bills, usedPay
    <3>7. holds(sched.sub, sched.row)' /\ backed(sched.sub)' /\ bills(sched.pay, sched.sub)'
      BY <3>5, <3>6
    <3> QED
      BY <1>a, <2>1, <3>4, <3>5, <3>7 DEF SchedFits, renewal
  <2>3. CASE ~canPay(sched.sub, sched.invoice)
    <3>1. Resume("renewing")
      BY <1>6, <2>3 DEF BillRenewal
    <3> QED
      BY <1>2, <2>1, <3>1 DEF renewal
  <2> QED
    BY <2>2, <2>3
\* On with the same renewal.
<1>7. ASSUME sched.at \in {"calling", "charged", "marking"}, list' = list,
             sched'.at \in {"refused", "charged", "marking", "extending"},
             sched'.sub = sched.sub, sched'.row = sched.row, sched'.pay = sched.pay
      PROVE  SchedFits'
  <2>1. PICK s, row, p : s = sched.sub /\ row = sched.row /\ p = sched.pay
    OBVIOUS
  <2>2. holds(s, row)' /\ backed(s)' /\ bills(p, s)' /\ \A e \in list : e.row.status = "active"
    BY <1>0, <1>7, <2>1, Keeps DEF SchedFits, renewal, holds, usedSub, underway
  <2>3. holds(sched.sub, sched.row)' /\ backed(sched.sub)' /\ bills(sched.pay, sched.sub)'
    BY <1>7, <2>1, <2>2
  <2> QED
    BY <1>7, <1>a, <2>2, <2>3 DEF SchedFits, renewal
<1>8. CASE CallAutopayment
  <2>1. \/ sched' = [sched EXCEPT !.at = "refused"]
        \/ \E at \in {"refused", "charged"} : \E b : sched' = [sched EXCEPT !.at = at, !.paid = b]
    BY <1>8, Zenon DEF CallAutopayment
  <2>2. /\ sched'.at \in {"refused", "charged"}
        /\ sched'.sub = sched.sub /\ sched'.row = sched.row /\ sched'.pay = sched.pay
    BY <1>0, <2>1 DEF isProcess
  <2> QED
    BY <1>7, <1>8, <2>2 DEF CallAutopayment
<1>9. CASE SaveRenewal \/ MarkRenewal
  <2>1. CASE Resume("renewing")
    <3>1. \A e \in list : e.row.status = "active"
      BY <1>0, <1>9 DEF SaveRenewal, MarkRenewal, SchedFits, renewal
    <3> QED
      BY <1>2, <2>1, <3>1 DEF renewal
  <2>2. CASE ~Resume("renewing")
    <3>1. /\ sched.at \in {"charged", "marking"} /\ list' = list
          /\ sched'.at \in {"marking", "extending"}
          /\ sched'.sub = sched.sub /\ sched'.row = sched.row /\ sched'.pay = sched.pay
      BY <1>0, <1>9, <2>2 DEF SaveRenewal, MarkRenewal, isProcess
    <3> QED
      BY <1>7, <3>1
  <2> QED
    BY <2>1, <2>2
<1>10. CASE FailRenewal \/ ExtendPeriod
  <2>1. Resume("renewing") /\ \A e \in list : e.row.status = "active"
    BY <1>0, <1>10 DEF FailRenewal, ExtendPeriod, SchedFits, renewal
  <2> QED
    BY <1>2, <2>1 DEF renewal
<1>11. CASE ChangeUserPlan
  <2>1. Resume("changing") /\ \A e \in list : e.row.next # None
    BY <1>0, <1>11 DEF ChangeUserPlan, SchedFits
  <2> QED
    BY <1>2, <2>1 DEF renewal
<1>12. CASE Downgrade \/ DeleteSubs \/ DeletePayments
  BY <1>2, <1>12 DEF Downgrade, DeleteSubs, DeletePayments, renewal
<1>13. CASE RunChecks \/ BeginRenewals \/ BeginChanges \/ BeginCleanup
  <2>1. \A s \in expired \cup renewable \cup changing : s \in SubIds /\ usedSub(s)
    BY DEF expired, renewable, changing, usedSub, subExists
  <2>2. /\ \A s \in renewable : subs[s].status = "active"
        /\ \A s \in changing : subs[s].next # None
    BY DEF renewable, changing
  <2>3. RunChecks => SchedFits'
    BY <1>1, <2>1 DEF RunChecks, renewal
  <2>4. BeginRenewals => SchedFits'
    BY <1>1, <2>1, <2>2 DEF BeginRenewals, renewal
  <2>5. BeginChanges => SchedFits'
    BY <1>1, <2>1, <2>2 DEF BeginChanges, renewal
  <2>6. BeginCleanup => SchedFits'
    BY <1>1 DEF BeginCleanup, renewal
  <2> QED
    BY <1>13, <2>3, <2>4, <2>5, <2>6
<1>14. CASE Checks
  BY <1>3, <1>4, <1>5, <1>6, <1>8, <1>9, <1>10, <1>11, <1>12, <1>13, <1>14 DEF Checks
<1>15. CASE UNCHANGED <<sched, list>>
  BY <1>15, SchedKept
<1> QED
  BY SchedSteps, <1>14, <1>15

\* The plan of a user changes to the free one, or to one that he has a backed
\* subscription for or an admin has chosen.
LEMMA PlanStep ==
  ASSUME Shaped, Fits, [Next]_vars
  PROVE  /\ userPlan' \in [Users -> Plans \cup {Free, None}]
         /\ \A u \in Users : userPlan'[u] \in {userPlan[u], Free} \/ entitled(u)
<1> DEFINE OK == /\ userPlan' \in [Users -> Plans \cup {Free, None}]
                 /\ \A u \in Users : userPlan'[u] \in {userPlan[u], Free} \/ entitled(u)
<1>1. userPlan' = userPlan => OK
  BY DEF Shaped, TablesShaped
<1>2. ASSUME NEW w, NEW plan \in Plans \cup {Free, None}, userPlan' = [userPlan EXCEPT ![w] = plan],
             plan = Free \/ entitled(w)
      PROVE  OK
  BY <1>2 DEF Shaped, TablesShaped
<1>a. ASSUME NEW s \in SubIds, NEW w, subs[s].user = w, backed(s)
      PROVE  entitled(w)
  BY <1>a DEF entitled, Shaped, TablesShaped
<1> SUFFICES OK
  OBVIOUS
<1> HIDE DEF OK
<1>3. ASSUME NEW r \in Requests, SetUserPlan(r)
      PROVE  OK
  <2>1. RequestFits(request[r]) /\ isProcess(request[r])
    BY DEF Fits, Shaped, ProcessesShaped
  <2>2. CASE request[r].at = "planning"
    <3>1. /\ holds(request[r].sub, request[r].row)
          /\ request[r].plan # Free => backed(request[r].sub)
      BY <2>1, <2>2 DEF RequestFits
    <3>2. request[r].sub \in SubIds /\ subs[request[r].sub].user = request[r].row.user
      BY <3>1 DEF holds, fits, usedSub
    <3> QED
      BY <1>2, <1>3, <1>a, <2>1, <3>1, <3>2 DEF SetUserPlan, isProcess
  <2>3. CASE request[r].at = "updating"
    <3>1. request[r].plan = Free \/ entitled(request[r].row.user)
      BY <2>1, <2>3 DEF RequestFits
    <3> QED
      BY <1>2, <1>3, <2>1, <3>1 DEF SetUserPlan, isProcess
  <2> QED
    BY <1>3, <2>2, <2>3 DEF SetUserPlan
<1>4. ASSUME NEW h \in Hooks, Upgrade(h)
      PROVE  OK
  <2>1. holds(hook[h].sub, hook[h].row) /\ backed(hook[h].sub)
    BY <1>4 DEF Fits, HookFits, Upgrade
  <2>2. hook[h].sub \in SubIds /\ subs[hook[h].sub].user = hook[h].row.user
    BY <2>1 DEF holds, fits, usedSub
  <2>3. hook[h].plan \in Plans \cup {Free, None}
    BY DEF Shaped, ProcessesShaped, isProcess
  <2> QED
    BY <1>2, <1>4, <1>a, <2>1, <2>2, <2>3 DEF Upgrade
<1>5. CASE Downgrade
  BY <1>2, <1>5 DEF Downgrade
<1>6. CASE ChangeUserPlan
  <2>1. \E s \in SubIds : usedSub(s) /\ subs[s].user = sched.row.user /\ backed(s)
    BY <1>6 DEF Fits, SchedFits, ChangeUserPlan
  <2>2. sched.row.next \in Plans \cup {Free, None}
    BY DEF Shaped, ProcessesShaped, isProcess, Rows
  <2> QED
    BY <1>2, <1>6, <1>a, <2>1, <2>2 DEF ChangeUserPlan
<1>7. ASSUME NEW r \in Requests, Changes(r), ~SetUserPlan(r)
      PROVE  userPlan' = userPlan
  BY <1>7 DEF Changes, Cancel, ChangePlan, AdminCancel, AdminExtend, UpdateUser, UpdatePlan, WriteSubscription,
              tables
<1>8. ASSUME NEW h \in Hooks, Notified(h), ~Upgrade(h)
      PROVE  userPlan' = userPlan
  BY <1>8 DEF Notified, NotifySucceeded, NotifyCanceled, MarkSuccess, ReadSubscription, Activate, MarkFailed, tables
<1>9. ASSUME NEW u \in Users, Checkouts(u)
      PROVE  userPlan' = userPlan
  BY <1>9 DEF Checkouts, Checkout, CreateSubscription, CreatePayment, CallYooKassa, SavePayment, tables
<1>10. ASSUME Checks, ~Downgrade, ~ChangeUserPlan
       PROVE  userPlan' = userPlan
  BY <1>10 DEF Checks, Expire, Renew, ApplyChange, RunChecks, BeginRenewals, BillRenewal, CallAutopayment,
       FailRenewal,
              SaveRenewal, MarkRenewal, ExtendPeriod, BeginChanges, BeginCleanup, DeleteSubs, DeletePayments, tables
<1>11. Tick \/ UNCHANGED vars \/ (\E p \in PayIds : Settle(p)) => userPlan' = userPlan
  BY DEF Tick, Settle, vars, tables
<1> QED
  BY Steps, <1>1, <1>3, <1>4, <1>5, <1>6, <1>7, <1>8, <1>9, <1>10, <1>11

LEMMA TablesFitStep ==
  ASSUME Shaped, Fits, [Next]_vars
  PROVE  TablesFit'
<1> USE DEF TablesFit
<1>0. TablesFit
  BY DEF Fits
<1>1. ASSUME NEW s \in SubIds
      PROVE  fits(s, subs[s])'
  <2>1. PICK row : row = subs'[s]
    OBVIOUS
  <2>2. row \in Rows /\ (row.status = "active" \/ row.next # None => backed(s)')
    BY <2>1, SubsStep, Keeps DEF SubsGrow
  <2> QED
    BY <2>1, <2>2 DEF fits
<1>2. \A s \in SubIds : subs'[s].status = "unused" => subs'[s].user = None
  BY <1>0, SubsStep DEF SubsGrow
<1>3. \A p \in PayIds : payments'[p].status = "unused" =>
        payments'[p].for = 0 /\ payments'[p].sub = 0 /\ yoo'[p].status = "none"
  BY <1>0, PaymentsStep, YooStep DEF PaymentsGrow, YooGrow, usedPay
<1>4. ASSUME NEW p \in PayIds
      PROVE  /\ payments'[p].sub \in {0, payments'[p].for}
             /\ payments'[p].for # 0 => usedSub(payments[p].for)'
  <2>1. PICK s : s = payments'[p].for
    OBVIOUS
  <2>2. payments'[p].sub \in {0, s} /\ (s # 0 => usedSub(s)')
    BY <2>1, PaymentsStep, Keeps DEF PaymentsGrow
  <2> QED
    BY <2>1, <2>2
<1>5. ASSUME NEW u \in Users, userPlan'[u] # Free
      PROVE  entitled(u)'
  BY <1>0, <1>5, PlanStep, Keeps
<1> QED
  BY <1>1, <1>2, <1>3, <1>4, <1>5

\* Two of the three parts of the invariant are preserved.
LEMMA FitsStep ==
  ASSUME Shaped, Fits, FreshInv, [Next]_vars
  PROVE  Fits'
BY TablesFitStep, RequestsFit, HooksFit, SchedFit, RequestsShaped, HooksShaped DEF Fits

\* Time passes only when nobody is at work.
LEMMA Clock ==
  ASSUME [Next]_vars
  PROVE  now' = now \/ Tick
<1>1. ASSUME NEW r \in Requests, Changes(r)
      PROVE  now' = now
  BY <1>1 DEF Changes, Cancel, ChangePlan, AdminCancel, AdminExtend, UpdateUser, UpdatePlan, WriteSubscription,
              SetUserPlan
<1>2. ASSUME NEW u \in Users, Checkouts(u)
      PROVE  now' = now
  BY <1>2 DEF Checkouts, Checkout, CreateSubscription, CreatePayment, CallYooKassa, SavePayment
<1>3. ASSUME NEW h \in Hooks, Notified(h)
      PROVE  now' = now
  BY <1>3 DEF Notified, NotifySucceeded, NotifyCanceled, MarkSuccess, ReadSubscription, Activate, Upgrade,
              MarkFailed
<1>4. Checks \/ UNCHANGED vars \/ (\E p \in PayIds : Settle(p)) => now' = now
  BY DEF Checks, Expire, Renew, ApplyChange, RunChecks, Downgrade, BeginRenewals, BillRenewal, CallAutopayment,
         FailRenewal, SaveRenewal, MarkRenewal, ExtendPeriod, BeginChanges, ChangeUserPlan, BeginCleanup,
         DeleteSubs, DeletePayments, Settle, vars
<1> QED
  BY Steps, <1>1, <1>2, <1>3, <1>4

LEMMA ShapedStep ==
  ASSUME Shaped, Fits, [Next]_vars
  PROVE  Shaped'
<1>1. TablesShaped'
  BY SubsStep, PaymentsStep, YooStep, PlanStep DEF TablesShaped, SubsGrow, PaymentsGrow, YooGrow
<1>2. now' \in Nat
  <2>1. now + 1 \in Nat /\ now \in Nat
    BY DEF Shaped, ProcessesShaped
  <2> QED
    BY <2>1, Clock DEF Tick
<1>3. ProcessesShaped'
  BY <1>2, RequestsShaped, HooksShaped, SchedShaped DEF ProcessesShaped
<1> QED
  BY <1>1, <1>3 DEF Shaped

-----------------------------------------------------------------------------
(* A new subscription stays new until its checkout is over.                   *)

\* How a request gets where it is.
LEMMA Moves ==
  ASSUME Shaped, [Next]_vars, NEW r \in Requests
  PROVE  request'[r] = request[r] \/ (r \in Users /\ Checkouts(r)) \/ Changes(r)
<1>1. ASSUME NEW u \in Users, Checkouts(u), u # r
      PROVE  request'[r] = request[r]
  BY <1>1 DEF Checkouts, Checkout, CreateSubscription, CreatePayment, CallYooKassa, SavePayment, Does,
              Shaped, ProcessesShaped
<1>2. ASSUME NEW q \in Requests, Changes(q), q # r
      PROVE  request'[r] = request[r]
  BY <1>2 DEF Changes, Cancel, ChangePlan, AdminCancel, AdminExtend, UpdateUser, UpdatePlan, WriteSubscription,
              SetUserPlan, Does,
              Shaped, ProcessesShaped
<1> QED
  BY RequestSteps, <1>1, <1>2

\* What a request is at after a step of its own.
\* The INSERT succeeds, or the request is over.
LEMMA Creates ==
  ASSUME Shaped, NEW r \in Requests
  PROVE  /\ CreateSubscription(r) =>
              \/ request'[r] = Idle
              \/ room(subs) /\ request'[r].at = "billing" /\ request'[r].sub = nextId(subs)
         /\ CreatePayment(r) =>
              \/ request'[r] = Idle
              \/ /\ canPay(request[r].sub, request[r].invoice)
                 /\ request[r].at = "billing" /\ request'[r].at = "calling"
                 /\ request'[r].sub = request[r].sub /\ request'[r].pay = nextId(payments)
<1>1. r \in DOMAIN request /\ isProcess(request[r])
  BY DEF Shaped, ProcessesShaped
<1>2. ASSUME CreateSubscription(r), request'[r] # Idle
      PROVE  room(subs) /\ request'[r].at = "billing" /\ request'[r].sub = nextId(subs)
  <2>1. PICK n, x : n = nextId(subs) /\ x = [request[r] EXCEPT !.at = "billing", !.sub = n]
    OBVIOUS
  <2>2. room(subs) /\ Does(r, x)
    <3>1. room(subs)
      BY <1>1, <1>2 DEF CreateSubscription, Does
    <3> QED
      BY <1>2, <2>1, <3>1 DEF CreateSubscription
  <2>3. request'[r] = x
    BY <1>1, <2>2 DEF Does
  <2> QED
    BY <1>1, <2>1, <2>2, <2>3 DEF isProcess
<1>3. ASSUME CreatePayment(r), request'[r] # Idle
      PROVE  /\ canPay(request[r].sub, request[r].invoice)
             /\ request[r].at = "billing" /\ request'[r].at = "calling"
             /\ request'[r].sub = request[r].sub /\ request'[r].pay = nextId(payments)
  <2>1. PICK n, x : n = nextId(payments) /\ x = [request[r] EXCEPT !.at = "calling", !.pay = n]
    OBVIOUS
  <2>2. canPay(request[r].sub, request[r].invoice) /\ Does(r, x)
    <3>1. canPay(request[r].sub, request[r].invoice)
      BY <1>1, <1>3 DEF CreatePayment, Does
    <3> QED
      BY <1>3, <2>1, <3>1 DEF CreatePayment
  <2>3. request'[r] = x
    BY <1>1, <2>2 DEF Does
  <2>4. request[r].at = "billing"
    BY <1>3 DEF CreatePayment
  <2> QED
    BY <1>1, <2>1, <2>2, <2>3, <2>4 DEF isProcess
<1> QED
  BY <1>2, <1>3

LEMMA Ats ==
  ASSUME Shaped, NEW r \in Requests
  PROVE  /\ r \in Users /\ Checkouts(r) => request'[r].at \in checkout \cup {"subscribing", "idle"}
         /\ Changes(r) => request'[r].at \in {"writing", "planning", "updating", "idle"}
<1>0. r \in DOMAIN request /\ isProcess(request[r])
  BY DEF Shaped, ProcessesShaped
<1>3. ASSUME NEW plan, NEW recurring, Checkout(r, plan, recurring)
      PROVE  request'[r].at = "subscribing"
  <2>1. PICK x : /\ x = [Idle EXCEPT !.at = "subscribing", !.invoice = nextInvoice,
                                     !.row = [NoSub EXCEPT !.user = r, !.plan = plan, !.status = "pending",
                                                           !.recurring = recurring]]
                 /\ request' = [request EXCEPT ![r] = x]
    BY <1>3 DEF Checkout, Does
  <2>2. x.at = "subscribing"
    BY <2>1 DEF Idle
  <2> QED
    BY <1>0, <2>1, <2>2
<1>4. CreateSubscription(r) => request'[r].at \in {"billing", "idle"}
  BY Creates DEF Idle
<1>5. CreatePayment(r) => request'[r].at \in {"calling", "idle"}
  BY Creates DEF Idle
<1>6. CallYooKassa(r) => request'[r].at \in {"saving", "idle"}
  BY <1>0 DEF CallYooKassa, Does, Idle, isProcess
<1>7. SavePayment(r) => request'[r].at = "idle"
  BY <1>0 DEF SavePayment, Does, Idle
<1>8. ASSUME NEW s, NEW plan, ChangePlan(r, s, plan)
      PROVE  request'[r].at = "writing"
  BY <1>0, <1>8 DEF ChangePlan, Does, Idle
<1>9. ASSUME NEW s, Cancel(r, s) \/ AdminCancel(r, s) \/ AdminExtend(r, s)
      PROVE  request'[r].at = "writing"
  <2>1. Cancel(r, s) => request'[r].at = "writing"
    BY <1>0 DEF Cancel, Does, Idle
  <2>2. AdminCancel(r, s) => request'[r].at = "writing"
    BY <1>0 DEF AdminCancel, Does, Idle
  <2>3. AdminExtend(r, s) => request'[r].at = "writing"
    BY <1>0 DEF AdminExtend, Does, Idle
  <2> QED
    BY <1>9, <2>1, <2>2, <2>3
<1>10. WriteSubscription(r) \/ SetUserPlan(r) => request'[r].at \in {"planning", "idle"}
  BY <1>0 DEF WriteSubscription, SetUserPlan, Does, Idle, isProcess
<1>13. ASSUME NEW u, UpdateUser(r, u) \/ \E plan \in Plans \cup {Free} : UpdatePlan(r, u, plan)
       PROVE  request'[r].at = "updating"
  BY <1>0, <1>13 DEF UpdateUser, UpdatePlan, Does, Idle
<1>11. r \in Users /\ Checkouts(r) => request'[r].at \in checkout \cup {"subscribing", "idle"}
  BY <1>3, <1>4, <1>5, <1>6, <1>7 DEF Checkouts, checkout
<1>12. Changes(r) => request'[r].at \in {"writing", "planning", "updating", "idle"}
  BY <1>8, <1>9, <1>10, <1>13 DEF Changes
<1> QED
  BY <1>11, <1>12

\* A request in its checkout has created the subscription just now, or had it.
LEMMA CheckoutMoves ==
  ASSUME Shaped, [Next]_vars, NEW r \in Requests, request'[r].at \in checkout
  PROVE  \/ /\ r \in Users /\ CreateSubscription(r) /\ room(subs)
            /\ request'[r].at = "billing" /\ request'[r].sub = nextId(subs)
         \/ /\ request[r].at \in checkout /\ request'[r].sub = request[r].sub
            /\ \/ request'[r] = request[r]
               \/ /\ r \in Users /\ CreatePayment(r) /\ canPay(request[r].sub, request[r].invoice)
                  /\ request[r].at = "billing" /\ request'[r].at = "calling"
                  /\ request'[r].pay = nextId(payments)
               \/ request[r].at = "calling" /\ request'[r].at = "saving" /\ request'[r].pay = request[r].pay
<1>1. r \in DOMAIN request /\ isProcess(request[r])
  BY DEF Shaped, ProcessesShaped
<1>2. ~Changes(r)
  BY Ats DEF checkout
<1>3. ASSUME NEW plan, NEW recurring, Checkout(r, plan, recurring)
      PROVE  FALSE
  <2>1. request'[r].at = "subscribing"
    <3>1. \A i, row : [Idle EXCEPT !.at = "subscribing", !.invoice = i, !.row = row].at = "subscribing"
      BY DEF Idle
    <3> QED
      BY <1>1, <1>3, <3>1 DEF Checkout, Does
  <2> QED
    BY <2>1 DEF checkout
<1>4. ASSUME CreateSubscription(r)
      PROVE  room(subs) /\ request'[r].at = "billing" /\ request'[r].sub = nextId(subs)
  BY <1>4, Creates DEF Idle, checkout
<1>5. ASSUME CreatePayment(r)
      PROVE  /\ request[r].at = "billing" /\ request'[r].at = "calling"
             /\ request'[r].sub = request[r].sub /\ request'[r].pay = nextId(payments)
             /\ canPay(request[r].sub, request[r].invoice)
  BY <1>5, Creates DEF Idle, checkout
<1>6. ASSUME CallYooKassa(r)
      PROVE  /\ request[r].at = "calling" /\ request'[r].at = "saving"
             /\ request'[r].sub = request[r].sub /\ request'[r].pay = request[r].pay
  BY <1>1, <1>6 DEF CallYooKassa, Does, Idle, checkout, isProcess
<1>7. ~SavePayment(r)
  BY <1>1 DEF SavePayment, Does, Idle, checkout
<1>8. request[r].at \in {"billing", "calling"} => request[r].at \in checkout
  BY DEF checkout
<1>9. request'[r] = request[r] => request[r].at \in checkout
  OBVIOUS
<1> QED
  BY Moves, <1>2, <1>3, <1>4, <1>5, <1>6, <1>7, <1>8, <1>9 DEF Checkouts

\* Whoever writes to s then had no right to make it due.
LEMMA EndKept ==
  ASSUME Shaped, Fits, FreshInv, [Next]_vars, NEW s, usedSub(s), New(s)
  PROVE  subs'[s].end = subs[s].end \/ notDue(subs'[s].end)
<1> DEFINE OK == subs'[s].end = subs[s].end \/ notDue(subs'[s].end)
<1>0. s \in SubIds /\ subs[s] \in Rows /\ subs[s].status # "unused" /\ DOMAIN subs = SubIds
  BY DEF usedSub, Shaped, TablesShaped
<1>1. ASSUME NEW u \in Users, CreateSubscription(u)
      PROVE  OK
  BY <1>0, <1>1, NextIsUnused DEF CreateSubscription
<1>2. ASSUME NEW t, NEW row, WriteSub(t, row), t = s => notDue(row.end)
      PROVE  OK
  BY <1>0, <1>2 DEF WriteSub
<1>3. ASSUME NEW r \in Requests, WriteSubscription(r)
      PROVE  OK
  BY <1>2, <1>3 DEF WriteSubscription, New
<1>4. ASSUME NEW h \in Hooks, Activate(h)
      PROVE  OK
  BY <1>2, <1>4 DEF Activate, FreshInv
<1>5. ASSUME NEW e \in list, Expire(e) \/ ApplyChange(e)
      PROVE  OK
  <2>1. e.sub # s
    BY DEF New
  <2> QED
    BY <1>2, <1>5, <2>1 DEF Expire, ApplyChange
<1>6. CASE ExtendPeriod
  <2>1. sched.sub # s
    BY <1>6 DEF New, ExtendPeriod, renewal
  <2> QED
    BY <1>2, <1>6, <2>1 DEF ExtendPeriod
<1>7. CASE DeleteSubs
  BY <1>0, <1>7 DEF DeleteSubs, Rows
<1> QED
  BY SubsSteps, <1>1, <1>3, <1>4, <1>5, <1>6, <1>7

\* The clock stands while a request is served.
LEMMA Today ==
  ASSUME [Next]_vars, Shaped, NEW r \in Requests, request[r].at \in checkout
  PROVE  now' = now
BY Clock DEF Tick, Shaped, ProcessesShaped, checkout

\* Who reads subscription s today, finds it not due.
LEMMA WritingKept ==
  ASSUME Shaped, Fits, FreshInv, [Next]_vars, NEW s \in SubIds, New(s), NEW q \in Requests,
         request'[q].at = "writing", request'[q].sub = s
  PROVE  notDue(request'[q].row.end)
<1> DEFINE OK == notDue(request'[q].row.end)
<1>0. q \in DOMAIN request /\ isProcess(request[q]) /\ subs[s] \in Rows
  BY DEF Shaped, ProcessesShaped, TablesShaped
<1>1. request'[q] = request[q] => OK
  BY DEF New
<1>2. ~(q \in Users /\ Checkouts(q))
  BY Ats DEF checkout
<1>3. ASSUME NEW t \in SubIds, Cancel(q, t)
      PROVE  OK
  <2>1. t = s /\ request'[q].row.end = subs[t].end
    BY <1>0, <1>3 DEF Cancel, Does, Idle, Rows
  <2> QED
    BY <2>1 DEF New
<1>4. ASSUME NEW t \in SubIds, NEW plan, ChangePlan(q, t, plan)
      PROVE  OK
  <2>1. t = s
    BY <1>0, <1>4 DEF ChangePlan, Does, Idle
  <2>2. request'[q].row.end = subs[t].end
    BY <1>0, <1>4, <2>1 DEF ChangePlan, Does, Idle, Rows
  <2> QED
    BY <2>1, <2>2 DEF New
<1>5. ASSUME NEW t \in SubIds, AdminCancel(q, t)
      PROVE  OK
  <2>1. t = s /\ request'[q].row.end = subs[t].end
    BY <1>0, <1>5 DEF AdminCancel, Does, Idle, Rows
  <2> QED
    BY <2>1 DEF New
<1>6. ASSUME NEW t \in SubIds, AdminExtend(q, t)
      PROVE  OK
  <2>1. t = s
    BY <1>0, <1>6 DEF AdminExtend, Does, Idle
  <2>2. request'[q].row.end = IF subs[s].end = 0 \/ over(s) THEN now + 1 ELSE subs[s].end + 1
    BY <1>0, <1>6, <2>1 DEF AdminExtend, Does, Idle, Rows
  <2>3. subs[s].end \in Nat /\ now \in Nat /\ notDue(subs[s].end)
    BY <1>0 DEF Rows, Shaped, ProcessesShaped, New
  <2> QED
    BY <2>2, <2>3 DEF notDue, over
<1>7. ASSUME NEW u, UpdateUser(q, u) \/ \E plan \in Plans \cup {Free} : UpdatePlan(q, u, plan)
      PROVE  FALSE
  BY <1>0, <1>7 DEF UpdateUser, UpdatePlan, Does, Idle
<1>8. ~WriteSubscription(q) /\ ~SetUserPlan(q)
  BY <1>0 DEF WriteSubscription, SetUserPlan, Does, Idle, isProcess
<1> QED
  BY Moves, <1>1, <1>2, <1>3, <1>4, <1>5, <1>6, <1>7, <1>8 DEF Changes

\* The scheduler picks no subscription that is not due.
LEMMA ListKept ==
  ASSUME Shaped, Fits, [Next]_vars, NEW s \in SubIds, New(s)
  PROVE  /\ \A e \in list' : e.sub # s
         /\ sched'.at \in renewal => sched'.sub # s
<1> DEFINE OK == /\ \A e \in list' : e.sub # s
                 /\ sched'.at \in renewal => sched'.sub # s
<1>0. isProcess(sched) /\ subs[s].end \in Nat /\ now \in Nat
  BY DEF Shaped, ProcessesShaped, TablesShaped, Rows
<1>1. s \notin expired \cup renewable \cup changing
  BY <1>0 DEF New, notDue, expired, renewable, changing, over
<1>2. ASSUME NEW at, NEW S, Begin(at, S), s \notin S, at \notin renewal
      PROVE  OK
  BY <1>2 DEF Begin, rows, Idle
<1>3. ASSUME list' \subseteq list,
             sched'.at \notin renewal \/ (sched.at \in renewal /\ sched'.sub = sched.sub)
      PROVE  OK
  BY <1>3 DEF New
<1>4. ASSUME NEW at, Resume(at), at \notin renewal
      PROVE  OK
  BY <1>3, <1>4 DEF Resume, Idle
<1> SUFFICES OK
  OBVIOUS
<1> HIDE DEF OK
<1>5. CASE RunChecks \/ BeginRenewals \/ BeginChanges \/ BeginCleanup
  BY <1>1, <1>2, <1>5 DEF RunChecks, BeginRenewals, BeginChanges, BeginCleanup, renewal
<1>6. ASSUME NEW e \in list, Expire(e) \/ ApplyChange(e)
      PROVE  OK
  BY <1>0, <1>3, <1>6 DEF Expire, ApplyChange, renewal, isProcess
<1>7. ASSUME NEW e \in list, Renew(e)
      PROVE  OK
  <2>1. list' \subseteq list /\ (sched' = sched \/ sched'.sub = e.sub) /\ e.sub # s
    BY <1>0, <1>7 DEF Renew, isProcess, New
  <2> QED
    BY <2>1 DEF OK, New
<1>8. CASE BillRenewal \/ SaveRenewal \/ MarkRenewal
  <2>1. Resume("renewing") \/ (list' = list /\ sched.at \in renewal /\ sched'.sub = sched.sub)
    BY <1>0, <1>8 DEF BillRenewal, SaveRenewal, MarkRenewal, renewal, isProcess
  <2> QED
    BY <1>3, <1>4, <2>1 DEF renewal
<1>9. CASE CallAutopayment
  <2>1. \/ sched' = [sched EXCEPT !.at = "refused"]
        \/ \E at, b : sched' = [sched EXCEPT !.at = at, !.paid = b]
    BY <1>9, Zenon DEF CallAutopayment
  <2>2. list' = list /\ sched.at \in renewal
    BY <1>9 DEF CallAutopayment, renewal
  <2>3. sched'.sub = sched.sub
    BY <1>0, <2>1 DEF isProcess
  <2> QED
    BY <1>3, <2>2, <2>3
<1>10. CASE FailRenewal \/ ExtendPeriod \/ Downgrade \/ ChangeUserPlan \/ DeleteSubs \/ DeletePayments
  BY <1>4, <1>10 DEF FailRenewal, ExtendPeriod, Downgrade, ChangeUserPlan, DeleteSubs, DeletePayments, renewal
<1>11. ASSUME UNCHANGED <<sched, list>>
       PROVE  OK
  BY <1>3, <1>11
<1>12. Checks => OK
  BY <1>5, <1>6, <1>7, <1>8, <1>9, <1>10 DEF Checks
<1> QED
  BY SchedSteps, <1>11, <1>12

\* Until the checkout is over, its subscription stays new.
LEMMA NewKept ==
  ASSUME Shaped, Fits, FreshInv, [Next]_vars, NEW r \in Requests, request[r].at \in checkout,
         NEW s, s = request[r].sub
  PROVE  New(s)'
<1>0. New(s) /\ usedSub(s) /\ s \in SubIds
  BY DEF FreshInv, Fits, RequestFits, checkout, usedSub
<1>1. now' = now
  BY Today
<1>2. notDue(subs[s].end)'
  <2>1. PICK end : end = subs'[s].end
    OBVIOUS
  <2>2. notDue(end)
    BY <1>0, <2>1, EndKept DEF New
  <2> QED
    BY <1>1, <2>1, <2>2 DEF notDue
<1>3. ASSUME NEW q \in Requests, request'[q].at = "writing", request'[q].sub = s
      PROVE  notDue(request[q].row.end)'
  <2>1. PICK end : end = request'[q].row.end
    OBVIOUS
  <2>2. notDue(end)
    BY <1>0, <1>3, <2>1, WritingKept
  <2> QED
    BY <1>1, <2>1, <2>2 DEF notDue
<1>4. (\A e \in list' : e.sub # s) /\ (sched'.at \in renewal => sched'.sub # s)
  BY <1>0, ListKept
<1> QED
  BY <1>2, <1>3, <1>4 DEF New

\* Nobody knows the subscription that a checkout has just created.
LEMMA NewBorn ==
  ASSUME Shaped, Fits, [Next]_vars, NEW r \in Users, CreateSubscription(r), room(subs),
         NEW s, s = nextId(subs)
  PROVE  New(s)' /\ ~usedSub(s) /\ s \in SubIds /\ s # 0
<1>0. s \in SubIds /\ subs[s].status = "unused" /\ s # 0
  <2>1. s \in SubIds /\ subs[s].status = "unused"
    BY NextIsUnused DEF Shaped, TablesShaped
  <2> QED
    BY <2>1, BillingAssumption DEF SubIds
<1>1. ~usedSub(s) /\ \A row : ~holds(s, row)
  BY <1>0 DEF usedSub, holds
<1>2. r \in Requests /\ request[r].at = "subscribing" /\ request[r].row.end = 0
  BY DEF Requests, CreateSubscription, Fits, RequestFits
<1>3. subs'[s].end = 0
  BY <1>0, <1>2 DEF CreateSubscription, Shaped, TablesShaped
<1>4. ASSUME NEW q \in Requests, request'[q].at = "writing", request'[q].sub = s
      PROVE  FALSE
  <2>1. request'[q] = request[q]
    <3>1. r # q
      BY <1>4, Creates, <1>2 DEF Idle
    <3> QED
      BY <3>1 DEF CreateSubscription, Does, Shaped, ProcessesShaped
  <2> QED
    BY <1>1, <1>4, <2>1 DEF Fits, RequestFits
<1>5. UNCHANGED <<sched, list>>
  BY DEF CreateSubscription
<1>6. (\A e \in list : e.sub # s) /\ (sched.at \in renewal => sched.sub # s)
  BY <1>1 DEF Fits, SchedFits
<1> QED
  BY <1>0, <1>1, <1>3, <1>4, <1>5, <1>6 DEF New, notDue

\* Who makes payments for a subscription.
LEMMA Billed ==
  ASSUME Shaped, Fits, [Next]_vars, NEW p \in PayIds
  PROVE  \/ payments'[p].for = payments[p].for
         \/ \E u \in Users : /\ CreatePayment(u) /\ p = nextId(payments) /\ request[u].at = "billing"
                             /\ payments'[p].for = request[u].sub
         \/ BillRenewal /\ payments'[p].for = sched.sub /\ sched.at = "billing"
<1>1. ASSUME NEW u \in Users, CreatePayment(u), payments'[p].for # payments[p].for
      PROVE  request[u].at = "billing" /\ p = nextId(payments) /\ payments'[p].for = request[u].sub
  <2>1. request[u].sub \in 0 .. MaxSub /\ request[u].at = "billing"
    BY <1>1 DEF CreatePayment, Requests, Shaped, ProcessesShaped, isProcess
  <2>2. canPay(request[u].sub, request[u].invoice) /\ Pay(request[u].sub, request[u].invoice)
    BY <1>1 DEF CreatePayment
  <2> QED
    BY <1>1, <2>1, <2>2, Paid DEF Shaped
<1>2. ASSUME BillRenewal, payments'[p].for # payments[p].for
      PROVE  payments'[p].for = sched.sub /\ sched.at = "billing"
  <2>1. sched.sub \in 0 .. MaxSub /\ sched.at = "billing"
    BY <1>2 DEF BillRenewal, Shaped, ProcessesShaped, isProcess
  <2>2. canPay(sched.sub, sched.invoice) /\ Pay(sched.sub, sched.invoice)
    BY <1>2 DEF BillRenewal
  <2> QED
    BY <1>2, <2>1, <2>2, Paid DEF Shaped
<1>3. ASSUME NEW s \in 0 .. MaxSub, NEW q, NEW status, WritePay(q, s, status)
      PROVE  payments'[p].for = payments[p].for
  BY <1>3, WrotePay DEF Shaped
<1>4. ASSUME NEW u \in Users, SavePayment(u)
      PROVE  payments'[p].for = payments[p].for
  BY <1>3, <1>4 DEF SavePayment, Requests, Shaped, ProcessesShaped, isProcess
<1>5. ASSUME NEW h \in Hooks, MarkSuccess(h) \/ MarkFailed(h)
      PROVE  payments'[p].for = payments[p].for
  BY <1>3, <1>5 DEF MarkSuccess, MarkFailed, Shaped, ProcessesShaped, isProcess
<1>6. CASE FailRenewal \/ SaveRenewal \/ MarkRenewal
  BY <1>3, <1>6 DEF FailRenewal, SaveRenewal, MarkRenewal, Shaped, ProcessesShaped, isProcess
<1>7. CASE DeleteSubs \/ DeletePayments
  BY <1>7 DEF DeleteSubs, DeletePayments, Shaped, TablesShaped, isPayment
<1> QED
  BY PaymentsSteps, <1>1, <1>2, <1>4, <1>5, <1>6, <1>7

\* And there is no payment for it but that of the checkout.
LEMMA OnlyOwnKept ==
  ASSUME Shaped, Fits, FreshInv, [Next]_vars, NEW r \in Requests, request'[r].at \in checkout
  PROVE  OnlyOwn(r)'
<1>0. SUFFICES ASSUME NEW p \in PayIds, payments'[p].for = request'[r].sub
               PROVE  request'[r].at # "billing" /\ p = request'[r].pay
  BY DEF OnlyOwn
<1>1. CASE r \in Users /\ CreateSubscription(r) /\ room(subs) /\ request'[r].sub = nextId(subs)
  <2>1. ~usedSub(request'[r].sub) /\ request'[r].sub # 0
    BY <1>1, NewBorn
  <2>2. payments' = payments
    BY <1>1 DEF CreateSubscription
  <2> QED
    BY <1>0, <2>1, <2>2 DEF Fits, TablesFit
<1>2. CASE request[r].at \in checkout /\ request'[r].sub = request[r].sub
  <2>0. usedSub(request[r].sub) /\ New(request[r].sub) /\ OnlyOwn(r)
    BY <1>2 DEF FreshInv, OnlyOwn, Fits, RequestFits
  <2>1. CASE payments'[p].for = payments[p].for
    <3>1. request[r].at # "billing" /\ p = request[r].pay
      BY <1>0, <1>2, <2>0, <2>1 DEF OnlyOwn
    <3>2. request'[r].at # "billing" /\ request'[r].pay = request[r].pay
      <4>1. request'[r] = request[r] \/ (request'[r].at = "saving" /\ request'[r].pay = request[r].pay)
        <5>1. ~(r \in Users /\ CreateSubscription(r))
          BY <3>1, <1>2 DEF CreateSubscription, checkout
        <5> QED
          BY <3>1, <5>1, CheckoutMoves
      <4> QED
        BY <3>1, <4>1
    <3> QED
      BY <3>1, <3>2
  <2>2. ASSUME NEW u \in Users, CreatePayment(u), p = nextId(payments), request[u].at = "billing",
               payments'[p].for = request[u].sub
        PROVE  request'[r].at # "billing" /\ p = request'[r].pay
    <3>1. u = r
      BY <1>0, <1>2, <2>2 DEF FreshInv, checkout, Requests
    <3> QED
      BY <2>2, <3>1, Creates, <1>0 DEF Idle, checkout
  <2>3. ~(payments'[p].for = sched.sub /\ sched.at = "billing")
    BY <1>0, <1>2, <2>0 DEF New, renewal
  <2> QED
    BY Billed, <2>1, <2>2, <2>3
<1> QED
  BY CheckoutMoves, <1>1, <1>2

\* No two checkouts have the same subscription.
LEMMA SoleCheckout ==
  ASSUME Shaped, Fits, FreshInv, [Next]_vars, NEW r \in Requests, NEW q \in Requests,
         request'[r].at \in checkout, request'[q].at \in checkout, request'[q].sub = request'[r].sub
  PROVE  q = r
<1>1. ASSUME NEW x \in Users, NEW y \in Requests, request'[y].at \in checkout, request'[y].sub = request'[x].sub,
             CreateSubscription(x), room(subs), request'[x].sub = nextId(subs)
      PROVE  y = x
  <2>1. ~usedSub(request'[x].sub)
    BY <1>1, NewBorn
  <2>2. ~(request[y].at \in checkout /\ request'[y].sub = request[y].sub)
    BY <1>1, <2>1 DEF Fits, RequestFits
  <2>3. y \in Users /\ CreateSubscription(y) /\ request'[y].at = "billing"
    BY <1>1, <2>2, CheckoutMoves
  <2>4. y # x => request'[y] = request[y]
    BY <1>1 DEF CreateSubscription, Does, Shaped, ProcessesShaped
  <2> QED
    BY <2>3, <2>4 DEF CreateSubscription
<1>2. CASE /\ request[r].at \in checkout /\ request'[r].sub = request[r].sub
           /\ request[q].at \in checkout /\ request'[q].sub = request[q].sub
  BY <1>2 DEF FreshInv
<1> QED
  BY <1>1, <1>2, CheckoutMoves

\* What the webhook is about to write is not due.
LEMMA ActivatingKept ==
  ASSUME Shaped, FreshInv, [Next]_vars, NEW h \in Hooks, hook'[h].at = "activating"
  PROVE  notDue(hook[h].row.end)'
<1>0. h \in DOMAIN hook /\ isProcess(hook[h]) /\ now \in Nat /\ now + Month > now
  BY BillingAssumption DEF Shaped, ProcessesShaped
<1>1. CASE hook'[h] = hook[h]
  <2>1. now' = now
    BY <1>1, Clock DEF Tick
  <2> QED
    BY <1>1, <2>1 DEF FreshInv, notDue
<1>2. ASSUME NEW g \in Hooks, Notified(g), g # h
      PROVE  hook'[h] = hook[h]
  BY <1>0, <1>2 DEF Notified, NotifySucceeded, NotifyCanceled, MarkSuccess, ReadSubscription, Activate, Upgrade,
                    MarkFailed, Serves
<1>3. CASE ReadSubscription(h)
  <2>1. PICK k : k = hook[h]
    OBVIOUS
  <2>2. PICK row : row = [subs[k.sub] EXCEPT !.status = "active", !.end = now + Month, !.method = @ \/ k.row.method]
    OBVIOUS
  <2>3. PICK x : x = [k EXCEPT !.at = "activating", !.row = row, !.plan = row.plan]
    OBVIOUS
  <2>4. hook'[h] = IF subExists(k.sub) THEN x ELSE Idle
    BY <1>0, <1>3, <2>1, <2>2, <2>3 DEF ReadSubscription, Serves
  <2>5. subExists(k.sub) /\ hook'[h] = x
    BY <1>3, <2>4 DEF Idle
  <2>6. k.sub \in SubIds
    BY <1>0, <2>1, <2>5, BillingAssumption DEF subExists, isProcess, SubIds
  <2>7. subs[k.sub] \in Rows
    BY <2>6, Copies DEF Shaped
  <2>8. hook'[h].row.end = now + Month
    <3>1. row.end = now + Month
      BY <2>2, <2>7 DEF Rows
    <3>2. x.row = row
      BY <1>0, <2>1, <2>3 DEF isProcess
    <3> QED
      BY <2>5, <3>1, <3>2
  <2>9. now' = now
    BY <1>3 DEF ReadSubscription
  <2>10. PICK end : end = hook'[h].row.end
    OBVIOUS
  <2>11. notDue(end)'
    BY <1>0, <2>8, <2>9, <2>10 DEF notDue
  <2> QED
    BY <2>10, <2>11
<1>4. ASSUME NEW x, Serves(h, x)
      PROVE  hook'[h] = x
  BY <1>0, <1>4 DEF Serves
<1>5. ASSUME NEW p, NEW q
      PROVE  ~NotifySucceeded(h, p, q) /\ ~NotifyCanceled(h, p, q)
  <2>1. PICK b : b = (yoo[p].status = "saved")
    OBVIOUS
  <2>2. PICK x, y : /\ x = [Idle EXCEPT !.at = "marking", !.pay = q, !.sub = payments[q].sub, !.row.method = b]
                    /\ y = [Idle EXCEPT !.at = "failing", !.pay = q, !.sub = payments[q].sub]
    OBVIOUS
  <2>3. x.at = "marking" /\ y.at = "failing"
    BY <2>2 DEF Idle
  <2>4. NotifySucceeded(h, p, q) => Serves(h, x)
    BY <2>1, <2>2, Zenon DEF NotifySucceeded
  <2>5. NotifyCanceled(h, p, q) => Serves(h, y)
    BY <2>2 DEF NotifyCanceled
  <2> QED
    BY <1>4, <2>3, <2>4, <2>5
<1>6. ~MarkSuccess(h) /\ ~Activate(h) /\ ~Upgrade(h) /\ ~MarkFailed(h)
  BY <1>0 DEF MarkSuccess, Activate, Upgrade, MarkFailed, Serves, Idle, isProcess
<1>7. Notified(h) => ReadSubscription(h)
  BY <1>5, <1>6 DEF Notified
<1> QED
  BY HookSteps, <1>1, <1>2, <1>3, <1>7

-----------------------------------------------------------------------------
(* Where pending payments come from.                                         *)

LEMMA PendingStep ==
  ASSUME Shaped, Fits, [Next]_vars, NEW s \in SubIds, NEW p, p \in pending(s)'
  PROVE  \/ p \in pending(s)
         \/ \E u \in Users : /\ request[u].sub = s
                             /\ \/ CreatePayment(u) /\ request[u].at = "billing" /\ p = nextId(payments)
                                \/ SavePayment(u) /\ request[u].at = "saving" /\ p = request[u].pay
         \/ /\ sched.sub = s
            /\ \/ BillRenewal /\ sched.at = "billing" /\ p = nextId(payments)
               \/ SaveRenewal /\ sched.at = "charged" /\ p = sched.pay
<1>0. p \in PayIds /\ payments'[p].status = "pending" /\ payments'[p].sub = s /\ s # 0
  BY PaymentsStep DEF pending, PaymentsGrow, SubIds
<1>1. payments'[p] = payments[p] => p \in pending(s)
  BY <1>0 DEF pending, Shaped, TablesShaped
<1>2. ASSUME NEW t \in 0 .. MaxSub, NEW q, NEW status, WritePay(q, t, status), p \notin pending(s)
      PROVE  status = "pending" /\ q = p /\ t = s
  BY <1>0, <1>1, <1>2, WrotePay DEF Shaped
<1>3. ASSUME NEW t \in 0 .. MaxSub, NEW i, canPay(t, i), Pay(t, i), p \notin pending(s)
      PROVE  p = nextId(payments) /\ t = s
  BY <1>0, <1>1, <1>3, Paid DEF Shaped
<1>4. ASSUME NEW u \in Users, CreatePayment(u), p \notin pending(s)
      PROVE  request[u].sub = s /\ request[u].at = "billing" /\ p = nextId(payments)
  BY <1>1, <1>3, <1>4 DEF CreatePayment, Requests, Shaped, ProcessesShaped, isProcess
<1>5. ASSUME NEW u \in Users, SavePayment(u), p \notin pending(s)
      PROVE  request[u].sub = s /\ request[u].at = "saving" /\ p = request[u].pay
  BY <1>2, <1>5 DEF SavePayment, Requests, Shaped, ProcessesShaped, isProcess
<1>6. ASSUME NEW h \in Hooks, MarkSuccess(h) \/ MarkFailed(h)
      PROVE  p \in pending(s)
  BY <1>2, <1>6 DEF MarkSuccess, MarkFailed, Shaped, ProcessesShaped, isProcess
<1>7. ASSUME BillRenewal, p \notin pending(s)
      PROVE  sched.sub = s /\ sched.at = "billing" /\ p = nextId(payments)
  BY <1>1, <1>3, <1>7 DEF BillRenewal, Shaped, ProcessesShaped, isProcess
<1>8. ASSUME SaveRenewal, p \notin pending(s)
      PROVE  sched.sub = s /\ sched.at = "charged" /\ p = sched.pay
  BY <1>2, <1>8 DEF SaveRenewal, Shaped, ProcessesShaped, isProcess
<1>9. FailRenewal \/ MarkRenewal => p \in pending(s)
  BY <1>2 DEF FailRenewal, MarkRenewal, Shaped, ProcessesShaped, isProcess
<1>10. DeleteSubs \/ DeletePayments => p \in pending(s)
  BY <1>0 DEF DeleteSubs, DeletePayments, Shaped, TablesShaped, isPayment, pending
<1> QED
  BY PaymentsSteps, <1>1, <1>4, <1>5, <1>6, <1>7, <1>8, <1>9, <1>10

\* How the scheduler gets to a payment.
LEMMA SchedMoves ==
  ASSUME Shaped, [Next]_vars
  PROVE  /\ sched'.at = "billing" =>
              sched' = sched \/ (payments' = payments /\ pending(sched'.sub) = {})
         /\ sched'.at \in underway =>
              \/ sched' = sched
              \/ sched'.sub = sched.sub /\ sched'.pay = sched.pay /\ sched.at \in underway
              \/ BillRenewal /\ sched'.sub = sched.sub /\ sched'.pay = nextId(payments)
<1> DEFINE OK == /\ sched'.at = "billing" =>
                      sched' = sched \/ (payments' = payments /\ pending(sched'.sub) = {})
                 /\ sched'.at \in underway =>
                      \/ sched' = sched
                      \/ sched'.sub = sched.sub /\ sched'.pay = sched.pay /\ sched.at \in underway
                      \/ BillRenewal /\ sched'.sub = sched.sub /\ sched'.pay = nextId(payments)
<1>0. isProcess(sched)
  BY DEF Shaped, ProcessesShaped
<1>1. ASSUME sched'.at # "billing", sched'.at \notin underway
      PROVE  OK
  BY <1>1
<1>2. sched' = sched => OK
  OBVIOUS
<1>3. ASSUME NEW at, sched' = [Idle EXCEPT !.at = at], at # "billing", at \notin underway
      PROVE  OK
  BY <1>1, <1>3 DEF Idle
<1>4. ASSUME NEW e \in list, Expire(e) \/ ApplyChange(e)
      PROVE  OK
  <2>1. sched'.at \in {"downgrading", "planning"}
    BY <1>0, <1>4 DEF Expire, ApplyChange, isProcess
  <2> QED
    BY <1>1, <2>1 DEF underway
<1>5. ASSUME NEW e \in list, Renew(e), sched' # sched
      PROVE  OK
  <2>1. sched'.at = "billing" /\ sched'.sub = e.sub /\ payments' = payments /\ pending(e.sub) = {}
    BY <1>0, <1>5 DEF Renew, isProcess, tables
  <2> QED
    BY <2>1 DEF underway
<1>6. CASE BillRenewal
  <2>1. CASE canPay(sched.sub, sched.invoice)
    <3>1. PICK n : n = nextId(payments)
      OBVIOUS
    <3>2. sched'.at = "calling" /\ sched'.sub = sched.sub /\ sched'.pay = n
      BY <1>0, <1>6, <2>1, <3>1 DEF BillRenewal, isProcess
    <3> QED
      BY <1>6, <3>1, <3>2 DEF underway
  <2> QED
    BY <1>3, <1>6, <2>1 DEF BillRenewal, Resume, underway
<1>7. CASE CallAutopayment
  <2>1. \/ sched' = [sched EXCEPT !.at = "refused"]
        \/ \E at \in {"refused", "charged"} : \E b : sched' = [sched EXCEPT !.at = at, !.paid = b]
    BY <1>7, Zenon DEF CallAutopayment
  <2>2. sched'.at # "billing" /\ sched'.sub = sched.sub /\ sched'.pay = sched.pay
    BY <1>0, <2>1 DEF isProcess
  <2>3. sched.at \in underway
    BY <1>7 DEF CallAutopayment, underway
  <2> QED
    BY <2>2, <2>3
<1>8. CASE SaveRenewal \/ MarkRenewal
  <2>1. \/ Resume("renewing")
        \/ sched'.at # "billing" /\ sched'.sub = sched.sub /\ sched'.pay = sched.pay /\ sched.at \in underway
    BY <1>0, <1>8 DEF SaveRenewal, MarkRenewal, isProcess, underway
  <2>2. Resume("renewing") => OK
    BY <1>3 DEF Resume, underway
  <2> QED
    BY <2>1, <2>2
<1>9. CASE FailRenewal \/ ExtendPeriod \/ Downgrade \/ ChangeUserPlan \/ DeleteSubs \/ DeletePayments
  BY <1>3, <1>9 DEF FailRenewal, ExtendPeriod, Downgrade, ChangeUserPlan, DeleteSubs, DeletePayments, Resume,
       underway
<1>10. CASE RunChecks \/ BeginRenewals \/ BeginChanges \/ BeginCleanup
  BY <1>3, <1>10 DEF RunChecks, BeginRenewals, BeginChanges, BeginCleanup, Begin, underway
<1>11. Checks => OK
  BY <1>2, <1>4, <1>5, <1>6, <1>7, <1>8, <1>9, <1>10 DEF Checks
<1> QED
  BY SchedSteps, <1>2, <1>11

\* The subscription that the scheduler bills is not that of a checkout.
LEMMA Apart ==
  ASSUME FreshInv, sched.at \in renewal, NEW u \in Users, request[u].at \in checkout
  PROVE  request[u].sub # sched.sub
BY DEF FreshInv, New, Requests

\* The scheduler bills a subscription without a pending payment, and then there
\* is only the one it has made.
LEMMA RenewalPending ==
  ASSUME Shaped, Fits, FreshInv, [Next]_vars
  PROVE  /\ sched'.at = "billing" => pending(sched.sub)' = {}
         /\ sched'.at \in underway => pending(sched.sub)' \subseteq {sched'.pay}
<1>0. SchedFits' /\ isProcess(sched)
  BY SchedFit DEF Shaped, ProcessesShaped
<1>1. sched'.at \in renewal => sched'.sub \in SubIds
  BY <1>0 DEF SchedFits, holds, usedSub
<1>2. ASSUME NEW s, s = sched'.sub, s = sched.sub, sched'.at \in renewal, sched.at \in renewal, NEW p,
     p \in pending(s)'
      PROVE  \/ p \in pending(s)
             \/ BillRenewal /\ sched.at = "billing" /\ p = nextId(payments)
             \/ SaveRenewal /\ sched.at = "charged" /\ p = sched.pay
  <2>1. s \in SubIds
    BY <1>1, <1>2
  <2>2. ASSUME NEW u \in Users, request[u].sub = s, request[u].at \in {"billing", "saving"}
        PROVE  FALSE
    BY <1>2, <2>2, Apart DEF checkout
  <2> QED
    BY <1>2, <2>1, <2>2, PendingStep
<1>3. ASSUME sched'.at = "billing"
      PROVE  pending(sched.sub)' = {}
  <2>1. PICK s : s = sched'.sub
    OBVIOUS
  <2>2. pending(s)' = {}
    <3>1. CASE sched' = sched
      <4>1. ~BillRenewal
        BY <1>0, <1>3, <3>1 DEF BillRenewal, Resume, Idle, isProcess
      <4>2. pending(s) = {} /\ sched.at = "billing" /\ s = sched.sub /\ sched.at \in renewal /\ sched'.at \in renewal
        BY <1>3, <2>1, <3>1 DEF FreshInv, renewal
      <4> QED
        BY <1>2, <2>1, <4>1, <4>2
    <3>2. CASE payments' = payments /\ pending(sched'.sub) = {}
      BY <2>1, <3>2 DEF pending
    <3> QED
      BY <1>3, <3>1, <3>2, SchedMoves
  <2> QED
    BY <2>1, <2>2
<1>4. ASSUME sched'.at \in underway
      PROVE  pending(sched.sub)' \subseteq {sched'.pay}
  <2>1. PICK s, n : s = sched'.sub /\ n = sched'.pay
    OBVIOUS
  <2>2. pending(s)' \subseteq {n}
    <3>1. CASE sched'.sub = sched.sub /\ sched'.pay = sched.pay /\ sched.at \in underway
      <4>1. /\ pending(s) \subseteq {n} /\ s = sched.sub /\ sched.at # "billing"
            /\ sched.at \in renewal /\ sched'.at \in renewal
        BY <1>4, <2>1, <3>1 DEF FreshInv, renewal, underway
      <4> QED
        BY <1>2, <2>1, <3>1, <4>1
    <3>2. CASE BillRenewal /\ sched'.sub = sched.sub /\ sched'.pay = nextId(payments)
      <4>1. /\ pending(s) = {} /\ s = sched.sub /\ sched.at = "billing"
            /\ sched.at \in renewal /\ sched'.at \in renewal
        BY <1>4, <2>1, <3>2 DEF BillRenewal, FreshInv, renewal, underway
      <4> QED
        BY <1>2, <2>1, <3>2, <4>1
    <3> QED
      BY <1>4, <3>1, <3>2, SchedMoves
  <2> QED
    BY <2>1, <2>2
<1> QED
  BY <1>3, <1>4

\* So there is never a second one.
LEMMA PendingKept ==
  ASSUME Shaped, Fits, FreshInv, [Next]_vars, NEW s \in SubIds, NEW p, p \in pending(s)', NEW q, q \in pending(s)'
  PROVE  p = q
<1> DEFINE made(u) == CreatePayment(u) /\ request[u].at = "billing"
           saved(u) == SavePayment(u) /\ request[u].at = "saving"
<1>1. ASSUME NEW x, x \in pending(s)
      PROVE  x \in PayIds /\ payments[x].for = s
  BY <1>1, BillingAssumption DEF pending, Shaped, TablesShaped, Fits, TablesFit, SubIds
<1>2. ASSUME NEW u \in Users, request[u].sub = s, request[u].at \in checkout
      PROVE  /\ sched.at \in renewal => sched.sub # s
             /\ \A x \in pending(s) : request[u].at # "billing" /\ x = request[u].pay
             /\ \A w \in Users : request[w].sub = s /\ request[w].at \in checkout => w = u
  BY <1>1, <1>2 DEF FreshInv, New, OnlyOwn, Requests
<1>3. CASE p \in pending(s) /\ q \in pending(s)
  BY <1>3 DEF FreshInv
<1>4. ASSUME NEW u \in Users, request[u].sub = s, made(u) \/ saved(u),
             NEW x, x \in pending(s)', NEW y, y \in pending(s)',
             x = IF request[u].at = "billing" THEN nextId(payments) ELSE request[u].pay
      PROVE  x = y
  <2>1. request[u].at \in checkout
    BY <1>4 DEF checkout
  <2>2. y \in pending(s) => request[u].at = "saving" /\ y = request[u].pay
    BY <1>2, <1>4, <2>1
  <2>3. ASSUME NEW w \in Users, request[w].sub = s, made(w) \/ saved(w)
        PROVE  w = u
    BY <1>2, <1>4, <2>1, <2>3 DEF checkout
  <2>4. ~(sched.sub = s /\ sched.at \in {"billing", "charged"})
    BY <1>2, <1>4, <2>1 DEF renewal
  <2> QED
    BY <1>4, <2>2, <2>3, <2>4, PendingStep
<1>5. ASSUME sched.sub = s, BillRenewal \/ SaveRenewal, sched.at \in {"billing", "charged"},
             NEW x, x \in pending(s)', NEW y, y \in pending(s)',
             x = IF sched.at = "billing" THEN nextId(payments) ELSE sched.pay
      PROVE  x = y
  <2>1. y \in pending(s) => sched.at = "charged" /\ y = sched.pay
    BY <1>5 DEF FreshInv, underway
  <2>2. ASSUME NEW w \in Users, request[w].sub = s, made(w) \/ saved(w)
        PROVE  FALSE
    <3>1. request[w].at \in checkout
      BY <2>2 DEF checkout
    <3> QED
      BY <1>2, <1>5, <2>2, <3>1 DEF renewal
  <2> QED
    BY <1>5, <2>1, <2>2, PendingStep
<1>6. ASSUME NEW x, x \in pending(s)', x \notin pending(s), NEW y, y \in pending(s)'
      PROVE  x = y
  BY <1>4, <1>5, <1>6, PendingStep
<1> QED
  BY <1>3, <1>6

\* And so is the third.
LEMMA FreshStep ==
  ASSUME Shaped, Fits, FreshInv, [Next]_vars
  PROVE  FreshInv'
<1>1. ASSUME NEW r \in Requests, request'[r].at \in checkout
      PROVE  New(request[r].sub)'
  <2>1. PICK s : s = request'[r].sub
    OBVIOUS
  <2>2. New(s)'
    BY <1>1, <2>1, CheckoutMoves, NewBorn, NewKept
  <2> QED
    BY <2>1, <2>2
<1>2. \A r \in Requests : request'[r].at \in checkout => OnlyOwn(r)'
  BY OnlyOwnKept
<1>3. \A r, q \in Requests :
        request'[r].at \in checkout /\ request'[q].at \in checkout /\ request'[q].sub = request'[r].sub => q = r
  BY SoleCheckout
<1>4. \A h \in Hooks : hook'[h].at = "activating" => notDue(hook[h].row.end)'
  BY ActivatingKept
<1>5. /\ sched'.at = "billing" => pending(sched.sub)' = {}
      /\ sched'.at \in underway => pending(sched.sub)' \subseteq {sched'.pay}
  BY RenewalPending DEF underway
<1>6. \A s \in SubIds : \A p, q \in pending(s)' : p = q
  BY PendingKept
<1> QED
  BY <1>1, <1>2, <1>3, <1>4, <1>5, <1>6 DEF FreshInv

-----------------------------------------------------------------------------
(* The theorems.                                                             *)

Inv == Shaped /\ Fits /\ FreshInv

LEMMA InitInv ==
  ASSUME Init
  PROVE  Inv
<1> USE DEF Init
<1>1. NoSub \in Rows
  BY BillingAssumption DEF NoSub, Rows
<1>2. Shaped
  BY <1>1, Idles, BillingAssumption
  DEF Shaped, TablesShaped, ProcessesShaped, isPayment, isYoo, NoPayment, NoYoo, Requests
<1>3. TablesFit
  BY <1>1, BillingAssumption DEF TablesFit, fits, NoSub, NoPayment, NoYoo
<1>4. Fits
  BY <1>3 DEF Fits, RequestFits, HookFits, SchedFits, Requests, Idle, checkout, renewal, underway
<1>5. FreshInv
  BY DEF FreshInv, Requests, Idle, checkout, pending, NoPayment
<1> QED
  BY <1>2, <1>4, <1>5 DEF Inv

LEMMA StepInv == Inv /\ [Next]_vars => Inv'
BY ShapedStep, FitsStep, FreshStep DEF Inv

\* The inductive invariant: shapes, who holds what, and that checkouts and
\* renewals stay apart.
THEOREM InvHolds == Spec => []Inv
  BY InitInv, StepInv, PTL DEF Spec

\* Nobody has a paid plan for nothing: whatever copy of a subscription a
\* request, the webhook or the scheduler writes back, and however stale it is,
\* the subscription it makes active has been paid for or extended by an admin,
\* and so has one of every user with a paid plan, unless an admin has chosen a
\* plan for him; whole rows of users written back bring no other plan
\* (handlePaymentSucceeded, handleAutopaymentSuccess,
\* handleAdminExtendSubscription, handleUpdateUser, handleUpdateProfile).
THEOREM PaidUpIsKept == Spec => []PaidUp
<1>1. Inv => PaidUp
  <2> SUFFICES ASSUME Inv
               PROVE  PaidUp
    OBVIOUS
  <2>1. ASSUME NEW s \in DOMAIN subs, subs[s].status = "active"
        PROVE  backed(s)
    BY <2>1 DEF Inv, Shaped, TablesShaped, Fits, TablesFit, fits
  <2>2. ASSUME NEW u \in Users, userPlan[u] # Free
        PROVE  entitled(u)
    BY <2>2 DEF Inv, Shaped, TablesShaped, Fits, TablesFit
  <2> QED
    BY <2>1, <2>2 DEF PaidUp
<1> QED
  BY <1>1, InvHolds, PTL

\* The invariant says that all pending payments are the same one.
LEMMA AtMostOne ==
  ASSUME NEW S, \A x, y \in S : x = y
  PROVE  Cardinality(S) <= 1
<1>1. CASE S = {}
  BY <1>1, FS_EmptySet
<1>2. CASE S # {}
  <2>1. PICK x : S = {x}
    BY <1>2
  <2> QED
    BY <2>1, FS_Singleton
<1> QED
  BY <1>1, <1>2

\* A subscription never has two pending payments, although the scheduler looks
\* for one, creates one and rewrites it in separate steps, and checkouts create
\* and rewrite theirs meanwhile (processRecurringRenewals, handleCheckout).
THEOREM OnePendingIsKept == Spec => []OnePending
<1>1. Inv => OnePending
  BY AtMostOne DEF Inv, FreshInv, OnePending, Shaped, TablesShaped
<1> QED
  BY <1>1, InvHolds, PTL
====
