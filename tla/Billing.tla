------------------------------ MODULE Billing ------------------------------
(***************************************************************************)
(* Subscriptions and payments: the checkout, cancel and plan-change        *)
(* requests of users, the two requests of admins, the webhook that         *)
(* YooKassa calls, and the scheduler that expires, renews and cleans up    *)
(* (src/internal/api/handlers_payment.go, handlers_admin.go,               *)
(* src/internal/scheduler/scheduler.go).                                   *)
(*                                                                         *)
(* The database has one connection: every query is atomic, a handler is a  *)
(* sequence of them. A handler reads a row, changes its copy and writes    *)
(* all of it back; the copy is part of the state of its process:           *)
(*   request[r]  the request that user or admin r has running              *)
(*   hook[h]     a webhook request being served                            *)
(*   sched       the scheduler goroutine, list the rows it still has to do *)
(* Reading a user and writing it back with another plan is one step, as no *)
(* other column matters here; writing it back with the plan that was read  *)
(* is not.                                                                 *)
(*                                                                         *)
(* The unit of time is a day: a subscription can be renewed on the day it  *)
(* ends, is overdue the day after, and a pending payment is stale the day  *)
(* after it was created. Handlers and scheduler finish on the day they      *)
(* began.                                                                  *)
(***************************************************************************)
EXTENDS Naturals, FiniteSets

CONSTANTS
  Users, Admins,  \* who sends requests
  Plans,          \* the paid plans
  Free,           \* the free plan
  None,           \* "no value"
  Hooks,          \* webhook requests served at the same time
  MaxSub, MaxPay, \* bounds on the rows ever created
  Month,          \* the length of a period
  MaxTime         \* bound on the clock

SubIds == 1 .. MaxSub
PayIds == 1 .. MaxPay

ASSUME BillingAssumption ==
  /\ Users \cap (Admins \cup SubIds) = {}
  /\ Free \notin Plans
  /\ None \notin Users \cup Plans \cup {Free}
  /\ {MaxSub, MaxPay, MaxTime} \subseteq Nat
  /\ Month \in Nat \ {0}

VARIABLES
  now,
  subs,      \* table subscriptions, ids in the order of creation
  payments,  \* table payments, likewise
  yoo,       \* the payments at YooKassa, by the row they were created for
  userPlan,  \* users.plan_id
  granted,   \* history: the subscriptions that an admin has extended, and
             \* the users whose plan an admin has chosen
  request, hook, sched, list

tables == <<subs, payments, userPlan>>
vars == <<now, tables, yoo, granted, request, hook, sched, list>>

-----------------------------------------------------------------------------
(* The tables.                                                             *)

\* end is current_period_end, 0 for NULL; method says that a payment method is
\* saved.
Sub == [user : Users \cup {None}, plan : Plans \cup {Free, None}, next : Plans \cup {Free, None},
        status : {"unused", "pending", "active", "cancelled", "expired", "deleted"},
        recurring : BOOLEAN, method : BOOLEAN, end : 0 .. MaxTime + Month + 1]

NoSub == [user |-> None, plan |-> None, next |-> None, status |-> "unused",
          recurring |-> FALSE, method |-> FALSE, end |-> 0]

\* sub is the reference to the subscription, 0 for NULL; for is what it was
\* when the row was created.
Payment == [status : {"unused", "pending", "success", "failed", "deleted"}, invoice : 0 .. MaxPay,
            sub : 0 .. MaxSub, for : 0 .. MaxSub, created : 0 .. MaxTime]

NoPayment == [status |-> "unused", invoice |-> 0, sub |-> 0, for |-> 0, created |-> 0]

subExists(s) == s # 0 /\ subs[s].status \notin {"unused", "deleted"}
payExists(p) == payments[p].status \notin {"unused", "deleted"}

\* The ID of the next row, and whether the bounds leave room for it: where
\* they do not, the INSERT fails.
isNext(table, i) == table[i].status = "unused" /\ \A j \in 1 .. i - 1 : table[j].status # "unused"
room(table) == \E i \in DOMAIN table : isNext(table, i)
nextId(table) == CHOOSE i \in DOMAIN table : isNext(table, i)

\* SubscriptionRepository.Update: all columns but the user; no row, no effect.
WriteSub(s, row) == subs' = IF subExists(s) THEN [subs EXCEPT ![s] = row] ELSE subs

\* PaymentRepository.Update: the status and the reference, which must not
\* dangle (foreign key); no row, no effect.
dangles(p, s) == payExists(p) /\ s # 0 /\ ~subExists(s)
WritePay(p, s, status) ==
  payments' = IF payExists(p) /\ ~dangles(p, s)
              THEN [payments EXCEPT ![p].sub = s, ![p].status = status]
              ELSE payments

\* SubscriptionRepository.GetByUserID: the latest one active or cancelled.
ownSubs(u) == {s \in SubIds : subs[s].user = u /\ subs[s].status \in {"active", "cancelled"}}
hasActive(u) == \E s \in ownSubs(u) : subs[s].status = "active" /\ \A r \in ownSubs(u) : r <= s
activeSub(u, s) == hasActive(u) /\ s \in ownSubs(u) /\ \A r \in ownSubs(u) : r <= s

\* PaymentRepository.GetNextInvoiceID: one more than the largest there is.
invoices == {payments[p].invoice : p \in {q \in PayIds : payExists(q)}}
nextInvoice == CHOOSE i \in 1 .. MaxPay + 1 : \A j \in 1 .. MaxPay + 1 : j >= i <=> \A k \in invoices : j > k

\* PaymentRepository.Create, which fails when the invoice ID is taken.
canPay(s, invoice) == room(payments) /\ subExists(s) /\ invoice \notin invoices
Pay(s, invoice) ==
  payments' = [payments EXCEPT ![nextId(payments)] =
                 [status |-> "pending", invoice |-> invoice, sub |-> s, for |-> s, created |-> now]]

-----------------------------------------------------------------------------
(* YooKassa. A payment is open once it can be paid; saved is succeeded with *)
(* a payment method that may be charged again.                              *)

YooStatus == {"none", "created", "open", "succeeded", "saved", "canceled"}
NoYoo == [status |-> "none", invoice |-> 0, save |-> FALSE]
paid(p) == yoo[p].status \in {"succeeded", "saved"}

\* What a process has in hand: the rows it works on, its copy of the
\* subscription, the plan it is about to give the user, and whether YooKassa
\* has told it that the payment succeeded.
Process == [at : {"idle", "subscribing", "billing", "calling", "saving", "writing", "planning",
                  "marking", "failing", "reading", "activating", "upgrading",
                  "updating", "expiring", "downgrading", "renewing", "refused", "charged", "extending",
                  "changing", "cleaningSubs", "cleaningPayments"},
            sub : 0 .. MaxSub, row : Sub, plan : Plans \cup {Free, None},
            pay : 0 .. MaxPay, invoice : 0 .. MaxPay + 1, paid : BOOLEAN]

Idle == [at |-> "idle", sub |-> 0, row |-> NoSub, plan |-> None, pay |-> 0, invoice |-> 0,
         paid |-> FALSE]

Init ==
  /\ now = 0
  /\ subs = [s \in SubIds |-> NoSub]
  /\ payments = [p \in PayIds |-> NoPayment]
  /\ yoo = [p \in PayIds |-> NoYoo]
  /\ userPlan = [u \in Users |-> Free]
  /\ granted = {}
  /\ request = [r \in Users \cup Admins |-> Idle]
  /\ hook = [h \in Hooks |-> Idle]
  /\ sched = Idle
  /\ list = {}

\* A payment that is open is paid, or given up.
Settle(p) ==
  /\ yoo[p].status = "open"
  /\ \E status \in {"succeeded", "canceled"} \cup (IF yoo[p].save THEN {"saved"} ELSE {}) :
       yoo' = [yoo EXCEPT ![p].status = status]
  /\ UNCHANGED <<now, tables, granted, request, hook, sched, list>>

Tick ==
  /\ now < MaxTime
  /\ \A r \in DOMAIN request : request[r].at = "idle"
  /\ \A h \in Hooks : hook[h].at = "idle"
  /\ sched.at = "idle"
  /\ now' = now + 1
  /\ UNCHANGED <<tables, yoo, granted, request, hook, sched, list>>

-----------------------------------------------------------------------------
(* Requests of users: handleCheckout, handleCancelSubscription and         *)
(* handleChangePlan.                                                       *)

Does(r, proc) == request' = [request EXCEPT ![r] = proc]

\* No active subscription; an invoice ID is taken.
Checkout(u, plan, recurring) ==
  /\ request[u].at = "idle"
  /\ ~hasActive(u)
  /\ Does(u, [Idle EXCEPT !.at = "subscribing", !.invoice = nextInvoice,
                          !.row = [NoSub EXCEPT !.user = u, !.plan = plan, !.status = "pending",
                                                !.recurring = recurring]])
  /\ UNCHANGED <<now, tables, yoo, granted, hook, sched, list>>

CreateSubscription(u) ==
  /\ request[u].at = "subscribing"
  /\ IF room(subs)
     THEN /\ subs' = [subs EXCEPT ![nextId(subs)] = request[u].row]
          /\ Does(u, [request[u] EXCEPT !.at = "billing", !.sub = nextId(subs)])
     ELSE Does(u, Idle) /\ UNCHANGED subs
  /\ UNCHANGED <<now, payments, userPlan, yoo, granted, hook, sched, list>>

\* If somebody else was faster with the same invoice ID, the request fails and
\* the pending subscription stays.
CreatePayment(u) ==
  LET r == request[u]
  IN /\ r.at = "billing"
     /\ IF canPay(r.sub, r.invoice)
        THEN Pay(r.sub, r.invoice) /\ Does(u, [r EXCEPT !.at = "calling", !.pay = nextId(payments)])
        ELSE Does(u, Idle) /\ UNCHANGED payments
     /\ UNCHANGED <<now, subs, userPlan, yoo, granted, hook, sched, list>>

\* Failure is an answer too: then nobody can pay.
CallYooKassa(u) ==
  LET r == request[u]
  IN /\ r.at = "calling"
     /\ \/ Does(u, Idle) /\ UNCHANGED yoo
        \/ /\ yoo' = [yoo EXCEPT ![r.pay] = [status |-> "created", invoice |-> r.invoice,
                                             save |-> r.row.recurring]]
           /\ Does(u, [r EXCEPT !.at = "saving"])
     /\ UNCHANGED <<now, tables, granted, hook, sched, list>>

\* The row is written again, and the user gets the address to pay at.
SavePayment(u) ==
  LET r == request[u]
  IN /\ r.at = "saving"
     /\ WritePay(r.pay, r.sub, "pending")
     /\ yoo' = [yoo EXCEPT ![r.pay].status = "open"]
     /\ Does(u, Idle)
     /\ UNCHANGED <<now, subs, userPlan, granted, hook, sched, list>>

Cancel(u, s) ==
  /\ request[u].at = "idle"
  /\ activeSub(u, s)
  /\ Does(u, [Idle EXCEPT !.at = "writing", !.sub = s,
                          !.row = [subs[s] EXCEPT !.status = "cancelled", !.recurring = FALSE,
                                                  !.method = FALSE]])
  /\ UNCHANGED <<now, tables, yoo, granted, hook, sched, list>>

\* Choosing the present plan takes a change back.
ChangePlan(u, s, plan) ==
  /\ request[u].at = "idle"
  /\ activeSub(u, s)
  /\ Does(u, [Idle EXCEPT !.at = "writing", !.sub = s,
                          !.row = [subs[s] EXCEPT !.next = IF plan = subs[s].plan THEN None ELSE plan]])
  /\ UNCHANGED <<now, tables, yoo, granted, hook, sched, list>>

WriteSubscription(r) ==
  LET q == request[r]
  IN /\ q.at = "writing"
     /\ WriteSub(q.sub, q.row)
     /\ Does(r, IF q.plan = None THEN Idle ELSE [q EXCEPT !.at = "planning"])
     /\ UNCHANGED <<now, payments, userPlan, yoo, granted, hook, sched, list>>

-----------------------------------------------------------------------------
(* Requests of admins: handleAdminCancelSubscription and                   *)
(* handleAdminExtendSubscription, for any subscription there is, and       *)
(* handleUpdateUser; and handleUpdateProfile, which a user may send.       *)

AdminCancel(a, s) ==
  /\ request[a].at = "idle"
  /\ subExists(s)
  /\ Does(a, [Idle EXCEPT !.at = "writing", !.sub = s, !.plan = Free,
                          !.row = [subs[s] EXCEPT !.status = "cancelled", !.recurring = FALSE]])
  /\ UNCHANGED <<now, tables, yoo, granted, hook, sched, list>>

over(s) == subs[s].end # 0 /\ subs[s].end < now

\* By one day.
AdminExtend(a, s) ==
  /\ request[a].at = "idle"
  /\ subExists(s)
  /\ subs[s].end < MaxTime
  /\ Does(a, [Idle EXCEPT !.at = "writing", !.sub = s, !.plan = subs[s].plan,
                          !.row = [subs[s] EXCEPT
                                     !.end = IF @ = 0 \/ over(s) THEN now + 1 ELSE @ + 1,
                                     !.status = IF @ \in {"expired", "cancelled"} THEN "active" ELSE @]])
  /\ granted' = granted \cup {s}
  /\ UNCHANGED <<now, tables, yoo, hook, sched, list>>

\* The plan is one that an admin has chosen.
UpdatePlan(a, u, plan) ==
  /\ request[a].at = "idle"
  /\ Does(a, [Idle EXCEPT !.at = "updating", !.row.user = u, !.plan = plan])
  /\ granted' = granted \cup {u}
  /\ UNCHANGED <<now, tables, yoo, hook, sched, list>>

\* Something else is changed, and the plan written back as it was read.
UpdateUser(r, u) ==
  /\ request[r].at = "idle"
  /\ Does(r, [Idle EXCEPT !.at = "updating", !.row.user = u, !.plan = userPlan[u]])
  /\ UNCHANGED <<now, tables, yoo, granted, hook, sched, list>>

SetUserPlan(r) ==
  LET q == request[r]
  IN /\ q.at \in {"planning", "updating"}
     /\ userPlan' = [userPlan EXCEPT ![q.row.user] = q.plan]
     /\ Does(r, Idle)
     /\ UNCHANGED <<now, subs, payments, yoo, granted, hook, sched, list>>

-----------------------------------------------------------------------------
(* The webhook. YooKassa notifies of a payment at any time once it has      *)
(* succeeded or been canceled, and as often as it likes; the handler knows  *)
(* the row only by the invoice ID.                                         *)

Serves(h, proc) == hook' = [hook EXCEPT ![h] = proc]

notified(q, p) == payExists(q) /\ payments[q].invoice = yoo[p].invoice

NotifySucceeded(h, p, q) ==
  /\ hook[h].at = "idle"
  /\ paid(p) /\ notified(q, p)
  /\ payments[q].status # "success"
  /\ Serves(h, [Idle EXCEPT !.at = "marking", !.pay = q, !.sub = payments[q].sub,
                            !.row.method = (yoo[p].status = "saved")])
  /\ UNCHANGED <<now, tables, yoo, granted, request, sched, list>>

\* Fails when the subscription has been deleted since the row was read.
MarkSuccess(h) ==
  LET k == hook[h]
  IN /\ k.at = "marking"
     /\ WritePay(k.pay, k.sub, "success")
     /\ Serves(h, IF k.sub = 0 \/ dangles(k.pay, k.sub) THEN Idle ELSE [k EXCEPT !.at = "reading"])
     /\ UNCHANGED <<now, subs, userPlan, yoo, granted, request, sched, list>>

ReadSubscription(h) ==
  LET k == hook[h]
      row == [subs[k.sub] EXCEPT !.status = "active", !.end = now + Month,
                                 !.method = @ \/ k.row.method]
  IN /\ k.at = "reading"
     /\ Serves(h, IF subExists(k.sub)
                  THEN [k EXCEPT !.at = "activating", !.row = row, !.plan = row.plan]
                  ELSE Idle)
     /\ UNCHANGED <<now, tables, yoo, granted, request, sched, list>>

Activate(h) ==
  LET k == hook[h]
  IN /\ k.at = "activating"
     /\ WriteSub(k.sub, k.row)
     /\ Serves(h, [k EXCEPT !.at = "upgrading"])
     /\ UNCHANGED <<now, payments, userPlan, yoo, granted, request, sched, list>>

Upgrade(h) ==
  LET k == hook[h]
  IN /\ k.at = "upgrading"
     /\ userPlan' = [userPlan EXCEPT ![k.row.user] = k.plan]
     /\ Serves(h, Idle)
     /\ UNCHANGED <<now, subs, payments, yoo, granted, request, sched, list>>

NotifyCanceled(h, p, q) ==
  /\ hook[h].at = "idle"
  /\ yoo[p].status = "canceled" /\ notified(q, p)
  /\ Serves(h, [Idle EXCEPT !.at = "failing", !.pay = q, !.sub = payments[q].sub])
  /\ UNCHANGED <<now, tables, yoo, granted, request, sched, list>>

\* Mutant: goes on as if the payment had succeeded.
MarkFailedGoesOn(h) ==
  LET k == hook[h]
  IN /\ k.at = "failing"
     /\ WritePay(k.pay, k.sub, "failed")
     /\ Serves(h, IF k.sub = 0 THEN Idle ELSE [k EXCEPT !.at = "reading"])
     /\ UNCHANGED <<now, subs, userPlan, yoo, granted, request, sched, list>>

MarkFailed(h) ==
  LET k == hook[h]
  IN /\ k.at = "failing"
     /\ WritePay(k.pay, k.sub, "failed")
     /\ Serves(h, Idle)
     /\ UNCHANGED <<now, subs, userPlan, yoo, granted, request, sched, list>>

-----------------------------------------------------------------------------
(* The scheduler: Scheduler.runChecks. It reads the rows of each of its     *)
(* first three tasks at once and works on the copies.                       *)

rows(S) == {[sub |-> s, row |-> subs[s]] : s \in S}

\* The copies it would skip are left out at once.
expired == {s \in SubIds : subs[s].status = "active" /\ over(s) /\ ~subs[s].recurring}

renewable == {s \in SubIds : /\ subs[s].status = "active" /\ subs[s].recurring /\ subs[s].method
                             /\ subs[s].end # 0 /\ subs[s].end <= now
                             /\ subs[s].plan # Free}

changing == {s \in SubIds : subExists(s) /\ subs[s].next # None /\ over(s)}

\* The scheduler turns to task at with rows of subscriptions S.
Begin(at, S) == sched' = [Idle EXCEPT !.at = at] /\ list' = rows(S)

\* It goes on with the rest of the list of its task at.
Resume(at) == sched' = [Idle EXCEPT !.at = at] /\ UNCHANGED list

RunChecks ==
  /\ sched.at = "idle"
  /\ Begin("expiring", expired)
  /\ UNCHANGED <<now, tables, yoo, granted, request, hook>>

\* Mutant: only the user is written.
ExpireUserOnly(e) ==
  /\ sched.at = "expiring" /\ e \in list
  /\ sched' = [sched EXCEPT !.at = "downgrading", !.row = e.row]
  /\ list' = list \ {e}
  /\ UNCHANGED <<now, tables, yoo, granted, request, hook>>

Expire(e) ==
  /\ sched.at = "expiring" /\ e \in list
  /\ WriteSub(e.sub, [e.row EXCEPT !.status = "expired"])
  /\ sched' = [sched EXCEPT !.at = "downgrading", !.row = e.row]
  /\ list' = list \ {e}
  /\ UNCHANGED <<now, payments, userPlan, yoo, granted, request, hook>>

Downgrade ==
  /\ sched.at = "downgrading"
  /\ userPlan' = [userPlan EXCEPT ![sched.row.user] = Free]
  /\ Resume("expiring")
  /\ UNCHANGED <<now, subs, payments, yoo, granted, request, hook>>

BeginRenewals ==
  /\ sched.at = "expiring" /\ list = {}
  /\ Begin("renewing", renewable)
  /\ UNCHANGED <<now, tables, yoo, granted, request, hook>>

pending(s) == {p \in DOMAIN payments : payments[p].status = "pending" /\ payments[p].sub = s}

\* Mutant: pending payments are not looked for.
RenewAgain(e) ==
  /\ sched.at = "renewing" /\ e \in list
  /\ sched' = [sched EXCEPT !.at = "billing", !.sub = e.sub, !.row = e.row, !.invoice = nextInvoice]
  /\ list' = list \ {e}
  /\ UNCHANGED <<now, tables, yoo, granted, request, hook>>

\* A subscription with a pending payment is left alone.
Renew(e) ==
  /\ sched.at = "renewing" /\ e \in list
  /\ sched' = IF pending(e.sub) # {} THEN sched
              ELSE [sched EXCEPT !.at = "billing", !.sub = e.sub, !.row = e.row,
                                 !.invoice = nextInvoice]
  /\ list' = list \ {e}
  /\ UNCHANGED <<now, tables, yoo, granted, request, hook>>

BillRenewal ==
  /\ sched.at = "billing"
  /\ IF canPay(sched.sub, sched.invoice)
     THEN /\ Pay(sched.sub, sched.invoice)
          /\ sched' = [sched EXCEPT !.at = "calling", !.pay = nextId(payments)]
          /\ UNCHANGED list
     ELSE Resume("renewing") /\ UNCHANGED payments
  /\ UNCHANGED <<now, subs, userPlan, yoo, granted, request, hook>>

\* The saved method is charged without the user: the payment may be refused,
\* be open or have succeeded by the time of the answer, and the answer may get
\* lost.
CallAutopayment ==
  /\ sched.at = "calling"
  /\ \/ sched' = [sched EXCEPT !.at = "refused"] /\ UNCHANGED yoo
     \/ \E status \in {"open", "succeeded", "saved"}, at \in {"refused", "charged"} :
          /\ yoo' = [yoo EXCEPT ![sched.pay] = [status |-> status, invoice |-> sched.invoice,
                                                save |-> TRUE]]
          /\ sched' = [sched EXCEPT !.at = at, !.paid = (at = "charged" /\ status # "open")]
  /\ UNCHANGED <<now, tables, granted, request, hook, list>>

\* The row is written whole: pending again, whatever a webhook has made of it.
FailRenewal ==
  /\ sched.at = "refused"
  /\ WritePay(sched.pay, sched.sub, "failed")
  /\ Resume("renewing")
  /\ UNCHANGED <<now, subs, userPlan, yoo, granted, request, hook>>

SaveRenewal ==
  /\ sched.at = "charged"
  /\ WritePay(sched.pay, sched.sub, "pending")
  /\ IF sched.paid THEN sched' = [sched EXCEPT !.at = "marking"] /\ UNCHANGED list
                   ELSE Resume("renewing")
  /\ UNCHANGED <<now, subs, userPlan, yoo, granted, request, hook>>

MarkRenewal ==
  /\ sched.at = "marking"
  /\ WritePay(sched.pay, sched.sub, "success")
  /\ sched' = [sched EXCEPT !.at = "extending"]
  /\ UNCHANGED <<now, subs, userPlan, yoo, granted, request, hook, list>>

\* The copy read by BeginRenewals is written back.
ExtendPeriod ==
  /\ sched.at = "extending"
  /\ WriteSub(sched.sub, [sched.row EXCEPT !.status = "active", !.end = now + Month])
  /\ Resume("renewing")
  /\ UNCHANGED <<now, payments, userPlan, yoo, granted, request, hook>>

BeginChanges ==
  /\ sched.at = "renewing" /\ list = {}
  /\ Begin("changing", changing)
  /\ UNCHANGED <<now, tables, yoo, granted, request, hook>>

ApplyChange(e) ==
  /\ sched.at = "changing" /\ e \in list
  /\ WriteSub(e.sub, [e.row EXCEPT !.plan = e.row.next, !.next = None])
  /\ sched' = [sched EXCEPT !.at = "planning", !.row = e.row]
  /\ list' = list \ {e}
  /\ UNCHANGED <<now, payments, userPlan, yoo, granted, request, hook>>

ChangeUserPlan ==
  /\ sched.at = "planning"
  /\ userPlan' = [userPlan EXCEPT ![sched.row.user] = sched.row.next]
  /\ Resume("changing")
  /\ UNCHANGED <<now, subs, payments, yoo, granted, request, hook>>

BeginCleanup ==
  /\ sched.at = "changing" /\ list = {}
  /\ Begin("cleaningSubs", {})
  /\ UNCHANGED <<now, tables, yoo, granted, request, hook>>

stale == {p \in PayIds : payments[p].status = "pending" /\ payments[p].created < now}

\* PaymentRepository.DeleteStalePending, its first statement: references to
\* the deleted subscriptions become NULL.
DeleteSubs ==
  LET D == {s \in SubIds : subs[s].status = "pending" /\ \E p \in stale : payments[p].sub = s}
  IN /\ sched.at = "cleaningSubs"
     /\ subs' = [s \in SubIds |-> IF s \in D THEN [subs[s] EXCEPT !.status = "deleted"] ELSE subs[s]]
     /\ payments' = [p \in PayIds |-> IF payments[p].sub \in D THEN [payments[p] EXCEPT !.sub = 0]
                                                               ELSE payments[p]]
     /\ Resume("cleaningPayments")
     /\ UNCHANGED <<now, userPlan, yoo, granted, request, hook>>

\* Its second statement.
DeletePayments ==
  /\ sched.at = "cleaningPayments"
  /\ payments' = [p \in PayIds |-> IF p \in stale THEN [payments[p] EXCEPT !.status = "deleted"]
                                                 ELSE payments[p]]
  /\ Resume("idle")
  /\ UNCHANGED <<now, subs, userPlan, yoo, granted, request, hook>>

-----------------------------------------------------------------------------
UserRequest(u) ==
  \/ \E plan \in Plans, recurring \in BOOLEAN : Checkout(u, plan, recurring)
  \/ \E s \in SubIds : Cancel(u, s) \/ \E plan \in Plans \cup {Free} : ChangePlan(u, s, plan)
  \/ UpdateUser(u, u)

AdminRequest(a) ==
  \/ \E s \in SubIds : AdminCancel(a, s) \/ AdminExtend(a, s)
  \/ \E u \in Users : UpdateUser(a, u) \/ \E plan \in Plans \cup {Free} : UpdatePlan(a, u, plan)

RequestStep(r) ==
  \/ WriteSubscription(r)
  \/ SetUserPlan(r)

CheckoutStep(u) ==
  \/ CreateSubscription(u) \/ CreatePayment(u)
  \/ CallYooKassa(u) \/ SavePayment(u)

Notify(h) == \E p, q \in PayIds : NotifySucceeded(h, p, q) \/ NotifyCanceled(h, p, q)

HookStep(h) == MarkSuccess(h) \/ ReadSubscription(h) \/ Activate(h) \/ Upgrade(h) \/ MarkFailed(h)

SchedStep ==
  \/ \E e \in list : Expire(e) \/ Renew(e) \/ ApplyChange(e)
  \/ Downgrade \/ BeginRenewals
  \/ BillRenewal \/ CallAutopayment \/ FailRenewal \/ SaveRenewal \/ MarkRenewal \/ ExtendPeriod
  \/ BeginChanges \/ ChangeUserPlan \/ BeginCleanup \/ DeleteSubs \/ DeletePayments

Next ==
  \/ Tick
  \/ \E p \in PayIds : Settle(p)
  \/ \E u \in Users : UserRequest(u) \/ CheckoutStep(u)
  \/ \E a \in Admins : AdminRequest(a)
  \/ \E r \in Users \cup Admins : RequestStep(r)
  \/ \E h \in Hooks : Notify(h) \/ HookStep(h)
  \/ RunChecks \/ SchedStep

Spec == Init /\ [][Next]_vars

\* The server goes on with what it has begun, and the ticker starts the checks.
\* Nobody has to send requests, pay or notify, and the clock may stop.
Fairness ==
  /\ \A u \in Users : WF_vars(CheckoutStep(u))
  /\ \A r \in Users \cup Admins : WF_vars(RequestStep(r))
  /\ \A h \in Hooks : WF_vars(HookStep(h))
  /\ WF_vars(RunChecks) /\ WF_vars(SchedStep)

FairSpec == Spec /\ Fairness

-----------------------------------------------------------------------------
(* Properties.                                                             *)

\* The payments made with an invoice ID that was once given to subscription s;
\* it is backed by them, or by an admin.
receipts(s) == {p \in DOMAIN payments :
                  paid(p) /\ \E q \in DOMAIN payments : /\ payments[q].for = s
                                                        /\ payments[q].invoice = yoo[p].invoice}
backed(s) == s \in granted \/ receipts(s) # {}

entitled(u) == u \in granted \/ \E s \in DOMAIN subs : subs[s].user = u /\ backed(s)

\* Nobody has a paid plan for nothing: an active subscription has been paid
\* for, by a payment with its invoice ID, or extended by an admin; and a user
\* with a paid plan has had such a subscription, or an admin has chosen the
\* plan (handlePaymentSucceeded, handleAutopaymentSuccess,
\* handleAdminExtendSubscription, handleUpdateUser, handleUpdateProfile).
PaidUp ==
  /\ \A s \in DOMAIN subs : subs[s].status = "active" => backed(s)
  /\ \A u \in Users : userPlan[u] # Free => entitled(u)

\* A subscription never has two pending payments: the scheduler does not
\* charge for a renewal while one is pending, although it looks, creates the
\* row and rewrites it in separate steps (processRecurringRenewals).
OnePending == \A s \in DOMAIN subs : Cardinality(pending(s)) <= 1

\* Said by the code, and not so.

\* "will expire at period end" (handlers_payment.go:548): a subscription that
\* its user has cancelled comes to an end.
CancelledEnds ==
  \A s \in SubIds : subs[s].status = "cancelled" /\ over(s) ~> ~(subs[s].status = "cancelled" /\ over(s))
=============================================================================
