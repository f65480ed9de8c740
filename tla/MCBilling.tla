----------------------------- MODULE MCBilling -----------------------------
(* Four small instances of Billing, in one run. With a single subscription: a *)
(* user over a day with three payments, a user over two days with two, and a  *)
(* user and an admin with one; and a user with two subscriptions.             *)
EXTENDS Billing

CONSTANT Root

VARIABLE scene

Days == INSTANCE Billing WITH MaxPay <- 2, MaxTime <- 2
Helped == INSTANCE Billing WITH Admins <- {Root}, MaxPay <- 1
Pair == INSTANCE Billing WITH MaxSub <- 2, MaxPay <- 2

SceneInit ==
  \/ scene = "charges" /\ Init
  \/ scene = "days" /\ Days!Init
  \/ scene = "helped" /\ Helped!Init
  \/ scene = "pair" /\ Pair!Init

\* Rows of users are written in the scene with the admin, where nothing renews
\* itself, as there is one payment only.
NoUpdate == \A u \in Users : request'[u].at # "updating"
NoRenewal == \A u \in Users : ~request'[u].row.recurring

InDays(step) == scene = "days" /\ step /\ NoUpdate /\ UNCHANGED scene

SceneNext ==
  \/ InDays(Days!Next)
  \/ /\ UNCHANGED scene
     /\ \/ scene = "charges" /\ Next /\ NoUpdate
        \/ scene = "helped" /\ Helped!Next /\ NoRenewal
        \/ scene = "pair" /\ Pair!Next /\ NoUpdate

\* Fairness of Billing, where the clock gets far enough for it to matter.
SceneFairness ==
  /\ \A u \in Users : /\ WF_<<vars, scene>>(InDays(Days!CheckoutStep(u)))
                      /\ WF_<<vars, scene>>(InDays(Days!RequestStep(u)))
  /\ \A h \in Hooks : WF_<<vars, scene>>(InDays(Days!HookStep(h)))
  /\ WF_<<vars, scene>>(InDays(Days!RunChecks)) /\ WF_<<vars, scene>>(InDays(Days!SchedStep))

SceneSpec == SceneInit /\ [][SceneNext]_<<vars, scene>> /\ SceneFairness

-----------------------------------------------------------------------------
\* A subscription that does not renew itself is not active for long after its
\* end (processExpiredSubscriptions).
OverdueEnds ==
  \A s \in SubIds :
    (scene = "days" /\ subs[s].status = "active" /\ ~subs[s].recurring /\ over(s))
       ~> ~(subs[s].status = "active" /\ over(s))
=============================================================================
