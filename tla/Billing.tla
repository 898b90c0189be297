------------------------------- MODULE Billing ------------------------------
(***************************************************************************)
(* Plans of one organization: the billing routes and Stripe's webhooks     *)
(* (backend/src/server/billing/handlers.rs and service.rs).                *)
(*                                                                         *)
(* The organization's row follows the subscriptions Stripe keeps, through  *)
(* webhooks that may be handled concurrently, twice, and again after an    *)
(* error.  A webhook handler reads the row, enforces the restrictions of   *)
(* the new plan in several database calls, writes the whole row back and   *)
(* then cancels every other subscription of the customer.                  *)
(*                                                                         *)
(* Plans are told apart by what enforcement does to the daemons: the Free  *)
(* plan has no daemon_poll, every paid plan does.  The rows enforcement    *)
(* trims (networks, schedules, hosts) and the plan_status that mails and   *)
(* pages show are not kept here.                                           *)
(*                                                                         *)
(* Of Stripe's statuses "live" stands for Active and Trialing, the two the *)
(* code looks for, and "unpaid" for past_due, unpaid and paused: such a    *)
(* subscription exists and may be live again.  An incomplete one, whose    *)
(* first payment is out, does not exist yet here.                          *)
(***************************************************************************)
EXTENDS Naturals, Sequences, FiniteSets, SequencesExt

CONSTANTS
    Sub,         \* ids of subscriptions; Stripe never reuses one
    Customer,    \* the stream of events about payment methods
    Handler,     \* webhook requests that may be in progress at once
    Faults,      \* a subset of FaultKinds
    MaxBacklog,  \* bound: webhooks not yet acknowledged when the owner or
                 \* Stripe makes another change
    MaxCheckouts, \* bound: kinds of checkout session open at once
    NoEvent

FaultKinds == {"fails", "duplicate", "reordered", "overwritten"}

ASSUME SubAssumption == Customer \notin Sub
ASSUME FaultAssumption == Faults \subseteq FaultKinds
ASSUME BacklogAssumption ==
    MaxBacklog \in Nat \ {0} /\ MaxCheckouts \in Nat \ {0}

Stream == Sub \cup {Customer}
Plan == {"free", "paid"}

VARIABLES
    subs,      \* Stripe: the subscriptions
    cards,     \* Stripe: the customer has a payment method
    checkouts, \* Stripe: the open checkout sessions, one of a kind
    inbox,     \* Stripe: webhooks not yet acknowledged, by subscription
    org,       \* the organization's row
    standby,   \* its DaemonPoll daemons are in standby
    at,        \* a webhook handler's position
    ev,        \* the webhook it handles
    row,       \* its copy of the organization's row
    old        \* the subscriptions it is to cancel

stripe == <<subs, cards, checkouts, inbox>>
server == <<org, standby>>
handler == <<at, ev, row, old>>
vars == <<stripe, server, handler>>

Subscriptions ==
    [plan : Plan, status : {"none", "live", "unpaid", "canceled"},
     ending : BOOLEAN,  \* cancel_at_period_end
     trial : BOOLEAN]   \* trial_end is set

SubKinds == {"updated", "deleted", "paused"}
SubEvents == [kind : SubKinds, sub : Sub, data : Subscriptions]
CardEvents == [kind : {"attached", "detached"}]
Events == SubEvents \cup CardEvents

Rows ==
    [plan : Plan \cup {"none"},
     trialed : BOOLEAN,  \* trial_end_date is set
     card : BOOLEAN]     \* has_payment_method

Labels == {"idle", "pending", "daemons", "write",
           "list", "cancel", "create", "created", "card"}

BillingTypeOK ==
    /\ subs \in [Sub -> Subscriptions]
    /\ cards \in BOOLEAN
    /\ checkouts \subseteq [plan : Plan, trial : BOOLEAN]
    /\ inbox \in [Stream -> Seq(Events)]
    /\ org \in Rows
    /\ standby \in BOOLEAN
    /\ at \in [Handler -> Labels]
    /\ ev \in [Handler -> Events \cup {NoEvent}]
    /\ row \in [Handler -> Rows]
    /\ old \in [Handler -> SUBSET Sub]

NewOrg == [plan |-> "none", trialed |-> FALSE, card |-> FALSE]

Init ==
    /\ subs = [s \in Sub |-> [plan |-> "free", status |-> "none",
                              ending |-> FALSE, trial |-> FALSE]]
    /\ cards = FALSE
    /\ checkouts = {}
    /\ inbox = [k \in Stream |-> <<>>]
    /\ org = NewOrg
    /\ standby = FALSE
    /\ at = [h \in Handler |-> "idle"]
    /\ ev = [h \in Handler |-> NoEvent]
    /\ row = [h \in Handler |-> NewOrg]
    /\ old = [h \in Handler |-> {}]

-----------------------------------------------------------------------------
(* Stripe, as the code uses it *)

(* Active or Trialing *)
IsLive(s) == subs[s].status = "live"

(* What nobody reads of an ended subscription is not kept. *)
Ended == [plan |-> "free", status |-> "canceled", ending |-> FALSE, trial |-> FALSE]

(* It has not ended; it may be out of payment. *)
IsKept(s) == subs[s].status \in {"live", "unpaid"}

(* Webhooks do not pile up without bound. *)
Unacknowledged ==
    {w \in Stream \X (1 .. MaxBacklog) : w[2] <= Len(inbox[w[1]])}
Room == Cardinality(Unacknowledged) < MaxBacklog

(* Subscription s becomes data and a webhook of that kind tells of it. *)
Report(s, data, kind) ==
    /\ subs' = [subs EXCEPT ![s] = data]
    /\ inbox' = [inbox EXCEPT ![s] =
                   Append(@, [kind |-> kind, sub |-> s, data |-> data])]

(* The customer pays, or a trial needs no payment; the card is reported by *)
(* checkout.session.completed and payment_method.attached.                 *)
CompleteCheckout(c, s) ==
    LET data == [plan |-> c.plan, status |-> "live", ending |-> FALSE,
                 trial |-> c.trial]
        event == [kind |-> "updated", sub |-> s, data |-> data]
        paying == c.plan = "paid" /\ ~c.trial
    IN  /\ Room
        /\ c \in checkouts
        /\ subs[s].status = "none"
        /\ paying => inbox[Customer] = <<>>
        /\ checkouts' = checkouts \ {c}
        /\ subs' = [subs EXCEPT ![s] = data]
        /\ cards' = (cards \/ paying)
        /\ inbox' = [k \in Stream |->
                       IF k = s THEN <<event>>
                       ELSE IF k = Customer /\ paying
                       THEN <<[kind |-> "attached"]>>
                       ELSE inbox[k]]
        /\ UNCHANGED <<server, handler>>

(* Stripe tells of a renewal, the end of a trial, an invoice that is paid  *)
(* in time or late.                                                        *)
Renew(s) ==
    /\ Room
    /\ IsKept(s)
    /\ Report(s, [subs[s] EXCEPT !.status = "live"], "updated")
    /\ UNCHANGED <<cards, checkouts, server, handler>>

(* A payment stays out, or a trial ends without a card; one that ends with *)
(* its period has no invoice to come.                                      *)
FallBehind(s) ==
    /\ Room
    /\ IsKept(s)
    /\ subs[s].plan = "paid" /\ ~subs[s].ending
    /\ \E kind \in {"updated", "paused"} :
          Report(s, [subs[s] EXCEPT !.status = "unpaid"], kind)
    /\ UNCHANGED <<cards, checkouts, server, handler>>

(* Its period ends after a downgrade, or Stripe gives a payment up. *)
Expire(s) ==
    /\ Room
    /\ IsKept(s)
    /\ subs[s].plan = "paid"
    /\ Report(s, Ended, "deleted")
    /\ UNCHANGED <<cards, checkouts, server, handler>>

(* The customer sets up a card, or removes the last one in the portal. *)
ChangeCard ==
    /\ Room
    /\ inbox[Customer] = <<>>
    /\ cards' = ~cards
    /\ inbox' = [inbox EXCEPT ![Customer] =
                   <<[kind |-> IF cards THEN "detached" ELSE "attached"]>>]
    /\ UNCHANGED <<subs, checkouts, server, handler>>

-----------------------------------------------------------------------------
(* The billing routes; the owner chooses a plan *)

HasPlan == org.plan # "none"

(* A paid plan before, or a trial. *)
IsReturning == org.plan = "paid" \/ org.trialed

(* create_checkout_session, route and service; only some paid plans have a *)
(* trial.  Sessions opened before may have been abandoned.                 *)
Checkout(plan, trial) ==
    /\ trial => plan = "paid" /\ ~IsReturning
    /\ HasPlan => plan = "paid" /\ (~org.card \/ trial)
    /\ \E open \in SUBSET checkouts :
          /\ Cardinality(open) < MaxCheckouts
          /\ checkouts' = open \cup {[plan |-> plan, trial |-> trial]}
    /\ UNCHANGED <<subs, cards, inbox, server, handler>>

(* The route change_plan, for any plan and with no check of the card; the  *)
(* route above calls the same service for a paid one.                      *)
ChangePlan(s, plan) ==
    /\ Room
    /\ IsLive(s)
    /\ Report(s, [subs[s] EXCEPT !.plan = plan, !.ending = FALSE], "updated")
    /\ UNCHANGED <<cards, checkouts, server, handler>>

(* The checkout route with the Free plan as its target *)
ScheduleDowngrade(s) ==
    /\ Room
    /\ HasPlan
    /\ IsLive(s)
    /\ subs[s].plan = "paid"
    /\ Report(s, [subs[s] EXCEPT !.ending = TRUE], "updated")
    /\ UNCHANGED <<cards, checkouts, server, handler>>

-----------------------------------------------------------------------------
(* Webhook handlers *)

Goto(h, label) == at' = [at EXCEPT ![h] = label]

(* The event is answered with success; Stripe may still deliver it again. *)
Acknowledge(h) ==
    LET k == IF ev[h].kind \in SubKinds THEN ev[h].sub
             ELSE Customer
    IN  /\ \/ \E i \in 1 .. Len(inbox[k]) :
                 /\ inbox[k][i] = ev[h]
                 /\ \A j \in 1 .. i - 1 : inbox[k][j] # ev[h]
                 /\ inbox' = [inbox EXCEPT ![k] = RemoveAt(@, i)]
           \/ "duplicate" \in Faults /\ UNCHANGED inbox
        /\ Goto(h, "idle")
        /\ ev' = [ev EXCEPT ![h] = NoEvent]
        /\ row' = [row EXCEPT ![h] = NewOrg]

OtherLive(s) == {x \in Sub \ {s} : IsLive(x)}

Begin(h, e, label) ==
    /\ Goto(h, label)
    /\ ev' = [ev EXCEPT ![h] = e]
    /\ row' = [row EXCEPT ![h] = org]
    /\ UNCHANGED <<stripe, server, old>>

(* A webhook no handler is working on; in the order of its stream unless   *)
(* webhooks are reordered                                                  *)
Deliverable(k, i) ==
    /\ i \in 1 .. Len(inbox[k])
    /\ "reordered" \in Faults \/ i = 1
    /\ \A h \in Handler : ev[h] # inbox[k][i]

HandleSubscriptionUpdate(h, s, i) ==
    /\ at[h] = "idle"
    /\ Deliverable(s, i)
    /\ inbox[s][i].kind = "updated"
    /\ Begin(h, inbox[s][i],
             IF inbox[s][i].data.ending THEN "pending" ELSE "daemons")

(* What a row or a flag is after a write of new over old: another writer   *)
(* of the whole row, who read it before, may put back what was there (the  *)
(* onboarding subscriber, a daemon's heartbeat).                           *)
Stored(new, before) ==
    {new} \cup (IF "overwritten" \in Faults THEN {before} ELSE {})

(* Mutant: the downgrade takes effect at once. *)
MarkPendingFree(h) ==
    /\ at[h] = "pending"
    /\ org' \in Stored([row[h] EXCEPT !.plan = "free"], org)
    /\ Acknowledge(h)
    /\ UNCHANGED <<subs, cards, checkouts, standby, old>>

(* cancel_at_period_end: the plan is kept until the period ends. *)
MarkPending(h) ==
    /\ at[h] = "pending"
    /\ org' \in Stored(row[h], org)
    /\ Acknowledge(h)
    /\ UNCHANGED <<subs, cards, checkouts, standby, old>>

HandlePaymentMethod(h) ==
    /\ at[h] = "idle"
    /\ Deliverable(Customer, 1)
    /\ Begin(h, inbox[Customer][1], "card")

(* After a detachment the flag is cleared if no card is left at Stripe. *)
WriteCard(h) ==
    /\ at[h] = "card"
    /\ org' \in Stored(IF ev[h].kind = "attached" THEN [row[h] EXCEPT !.card = TRUE]
                       ELSE IF cards THEN org
                       ELSE [row[h] EXCEPT !.card = FALSE], org)
    /\ Acknowledge(h)
    /\ UNCHANGED <<subs, cards, checkouts, standby, old>>

(* Guard 2: the organization has another subscription, active or trialing. *)
SkipAutoFree(s) == OtherLive(s) # {}

(* A pause is handled like a deletion. *)
HandleSubscriptionDeleted(h, s, i) ==
    /\ at[h] = "idle"
    /\ Deliverable(s, i)
    /\ inbox[s][i].kind \in {"deleted", "paused"}
    /\ ~SkipAutoFree(s)
    /\ Begin(h, inbox[s][i], "daemons")

IgnoreSubscriptionDeleted(h, s, i) ==
    /\ at[h] = "idle"
    /\ Deliverable(s, i)
    /\ inbox[s][i].kind \in {"deleted", "paused"}
    /\ SkipAutoFree(s)
    /\ inbox' = [inbox EXCEPT ![s] = RemoveAt(@, i)]
    /\ UNCHANGED <<subs, cards, checkouts, server, handler>>

-----------------------------------------------------------------------------
(* enforce_plan_restrictions, for either handler; then the row is written *)

(* The plan that is enforced: a deletion's is the Free plan. *)
Target(h) == IF ev[h].kind = "updated" THEN ev[h].data.plan ELSE "free"

(* Mutant: standby is set and never cleared. *)
SetStandbyOnly(h) ==
    /\ at[h] = "daemons"
    /\ standby' \in Stored(standby \/ Target(h) = "free", standby)
    /\ Goto(h, "write")
    /\ UNCHANGED <<stripe, org, ev, row, old>>

(***************************************************************************)
(* 2. DaemonPoll daemons of an organization whose plan lacks daemon_poll   *)
(* go into standby, the others leave it.                                   *)
(***************************************************************************)
SetStandby(h) ==
    /\ at[h] = "daemons"
    /\ standby' \in Stored(Target(h) = "free", standby)
    /\ Goto(h, "write")
    /\ UNCHANGED <<stripe, org, ev, row, old>>

-----------------------------------------------------------------------------
(***************************************************************************)
(* The row that was read at the start is written back whole, with the plan *)
(* and what belongs to it.                                                 *)
(***************************************************************************)
WriteUpdated(h) ==
    LET data == ev[h].data
    IN  /\ at[h] = "write"
        /\ ev[h].kind = "updated"
        /\ org' \in Stored(IF data.plan = "free" THEN [row[h] EXCEPT !.plan = "free"]
                           ELSE [row[h] EXCEPT !.plan = "paid", !.trialed = data.trial],
                           org)
        /\ Goto(h, "list")
        /\ UNCHANGED <<stripe, standby, ev, row, old>>

(* Mutant: the plan is cleared by its status. *)
WriteDeletedStatus(h) ==
    /\ at[h] = "write"
    /\ ev[h].kind \in {"deleted", "paused"}
    /\ org' \in Stored([row[h] EXCEPT !.plan = "canceled", !.card = FALSE], org)
    /\ Goto(h, "create")
    /\ UNCHANGED <<stripe, standby, ev, row, old>>

WriteDeleted(h) ==
    /\ at[h] = "write"
    /\ ev[h].kind \in {"deleted", "paused"}
    /\ org' \in Stored([row[h] EXCEPT !.plan = "free", !.card = FALSE], org)
    /\ Goto(h, "create")
    /\ UNCHANGED <<stripe, standby, ev, row, old>>

(* Mutant: no subscription counts as a duplicate. *)
ListNothing(h) ==
    /\ at[h] = "list"
    /\ Goto(h, "cancel")
    /\ UNCHANGED <<stripe, server, ev, row, old>>

(* One that is out of payment is no duplicate to the code. *)
ListDuplicates(h) ==
    /\ at[h] = "list"
    /\ old' = [old EXCEPT ![h] = OtherLive(ev[h].sub)]
    /\ Goto(h, "cancel")
    /\ UNCHANGED <<stripe, server, ev, row>>

(* Cancelling what has ended by itself is an error, and the webhook fails. *)
CancelDuplicate(h, s) ==
    /\ at[h] = "cancel"
    /\ s \in old[h]
    /\ IsKept(s)
    /\ Report(s, Ended, "deleted")
    /\ old' = [old EXCEPT ![h] = @ \ {s}]
    /\ UNCHANGED <<cards, checkouts, server, at, ev, row>>

FinishUpdate(h) ==
    /\ at[h] = "cancel"
    /\ old[h] = {}
    /\ Acknowledge(h)
    /\ UNCHANGED <<subs, cards, checkouts, server, old>>

CreateFree(h, s) ==
    LET data == [plan |-> "free", status |-> "live", ending |-> FALSE,
                 trial |-> FALSE]
    IN  /\ at[h] = "create"
        /\ subs[s].status = "none"
        /\ Report(s, data, "updated")
        /\ Goto(h, "created")
        /\ UNCHANGED <<cards, checkouts, server, ev, row, old>>

FinishDelete(h) ==
    /\ at[h] = "created"
    /\ Acknowledge(h)
    /\ UNCHANGED <<subs, cards, checkouts, server, old>>

(***************************************************************************)
(* A call to the database or to Stripe fails, or the process ends: the     *)
(* webhook is not acknowledged, and Stripe will deliver it again.          *)
(***************************************************************************)
Fail(h) ==
    /\ at[h] # "idle"
    /\ \/ "fails" \in Faults
       \/ at[h] = "cancel" /\ \E s \in old[h] : ~IsKept(s)
    /\ Goto(h, "idle")
    /\ ev' = [ev EXCEPT ![h] = NoEvent]
    /\ row' = [row EXCEPT ![h] = NewOrg]
    /\ old' = [old EXCEPT ![h] = {}]
    /\ UNCHANGED <<stripe, server>>

-----------------------------------------------------------------------------
Handle(h) ==
    \/ \E s \in Sub : \E i \in 1 .. Len(inbox[s]) :
          \/ HandleSubscriptionUpdate(h, s, i)
          \/ HandleSubscriptionDeleted(h, s, i)
          \/ IgnoreSubscriptionDeleted(h, s, i)
    \/ HandlePaymentMethod(h) \/ WriteCard(h) \/ MarkPending(h)
    \/ SetStandby(h)
    \/ WriteUpdated(h) \/ ListDuplicates(h) \/ FinishUpdate(h)
    \/ WriteDeleted(h) \/ FinishDelete(h)
    \/ \E s \in Sub : CancelDuplicate(h, s) \/ CreateFree(h, s)

Owner ==
    \/ \E p \in Plan, trial \in BOOLEAN : Checkout(p, trial)
    \/ \E s \in Sub : ScheduleDowngrade(s) \/ \E p \in Plan : ChangePlan(s, p)

Stripe ==
    \/ \E c \in checkouts, s \in Sub : CompleteCheckout(c, s)
    \/ \E s \in Sub : Renew(s) \/ FallBehind(s) \/ Expire(s)
    \/ ChangeCard

Next ==
    \/ Owner \/ Stripe
    \/ \E h \in Handler : Handle(h) \/ Fail(h)

Spec == Init /\ [][Next]_vars

-----------------------------------------------------------------------------
(* Correctness *)

(* Every webhook has been handled. *)
Quiet ==
    /\ \A k \in Stream : inbox[k] = <<>>
    /\ \A h \in Handler : at[h] = "idle"

(***************************************************************************)
(* Once all webhooks are handled a customer has at most one subscription   *)
(* that is active or trialing, and is not left without any: whatever order *)
(* of checkouts, late payments, pauses, expiries, failed and repeated      *)
(* webhooks led there (the end of handle_subscription_update, the guards   *)
(* and the Free subscription of handle_subscription_deleted).  One that is *)
(* out of payment may stay beside it: see UnpaidIsReplaced.                *)
(***************************************************************************)
OneSubscription ==
    Quiet /\ (\E s \in Sub : subs[s].status # "none") =>
        /\ \A s, x \in Sub : IsLive(s) /\ IsLive(x) => s = x
        /\ \E s \in Sub : IsKept(s)

(***************************************************************************)
(* "When Stripe Checkout creates a new subscription for an existing        *)
(* customer, the old subscription still exists.  Clean it up."  It does    *)
(* not hold: an old subscription that is out of payment stays.             *)
(***************************************************************************)
UnpaidIsReplaced ==
    Quiet => \A s, x \in Sub : IsLive(s) /\ IsKept(x) => s = x

(***************************************************************************)
(* Once all webhooks are handled the organization is on the plan of its    *)
(* subscription.  It holds when webhooks are handled one at a time,        *)
(* however they fail and are repeated; a handler that overlaps another     *)
(* writes back a row it read before.                                       *)
(***************************************************************************)
PlanIsSubscribed ==
    Quiet => \A s \in Sub : IsLive(s) => org.plan = subs[s].plan

(***************************************************************************)
(* The daemons of an organization are in standby on the Free plan and not  *)
(* on a paid one, whichever webhooks failed half-way through the           *)
(* enforcement of a plan or were repeated.                                 *)
(***************************************************************************)
StandbyFollowsPlan ==
    Quiet => \A s \in Sub : IsLive(s) => standby = (subs[s].plan = "free")

(***************************************************************************)
(* A customer who has had a trial is a returning one from then on: the row *)
(* keeps trial_end_date through every later plan.                          *)
(***************************************************************************)
TrialIsRemembered ==
    [][org.trialed => org'.trialed]_vars
=============================================================================
