-------------------------- MODULE SubscriptionBilling --------------------------
(***************************************************************************)
(* The life of one organization's subscription (org_subscriptions, lib/    *)
(* billing): the Stripe webhook, the daily jobs, the reconciliation with   *)
(* Stripe and the operators all move the same row.  Most of them go        *)
(* through transitionSubscription, whose transaction runs at READ          *)
(* COMMITTED and takes no lock: SELECT the status, check the move, UPDATE. *)
(* The two statements are two steps here, `select' and `update'.           *)
(*                                                                         *)
(* Rows of different organizations meet only in the purge job's safety     *)
(* threshold, which is left open, as are the days the plans grant before a *)
(* closed subscription is archived and an archived one purged.             *)
(***************************************************************************)
EXTENDS Integers, FiniteSets

CONSTANTS
  Handlers,      \* webhook requests in progress
  Events,        \* ids of the events Stripe sends
  MaxBusy,       \* bound: operations in progress at the same time
  MaxFaults,     \* bound: processes that die and statements that fail
  PollerRuns     \* STRIPE_SECRET_KEY is configured, so the poller does its work

Jobs   == {"advance", "archive", "purge", "poller"}
Staff  == "staff"
Actors == Handlers \cup Jobs \cup {Staff}
None   == "none"

ASSUME BillingBounds == MaxBusy \in Nat /\ MaxFaults \in Nat /\ PollerRuns \in BOOLEAN
ASSUME BillingNames == Handlers \cap (Jobs \cup {Staff}) = {} /\ None \notin Events

Status  == {"trial", "active", "grace", "suspended", "cancelling", "cancelled",
            "archived", "purged"}
Columns == {"grace", "period"}
Moment  == {"none", "ahead", "past"}
Kinds   == {"checkout", "trialing", "activated", "deleted", "paid", "failed",
            "updated", "unknown"}
Live    == {"none", "active", "trialing", "past_due", "paused", "canceled"}

VARIABLES
  status,    \* org_subscriptions.status
  linked,    \* stripe_subscription_id is set
  date,      \* grace_period_ends_at and current_period_ends_at
  live,      \* the status of the subscription at Stripe
  kind,      \* what each event says, "unsent" before Stripe sends it
  claim,     \* the row of each event id in payment_webhook_events
  work,      \* each actor's next step, the event it handles, and the status in its
             \* hands: the one it moves to, or the one the poller's snapshot shows
  faults,
  moves,     \* history: how often each event has moved the row
  heeded,    \* history: the events that had their effect, or found nothing to do
  orphaned   \* history: the events whose handler died with the claim

row     == <<status, linked, date>>
history == <<moves, heeded, orphaned>>
vars    == <<status, linked, date, live, kind, claim, work, faults, moves, heeded, orphaned>>

Step == {"idle", "read", "checkout", "products", "select", "update", "mark", "release",
         "retrieve", "rescan"}
Idle == [step |-> "idle", event |-> None, to |-> None]
Work == [step : Step, event : Events \cup {None}, to : Status \cup {None}]

At(a, step)   == work[a].step = step
Aim(a, step, to) == work' = [work EXCEPT ![a] = [step |-> step, event |-> @.event, to |-> to]]
Goto(a, step) == Aim(a, step, None)
Rest(a)       == work' = [work EXCEPT ![a] = Idle]
Free(a)       == At(a, "idle") /\ Cardinality({b \in Actors : ~At(b, "idle")}) < MaxBusy
EventOf(h)    == work[h].event

NoDates == [c \in Columns |-> "none"]

\* Rows come from a sign-up (trial), the onboarding endpoint (a paid plan is active
\* at once) or an operator who assigned a plan (active, for thirty days).
Init ==
  /\ \/ status = "trial"  /\ date = NoDates
     \/ status = "active" /\ date \in {NoDates, [NoDates EXCEPT !.period = "ahead"]}
  /\ linked = FALSE /\ live = "none"
  /\ kind = [e \in Events |-> "unsent"] /\ claim = [e \in Events |-> "none"]
  /\ work = [a \in Actors |-> Idle]
  /\ faults = 0
  /\ moves = [e \in Events |-> 0] /\ heeded = {} /\ orphaned = {}

------------------------------------------------------------------------------
(* lifecycle-pure.ts *)

Transitions ==
  [trial      |-> {"active", "grace", "cancelling"},
   active     |-> {"grace", "cancelling", "active"},
   grace      |-> {"active", "suspended", "cancelling"},
   suspended  |-> {"active", "archived"},
   cancelling |-> {"active", "cancelled"},
   cancelled  |-> {"archived"},
   archived   |-> {"active", "purged"},
   purged     |-> {}]

CanTransition(from, to) == to \in Transitions[from]

MapStripeStatus(s) ==
  [active |-> "active", trialing |-> "trial", past_due |-> "grace",
   canceled |-> "cancelled", paused |-> "suspended"][s]

------------------------------------------------------------------------------
(* transitionSubscription, for whoever calls it *)

IsHandler(a) == a \in Handlers
Moved(e)     == moves' = [moves EXCEPT ![e] = @ + 1] /\ heeded' = heeded \cup {e}

\* Where a caller continues when the call returns, and when it throws.
Returned(a) == CASE IsHandler(a)                              -> "mark"
                 [] a = "advance" /\ work[a].to = "suspended" -> "rescan"
                 [] OTHER                                     -> "idle"
Thrown(a)   == IF IsHandler(a) THEN "release" ELSE "idle"

\* setColumns of the different callers.  The stamps the archive and purge jobs
\* count their windows from are left out: when a window is over is left open.
SetColumns(a) ==
  CASE IsHandler(a) /\ kind[EventOf(a)] = "failed" -> [date EXCEPT !.grace = "ahead"]
    [] IsHandler(a) /\ kind[EventOf(a)] = "paid"   -> [date EXCEPT !.grace = "none"]
    [] a = "poller" /\ work[a].to = "active"       -> [date EXCEPT !.grace = "none"]
    [] OTHER                                       -> date

Select(a) ==
  /\ At(a, "select")
  /\ IF CanTransition(status, work[a].to) THEN Aim(a, "update", work[a].to)
                                          ELSE Goto(a, Thrown(a))
  /\ UNCHANGED <<row, live, kind, claim, faults, history>>

\* The UPDATE is by id alone: the status may have changed since the SELECT.
Update(a) ==
  /\ At(a, "update")
  /\ status' = work[a].to /\ date' = SetColumns(a)
  /\ IF IsHandler(a) THEN Moved(EventOf(a)) ELSE UNCHANGED <<moves, heeded>>
  /\ Goto(a, Returned(a))
  /\ UNCHANGED <<linked, live, kind, claim, faults, orphaned>>

------------------------------------------------------------------------------
(* applyStripeWebhook *)

\* Mutant: a row still in processing is taken for one a crash left behind.
ClaimTakesOver(h, e) ==
  /\ Free(h) /\ kind[e] # "unsent" /\ claim[e] # "processed"
  /\ claim' = [claim EXCEPT ![e] = "processing"]
  /\ work' = [work EXCEPT ![h] = [step |-> "read", event |-> e, to |-> None]]
  /\ UNCHANGED <<row, live, kind, faults, history>>

\* Mutant: the claim is terminal from the start.
ClaimAsProcessed(h, e) ==
  /\ Free(h) /\ kind[e] # "unsent" /\ claim[e] = "none"
  /\ claim' = [claim EXCEPT ![e] = "processed"]
  /\ work' = [work EXCEPT ![h] = [step |-> "read", event |-> e, to |-> None]]
  /\ UNCHANGED <<row, live, kind, faults, history>>

\* INSERT ... ON CONFLICT DO NOTHING.  When the event has a row already, in
\* whatever status, the request is answered 200 and nothing happens.
Claim(h, e) ==
  /\ Free(h) /\ kind[e] # "unsent" /\ claim[e] = "none"
  /\ claim' = [claim EXCEPT ![e] = "processing"]
  /\ work' = [work EXCEPT ![h] = [step |-> "read", event |-> e, to |-> None]]
  /\ UNCHANGED <<row, live, kind, faults, history>>

\* Mutant: a deleted subscription takes Stripe's spelling of its status.
WantedAsSpelled == [trialing |-> "trial", activated |-> "active", deleted |-> "canceled",
                    paid |-> "active", failed |-> "grace"]

\* The status an event asks for, and the statuses in which it asks for it.
Wanted == [trialing |-> "trial", activated |-> "active", deleted |-> "cancelling",
           paid |-> "active", failed |-> "grace"]
WantedIn == [trialing  |-> Status \ {"trial"},
             activated |-> Status \ {"active"},
             deleted   |-> {"active", "trial", "grace"},
             paid      |-> {"grace"},
             failed    |-> {"active", "trial"}]
Moving(k) == k \in DOMAIN Wanted /\ status \in WantedIn[k]

\* findSubscriptionByStripeId, then the switch on the event's type.
Read(h) ==
  LET k == kind[EventOf(h)]
      untracked == k = "unknown" \/ ~linked
  IN /\ At(h, "read")
     /\ \/ k = "checkout" /\ Goto(h, "checkout")
        \/ k # "checkout" /\ untracked /\ Goto(h, "release")
        \/ k # "checkout" /\ ~untracked /\ ~Moving(k) /\ Goto(h, "mark")
        \/ ~untracked /\ Moving(k) /\ Aim(h, "select", Wanted[k])
     /\ heeded' = IF k # "checkout" /\ ~untracked /\ ~Moving(k) THEN heeded \cup {EventOf(h)}
                                                               ELSE heeded
     /\ UNCHANGED <<row, live, kind, claim, faults, moves, orphaned>>

\* applyCheckoutSessionCompleted: one transaction that looks at no status ...
Checkout(h) ==
  /\ At(h, "checkout")
  /\ status' = "active" /\ linked' = TRUE
  /\ Moved(EventOf(h))
  /\ Goto(h, "products")
  /\ UNCHANGED <<date, live, kind, claim, faults, orphaned>>

\* ... and then, outside of it, the organization's products.
Products(h) ==
  /\ At(h, "products")
  /\ Goto(h, "mark")
  /\ UNCHANGED <<row, live, kind, claim, faults, history>>

Mark(h) ==
  /\ At(h, "mark")
  /\ claim' = [claim EXCEPT ![EventOf(h)] = "processed"]
  /\ Rest(h)
  /\ UNCHANGED <<row, live, kind, faults, history>>

\* Mutant: the claim of a failed event is kept.
ReleaseKeepsClaim(h) ==
  /\ At(h, "release")
  /\ Rest(h)
  /\ UNCHANGED <<row, live, kind, claim, faults, history>>

\* DELETE ... WHERE status = 'processing'.
Release(h) ==
  /\ At(h, "release")
  /\ claim' = [claim EXCEPT ![EventOf(h)] = IF @ = "processing" THEN "none" ELSE @]
  /\ Rest(h)
  /\ UNCHANGED <<row, live, kind, faults, history>>

\* A statement fails: the claim is released and the exception rethrown.
HandlerFails(h) ==
  /\ faults < MaxFaults /\ faults' = faults + 1
  /\ work[h].step \in {"read", "checkout", "products", "select", "update"}
  /\ Goto(h, "release")
  /\ UNCHANGED <<row, live, kind, claim, history>>

\* The process dies, or the finalizing statement itself fails.
HandlerDies(h) ==
  /\ faults < MaxFaults /\ faults' = faults + 1
  /\ ~At(h, "idle")
  /\ orphaned' = orphaned \cup {EventOf(h)}
  /\ Rest(h)
  /\ UNCHANGED <<row, live, kind, claim, moves, heeded>>

Webhook(h) ==
  \/ \E e \in Events : Claim(h, e)
  \/ Read(h) \/ Checkout(h) \/ Products(h) \/ Mark(h) \/ Release(h)
  \/ HandlerFails(h) \/ HandlerDies(h)

------------------------------------------------------------------------------
(* The jobs.  Each runs once at a time, under its job lock. *)

JobUnchanged == UNCHANGED <<row, live, kind, claim, faults, history>>

\* Mutant: an unpaid subscription is closed, a move the table does not have.
ScanGraceCloses ==
  /\ Free("advance")
  /\ IF status = "grace" /\ date["grace"] = "past" THEN Aim("advance", "select", "cancelled")
                                                   ELSE Goto("advance", "rescan")
  /\ JobUnchanged

\* runSubscriptionAdvanceLifecycle: overdue grace first, ...
ScanGrace ==
  /\ Free("advance")
  /\ IF status = "grace" /\ date["grace"] = "past" THEN Aim("advance", "select", "suspended")
                                                   ELSE Goto("advance", "rescan")
  /\ JobUnchanged

\* ... then the cancellations whose period is over.
ScanCancelling ==
  /\ At("advance", "rescan")
  /\ IF status = "cancelling" /\ date["period"] = "past" THEN Aim("advance", "select", "cancelled")
                                                         ELSE Goto("advance", "idle")
  /\ JobUnchanged

\* runSubscriptionArchiveExpired
ScanClosed ==
  /\ Free("archive")
  /\ status \in {"suspended", "cancelled"}
  /\ Aim("archive", "select", "archived")
  /\ JobUnchanged

\* runSubscriptionPurgeArchived: the other organizations' rows decide whether the
\* batch stays under the safety threshold.
ScanArchived ==
  /\ Free("purge")
  /\ status = "archived"
  /\ Aim("purge", "select", "purged")
  /\ JobUnchanged

\* runStripeEventPoller: a snapshot of the linked rows, ...
ScanLinked ==
  /\ Free("poller") /\ PollerRuns
  /\ linked /\ status \notin {"archived", "purged"}
  /\ Aim("poller", "retrieve", status)
  /\ JobUnchanged

\* ... then, row by row, the status at Stripe; a request that fails, or an answer of
\* no use, is passed over.
Reconcile ==
  LET current == work["poller"].to
      target  == MapStripeStatus(live)
  IN /\ At("poller", "retrieve")
     /\ \/ target # current /\ CanTransition(current, target) /\ Aim("poller", "select", target)
        \/ Goto("poller", "idle")
     /\ JobUnchanged

\* A run dies, or ends on a failed statement.
JobDies(j) ==
  /\ faults < MaxFaults /\ faults' = faults + 1
  /\ ~At(j, "idle")
  /\ Rest(j)
  /\ UNCHANGED <<row, live, kind, claim, history>>

Advance == ScanGrace \/ ScanCancelling
Others  == ScanClosed \/ ScanArchived \/ ScanLinked \/ Reconcile

------------------------------------------------------------------------------
(* Operators: cancelSubscriptionAction and assignPlanInternal *)

CancelSubscription ==
  /\ Free(Staff)
  /\ status \notin {"cancelled", "cancelling"}
  /\ Aim(Staff, "select", "cancelling")
  /\ JobUnchanged

AssignPlan(startTrial) ==
  /\ Cardinality({b \in Actors : ~At(b, "idle")}) < MaxBusy
  /\ status' = IF startTrial THEN "trial" ELSE "active"
  /\ date' = [date EXCEPT !.period = IF startTrial THEN "none" ELSE "ahead"]
  /\ UNCHANGED <<linked, live, kind, claim, work, faults, history>>

------------------------------------------------------------------------------
(* Stripe, and time *)

\* The subscription's status at Stripe when it sends an event, and after it.
Emits(k, before, after) ==
  \/ k = "checkout"  /\ before \in {"none", "canceled"}     /\ after = "active"
  \/ k = "trialing"  /\ before \in {"active", "trialing"}   /\ after = "trialing"
  \/ k = "activated" /\ before = "active"                   /\ after = "active"
  \/ k = "deleted"   /\ before \notin {"none", "canceled"}  /\ after = "canceled"
  \/ k = "paid"      /\ before \notin {"none", "canceled"}  /\ after = "active"
  \/ k = "failed"    /\ before \in {"active", "trialing"}   /\ after = "past_due"
  \/ k = "updated"   /\ before \in {"active", "paused"}     /\ after \in {"active", "paused"}
  \/ k = "unknown"   /\ before # "none"                     /\ after = before

\* Stripe delivers an event any number of times and in any order (Claim).
Send(e) ==
  /\ kind[e] = "unsent"
  /\ \E k \in Kinds, after \in Live :
       /\ Emits(k, live, after)
       /\ kind' = [kind EXCEPT ![e] = k] /\ live' = after
  /\ UNCHANGED <<row, claim, work, faults, history>>

Elapse(c) ==
  /\ date[c] = "ahead"
  /\ date' = [date EXCEPT ![c] = "past"]
  /\ UNCHANGED <<status, linked, live, kind, claim, work, faults, history>>

------------------------------------------------------------------------------
Next ==
  \/ \E h \in Handlers : Webhook(h)
  \/ \E a \in Actors : Select(a) \/ Update(a)
  \/ Advance \/ Others
  \/ \E j \in Jobs : JobDies(j)
  \/ CancelSubscription \/ \E startTrial \in BOOLEAN : AssignPlan(startTrial)
  \/ \E e \in Events : Send(e)
  \/ \E c \in Columns : Elapse(c)

Spec == Init /\ [][Next]_vars

\* Handlers and operators' requests that are not killed run to their end, the daily
\* jobs fire again and again, and time passes.
FairSpec ==
  /\ Spec
  /\ \A a \in Actors : WF_vars(Select(a) \/ Update(a))
  /\ \A h \in Handlers : WF_vars(Read(h) \/ Checkout(h) \/ Products(h) \/ Mark(h) \/ Release(h))
  /\ WF_vars(Reconcile) /\ WF_vars(ScanCancelling) /\ SF_vars(ScanGrace)
  /\ \A c \in Columns : WF_vars(Elapse(c))

------------------------------------------------------------------------------
TypeOK ==
  /\ status \in Status /\ linked \in BOOLEAN /\ date \in [Columns -> Moment] /\ live \in Live
  /\ kind \in [Events -> Kinds \cup {"unsent"}]
  /\ claim \in [Events -> {"none", "processing", "processed"}]
  /\ work \in [Actors -> Work]
  /\ faults \in Nat /\ moves \in [Events -> Nat]
  /\ heeded \subseteq Events /\ orphaned \subseteq Events

\* However often Stripe delivers an event, to however many requests at once, it
\* moves the subscription at most once.  (A checkout that fails after its
\* transaction is applied again: stripe-subscription-bridge.ts, 305.)
EventMovesOnce == \A e \in Events : kind[e] # "checkout" => moves[e] <= 1

\* An event counts as processed, and is deduplicated for good, only when it had its
\* effect or found nothing to do; an exception on the way gives the claim back
\* (stripe-subscription-bridge.ts, 718).  It says nothing of a request that dies: its
\* claim stays in processing, every redelivery is refused as a duplicate, and the event
\* is lost, although lines 235-237 promise "a reclaimable row".
ProcessedWasHeeded == \A e \in Events : claim[e] = "processed" => e \in heeded

\* A claim that blocks every redelivery belongs to a request still at work, or to one
\* that died, which is the case nothing in the code ever repairs: a request that ends
\* by itself, also on an exception, leaves no claim in processing.
ClaimHasHandler ==
  \A e \in Events : claim[e] = "processing" =>
    e \in orphaned \/ \E h \in Handlers : EventOf(h) = e

\* Whatever else moves the row meanwhile, a grace period with a deadline ends, provided
\* the daily job is run again and again, which its job lock allows only with another
\* driver than the pinned one (JobLock).
GraceEnds == status = "grace" /\ date["grace"] # "none" ~> status # "grace"

==============================================================================
