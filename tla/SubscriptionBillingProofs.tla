----------------------- MODULE SubscriptionBillingProofs -----------------------
(***************************************************************************)
(* What SubscriptionBilling promises about the events of Stripe, for any   *)
(* number of webhook requests, events, faults and operations in progress.  *)
(* The inductive invariant follows an event through its one handler: while *)
(* a request holds it the row of the event reads `processing', so nobody   *)
(* else can claim it, and up to the update it has moved nothing.           *)
(***************************************************************************)
EXTENDS SubscriptionBilling, TLAPS

\* An actor about to move the row knows where to; a request at work, and nobody
\* else, has an event.
Aimed ==
  /\ \A a \in Actors : work[a].step \in {"select", "update", "retrieve"} => work[a].to \in Status
  /\ \A a \in Jobs \cup {Staff} : work[a].event = None
  /\ \A h \in Handlers : At(h, "idle") <=> EventOf(h) = None

\* Stripe has a status for every subscription the row can be linked to.
LiveKnown ==
  (linked \/ At("poller", "retrieve") \/ \E e \in Events : kind[e] = "checkout") => live # "none"

\* A busy request holds one event, whose row it alone keeps in `processing'.
Holding ==
  /\ \A h \in Handlers : EventOf(h) # None => claim[EventOf(h)] = "processing"
  /\ \A g, h \in Handlers : EventOf(g) = EventOf(h) /\ EventOf(g) # None => g = h

\* How far the request is tells what the event has done.
Progress ==
  \A h \in Handlers : EventOf(h) # None =>
    /\ work[h].step \in {"checkout", "products"} => kind[EventOf(h)] = "checkout"
    /\ work[h].step \in {"products", "mark"} => EventOf(h) \in heeded
    /\ kind[EventOf(h)] # "checkout" /\ work[h].step # "mark" => moves[EventOf(h)] = 0

\* An event nobody claimed has done nothing yet.
Untouched ==
  \A e \in Events :
    /\ kind[e] = "unsent" => claim[e] = "none"
    /\ claim[e] = "none" /\ kind[e] # "checkout" => moves[e] = 0

EventInv == Holding /\ Progress /\ Untouched /\ EventMovesOnce /\ ProcessedWasHeeded /\ ClaimHasHandler
TypeInv  == TypeOK /\ Aimed /\ LiveKnown
BillingInv == TypeInv /\ EventInv

------------------------------------------------------------------------------
(* How the work in the hands of the actors changes *)

LEMMA ActorsDistinct ==
  /\ \A j \in Jobs : j \in Actors /\ j \notin Handlers
  /\ Staff \in Actors /\ Staff \notin Handlers
  /\ \A h \in Handlers : h \in Actors
  /\ \A a \in Actors : a \notin Handlers => a \in Jobs \cup {Staff}
  /\ "advance" \in Jobs /\ "archive" \in Jobs /\ "purge" \in Jobs /\ "poller" \in Jobs
  BY BillingNames DEF Actors, Jobs, Staff

LEMMA AimStep ==
  ASSUME work \in [Actors -> Work], NEW a \in Actors, NEW s \in Step, NEW t \in Status \cup {None},
         Aim(a, s, t)
  PROVE  /\ work' \in [Actors -> Work]
         /\ work'[a] = [step |-> s, event |-> work[a].event, to |-> t]
         /\ \A b \in Actors : b # a => work'[b] = work[b]
  <1>1. [step |-> s, event |-> work[a].event, to |-> t] \in Work
    BY DEF Work
  <1> QED BY <1>1 DEF Aim

LEMMA GotoStep ==
  ASSUME work \in [Actors -> Work], NEW a \in Actors, NEW s \in Step, Goto(a, s)
  PROVE  /\ work' \in [Actors -> Work]
         /\ work'[a] = [step |-> s, event |-> work[a].event, to |-> None]
         /\ \A b \in Actors : b # a => work'[b] = work[b]
  BY AimStep DEF Goto

LEMMA RestStep ==
  ASSUME work \in [Actors -> Work], NEW a \in Actors, Rest(a)
  PROVE  /\ work' \in [Actors -> Work]
         /\ work'[a] = Idle
         /\ \A b \in Actors : b # a => work'[b] = work[b]
  BY DEF Rest, Idle, Work, Step

\* Aiming keeps the types and Aimed; only the poller's scan brings it to retrieve.
LEMMA AimTyped ==
  ASSUME TypeInv, NEW a \in Actors, NEW s \in Step, NEW t \in Status \cup {None}, Aim(a, s, t),
         s \in {"select", "update", "retrieve"} => t \in Status,
         a \in Handlers => ~At(a, "idle") /\ s # "idle"
  PROVE  /\ work' \in [Actors -> Work]
         /\ Aimed'
         /\ At("poller", "retrieve")' => At("poller", "retrieve") \/ s = "retrieve"
  <1>1. /\ work' \in [Actors -> Work]
        /\ work'[a] = [step |-> s, event |-> work[a].event, to |-> t]
        /\ \A b \in Actors : b # a => work'[b] = work[b]
    BY AimStep DEF TypeInv, TypeOK
  <1>2. \A b \in Actors : work'[b].step \in {"select", "update", "retrieve"} => work'[b].to \in Status
    BY <1>1 DEF TypeInv, Aimed
  <1>3. \A b \in Actors : work'[b].event = work[b].event
    BY <1>1
  <1>4. \A b \in Jobs \cup {Staff} : work'[b].event = None
    BY <1>3, ActorsDistinct DEF TypeInv, Aimed
  <1>5. \A h \in Handlers : At(h, "idle")' <=> EventOf(h)' = None
    BY <1>1, ActorsDistinct DEF TypeInv, Aimed, At, EventOf
  <1>6. At("poller", "retrieve")' => At("poller", "retrieve") \/ s = "retrieve"
    BY <1>1, ActorsDistinct DEF At
  <1> QED BY <1>1, <1>2, <1>4, <1>5, <1>6 DEF Aimed

LEMMA GotoTyped ==
  ASSUME TypeInv, NEW a \in Actors, NEW s \in Step \ {"select", "update", "retrieve"}, Goto(a, s),
         a \in Handlers => ~At(a, "idle") /\ s # "idle"
  PROVE  /\ work' \in [Actors -> Work]
         /\ Aimed'
         /\ At("poller", "retrieve")' => At("poller", "retrieve")
  BY AimTyped DEF Goto

LEMMA RestTyped ==
  ASSUME TypeInv, NEW a \in Actors, Rest(a)
  PROVE  /\ work' \in [Actors -> Work]
         /\ Aimed'
         /\ At("poller", "retrieve")' => At("poller", "retrieve")
  <1>1. /\ work' \in [Actors -> Work]
        /\ work'[a] = Idle
        /\ \A b \in Actors : b # a => work'[b] = work[b]
    BY RestStep DEF TypeInv, TypeOK
  <1>2. Aimed'
    BY <1>1, ActorsDistinct DEF TypeInv, Aimed, At, EventOf, Idle
  <1>3. At("poller", "retrieve")' => At("poller", "retrieve")
    BY <1>1, ActorsDistinct DEF At, Idle
  <1> QED BY <1>1, <1>2, <1>3

\* Steps that leave the row and the events alone: the work is all that counts.
LEMMA WorkOnlyTyped ==
  ASSUME TypeInv, work' \in [Actors -> Work], Aimed',
         At("poller", "retrieve")' => At("poller", "retrieve") \/ linked,
         UNCHANGED <<row, live, kind, claim, moves, orphaned>>,
         faults' \in Nat, heeded' \subseteq Events
  PROVE  TypeInv'
  BY DEF TypeInv, TypeOK, LiveKnown, row

LEMMA TypeInit == Init => TypeInv
  <1> SUFFICES ASSUME Init PROVE TypeInv
    OBVIOUS
  <1>1. Idle \in Work /\ Idle.step = "idle" /\ Idle.event = None
    BY DEF Idle, Work, Step
  <1>2. date \in [Columns -> Moment]
    BY DEF Init, NoDates, Columns, Moment
  <1>3. TypeOK
    BY <1>1, <1>2 DEF Init, TypeOK, Status, Live, Kinds
  <1>4. Aimed
    BY <1>1, ActorsDistinct DEF Init, Aimed, At, EventOf
  <1>5. LiveKnown
    BY <1>1, ActorsDistinct DEF Init, LiveKnown, At
  <1> QED BY <1>3, <1>4, <1>5 DEF TypeInv

LEMMA SelectTyped == ASSUME TypeInv, NEW a \in Actors, Select(a) PROVE TypeInv'
  <1>1. CASE Aim(a, "update", work[a].to)
    <2>1. work[a].to \in Status
      BY DEF TypeInv, Aimed, Select, At
    <2> QED BY <1>1, <2>1, AimTyped, WorkOnlyTyped DEF Select, Step, At, TypeInv, TypeOK, history
  <1>2. CASE Goto(a, Thrown(a))
    <2>1. Thrown(a) \in Step \ {"select", "update", "retrieve"}
      BY DEF Thrown, Step
    <2>2. a \in Handlers => ~At(a, "idle") /\ Thrown(a) # "idle"
      BY DEF Select, At, Thrown, IsHandler
    <2> QED BY <1>2, <2>1, <2>2, GotoTyped, WorkOnlyTyped DEF Select, TypeInv, TypeOK, history
  <1> QED BY <1>1, <1>2 DEF Select

LEMMA DatesTyped == ASSUME TypeInv, NEW a \in Actors PROVE SetColumns(a) \in [Columns -> Moment]
  <1>1. date \in [Columns -> Moment] /\ "grace" \in Columns /\ {"ahead", "none"} \subseteq Moment
    BY DEF TypeInv, TypeOK, Columns, Moment
  <1> QED BY <1>1 DEF SetColumns

LEMMA UpdateTyped == ASSUME TypeInv, NEW a \in Actors, Update(a) PROVE TypeInv'
  <1>1. work[a].to \in Status
    BY DEF TypeInv, Aimed, Update, At
  <1>2. Returned(a) \in Step \ {"select", "update", "retrieve"}
    BY DEF Returned, Step
  <1>3. work' \in [Actors -> Work] /\ Aimed' /\ (At("poller", "retrieve")' => At("poller", "retrieve"))
    <2>1. a \in Handlers => ~At(a, "idle") /\ Returned(a) # "idle"
      BY DEF Update, At, Returned, IsHandler
    <2> QED BY <1>2, <2>1, GotoTyped DEF Update
  <1>4. date' \in [Columns -> Moment]
    BY DatesTyped DEF Update
  <1>5. moves' \in [Events -> Nat] /\ heeded' \subseteq Events
    <2>1. CASE IsHandler(a)
      <3>1. work[a].event \in Events \cup {None}
        BY DEF TypeInv, TypeOK, Work
      <3>2. EventOf(a) \in Events
        BY <2>1, <3>1 DEF TypeInv, Aimed, Update, At, EventOf, IsHandler
      <3> QED BY <2>1, <3>2 DEF Update, Moved, TypeInv, TypeOK
    <2>2. CASE ~IsHandler(a)
      BY <2>2 DEF Update, TypeInv, TypeOK
    <2> QED BY <2>1, <2>2
  <1> QED BY <1>1, <1>3, <1>4, <1>5 DEF Update, TypeInv, TypeOK, LiveKnown

LEMMA ClaimTyped == ASSUME TypeInv, NEW h \in Handlers, NEW e \in Events, Claim(h, e) PROVE TypeInv'
  <1>1. [step |-> "read", event |-> e, to |-> None] \in Work
    BY DEF Work, Step
  <1>2. /\ work' \in [Actors -> Work]
        /\ work'[h] = [step |-> "read", event |-> e, to |-> None]
        /\ \A b \in Actors : b # h => work'[b] = work[b]
    BY <1>1, ActorsDistinct DEF Claim, TypeInv, TypeOK
  <1>3. Aimed'
    BY <1>2, ActorsDistinct, BillingNames DEF TypeInv, Aimed, At, EventOf
  <1>4. At("poller", "retrieve")' => At("poller", "retrieve")
    BY <1>2, ActorsDistinct DEF At
  <1> QED BY <1>2, <1>3, <1>4 DEF Claim, TypeInv, TypeOK, LiveKnown, row, history

LEMMA ReadTyped == ASSUME TypeInv, NEW h \in Handlers, Read(h) PROVE TypeInv'
  <1>1. h \in Actors /\ ~At(h, "idle") /\ EventOf(h) \in Events
    BY ActorsDistinct DEF TypeInv, TypeOK, Aimed, Read, At, EventOf, Work
  <1>2. \A k \in DOMAIN Wanted : Wanted[k] \in Status
    BY DEF Wanted, Status
  <1>3. /\ work' \in [Actors -> Work] /\ Aimed'
        /\ At("poller", "retrieve")' => At("poller", "retrieve")
    <2>1. CASE Goto(h, "checkout") \/ Goto(h, "release") \/ Goto(h, "mark")
      BY <1>1, <2>1, GotoTyped DEF Step
    <2>2. CASE Moving(kind[EventOf(h)]) /\ Aim(h, "select", Wanted[kind[EventOf(h)]])
      <3>1. Wanted[kind[EventOf(h)]] \in Status
        BY <1>2, <2>2 DEF Moving
      <3> QED BY <1>1, <2>2, <3>1, AimTyped DEF Step
    <2> QED BY <2>1, <2>2 DEF Read
  <1>4. heeded' \subseteq Events
    BY <1>1 DEF Read, TypeInv, TypeOK
  <1> QED BY <1>3, <1>4, WorkOnlyTyped DEF Read, TypeInv, TypeOK

LEMMA HandlerTyped ==
  ASSUME TypeInv, Progress, NEW h \in Handlers,
         Checkout(h) \/ Products(h) \/ Mark(h) \/ Release(h) \/ HandlerFails(h) \/ HandlerDies(h)
  PROVE  TypeInv'
  <1>0. h \in Actors
    BY ActorsDistinct
  <1>1. \A s \in Step \ {"idle"} : At(h, s) => EventOf(h) \in Events /\ ~At(h, "idle")
    BY <1>0 DEF TypeInv, TypeOK, Aimed, At, EventOf, Work
  <1>2. CASE Checkout(h)
    <2>1. EventOf(h) \in Events /\ ~At(h, "idle")
      BY <1>1, <1>2 DEF Checkout, Step
    <2>2. /\ work' \in [Actors -> Work] /\ Aimed'
          /\ At("poller", "retrieve")' => At("poller", "retrieve")
      BY <1>0, <1>2, <2>1, GotoTyped DEF Checkout, Step
    <2>3. live # "none"
      BY <1>2, <2>1, BillingNames DEF Checkout, At, EventOf, Progress, TypeInv, LiveKnown
    <2> QED BY <1>2, <2>1, <2>2, <2>3 DEF Checkout, Moved, TypeInv, TypeOK, LiveKnown, Status
  <1>3. CASE Products(h)
    <2>1. ~At(h, "idle")
      BY <1>1, <1>3 DEF Products, Step
    <2> QED BY <1>0, <1>3, <2>1, GotoTyped, WorkOnlyTyped DEF Products, Step, TypeInv, TypeOK, history
  <1>4. CASE Mark(h)
    <2>1. EventOf(h) \in Events
      BY <1>1, <1>4 DEF Mark, Step
    <2> QED BY <1>0, <1>4, <2>1, RestTyped DEF Mark, TypeInv, TypeOK, LiveKnown, row, history
  <1>5. CASE Release(h)
    <2>1. EventOf(h) \in Events
      BY <1>1, <1>5 DEF Release, Step
    <2> QED BY <1>0, <1>5, <2>1, RestTyped DEF Release, TypeInv, TypeOK, LiveKnown, row, history
  <1>6. CASE HandlerFails(h)
    <2>1. ~At(h, "idle") /\ faults' \in Nat
      BY <1>6 DEF HandlerFails, At, TypeInv, TypeOK
    <2> QED BY <1>0, <1>6, <2>1, GotoTyped, WorkOnlyTyped DEF HandlerFails, Step, TypeInv, TypeOK, history
  <1>7. CASE HandlerDies(h)
    <2>1. EventOf(h) \in Events /\ faults' \in Nat
      BY <1>0, <1>7 DEF HandlerDies, At, EventOf, TypeInv, TypeOK, Aimed, Work
    <2> QED BY <1>0, <1>7, <2>1, RestTyped DEF HandlerDies, TypeInv, TypeOK, LiveKnown, row
  <1> QED BY <1>2, <1>3, <1>4, <1>5, <1>6, <1>7

LEMMA JobsTyped ==
  ASSUME TypeInv, Advance \/ Others \/ (\E j \in Jobs : JobDies(j)) \/ CancelSubscription
  PROVE  TypeInv'
  <1>1. CASE ScanGrace
    BY <1>1, ActorsDistinct, AimTyped, GotoTyped, WorkOnlyTyped
    DEF ScanGrace, Free, JobUnchanged, TypeInv, TypeOK, Step, Status, history
  <1>2. CASE ScanCancelling
    BY <1>2, ActorsDistinct, AimTyped, GotoTyped, WorkOnlyTyped
    DEF ScanCancelling, JobUnchanged, TypeInv, TypeOK, Step, Status, history
  <1>3. CASE ScanClosed
    BY <1>3, ActorsDistinct, AimTyped, WorkOnlyTyped
    DEF ScanClosed, JobUnchanged, TypeInv, TypeOK, Step, Status, history
  <1>4. CASE ScanArchived
    BY <1>4, ActorsDistinct, AimTyped, WorkOnlyTyped
    DEF ScanArchived, JobUnchanged, TypeInv, TypeOK, Step, Status, history
  <1>5. CASE ScanLinked
    BY <1>5, ActorsDistinct, AimTyped, WorkOnlyTyped
    DEF ScanLinked, JobUnchanged, TypeInv, TypeOK, Step, Status, history
  <1>6. CASE Reconcile
    <2>1. live # "none"
      BY <1>6 DEF Reconcile, TypeInv, LiveKnown
    <2>2. MapStripeStatus(live) \in Status
      BY <2>1 DEF MapStripeStatus, TypeInv, TypeOK, Live, Status
    <2> QED BY <1>6, <2>2, ActorsDistinct, AimTyped, GotoTyped, WorkOnlyTyped
            DEF Reconcile, JobUnchanged, TypeInv, TypeOK, Step, history
  <1>7. ASSUME NEW j \in Jobs, JobDies(j) PROVE TypeInv'
    <2>1. faults' \in Nat /\ j \in Actors
      BY <1>7, ActorsDistinct DEF JobDies, TypeInv, TypeOK
    <2> QED BY <1>7, <2>1, RestTyped, WorkOnlyTyped DEF JobDies, TypeInv, TypeOK, history
  <1>8. CASE CancelSubscription
    BY <1>8, ActorsDistinct, AimTyped, WorkOnlyTyped
    DEF CancelSubscription, JobUnchanged, TypeInv, TypeOK, Step, Status, history
  <1> QED BY <1>1, <1>2, <1>3, <1>4, <1>5, <1>6, <1>7, <1>8 DEF Advance, Others

LEMMA RowTyped ==
  ASSUME TypeInv,
         \/ \E b \in BOOLEAN : AssignPlan(b)
         \/ \E e \in Events : Send(e)
         \/ \E c \in Columns : Elapse(c)
         \/ UNCHANGED vars
  PROVE  TypeInv'
  <1>1. ASSUME NEW b \in BOOLEAN, AssignPlan(b) PROVE TypeInv'
    BY <1>1 DEF AssignPlan, TypeInv, TypeOK, Aimed, LiveKnown, At, EventOf, history, Status, Columns, Moment
  <1>2. ASSUME NEW e \in Events, Send(e) PROVE TypeInv'
    <2>1. PICK k \in Kinds, after \in Live :
            Emits(k, live, after) /\ kind' = [kind EXCEPT ![e] = k] /\ live' = after
      BY <1>2 DEF Send
    <2>2. (live # "none" => live' # "none") /\ (k = "checkout" => live' # "none")
      BY <2>1 DEF Emits
    <2>3. LiveKnown'
      BY <1>2, <2>1, <2>2 DEF Send, TypeInv, TypeOK, LiveKnown, At, row
    <2> QED BY <1>2, <2>1, <2>3 DEF Send, TypeInv, TypeOK, Aimed, At, EventOf, row, history
  <1>3. ASSUME NEW c \in Columns, Elapse(c) PROVE TypeInv'
    BY <1>3 DEF Elapse, TypeInv, TypeOK, Aimed, LiveKnown, At, EventOf, history, Columns, Moment
  <1>4. CASE UNCHANGED vars
    BY <1>4 DEF vars, TypeInv, TypeOK, Aimed, LiveKnown, At, EventOf
  <1> QED BY <1>1, <1>2, <1>3, <1>4

LEMMA TypeNext == TypeInv /\ Progress /\ [Next]_vars => TypeInv'
  BY SelectTyped, UpdateTyped, ClaimTyped, ReadTyped, HandlerTyped, JobsTyped, RowTyped
  DEF Next, Webhook

------------------------------------------------------------------------------
(* The events *)

\* Nothing about the events changes with the steps of those who hold none.
LEMMA BystanderKeepsEvents ==
  ASSUME EventInv, \A h \in Handlers : work'[h] = work[h],
         UNCHANGED <<kind, claim, history>>
  PROVE  EventInv'
  BY DEF EventInv, Holding, Progress, Untouched, EventMovesOnce, ProcessedWasHeeded, ClaimHasHandler,
         EventOf, history

\* A request goes on with its event, has it moved the row at most once, and comes
\* to no step the event is not ready for.
Carries(h, s) ==
  /\ work'[h].event = EventOf(h) /\ work'[h].step = s /\ work[h].step # "mark"
  /\ \A b \in Actors : b # h => work'[b] = work[b]
  /\ UNCHANGED <<kind, claim, orphaned>>
  /\ heeded' \in {heeded, heeded \cup {EventOf(h)}}
  /\ \/ moves' = moves
     \/ kind[EventOf(h)] = "checkout" /\ \A f \in Events \ {EventOf(h)} : moves'[f] = moves[f]
     \/ s = "mark" /\ moves' = [moves EXCEPT ![EventOf(h)] = @ + 1]
        /\ (kind[EventOf(h)] # "checkout" => moves[EventOf(h)] = 0)
  /\ s \in {"checkout", "products"} => kind[EventOf(h)] = "checkout"
  /\ s \in {"products", "mark"} => EventOf(h) \in heeded'

LEMMA HandlerKeepsEvents ==
  ASSUME TypeInv, EventInv, NEW h \in Handlers, EventOf(h) \in Events, NEW s \in Step, Carries(h, s)
  PROVE  EventInv'
  <1> DEFINE e == EventOf(h)
  <1> USE DEF Carries
  <1>1. \A g \in Handlers : EventOf(g)' = EventOf(g) /\ (g # h => work'[g] = work[g])
    BY ActorsDistinct DEF EventOf
  <1>2. e # None
    BY BillingNames
  <1>3. Holding'
    BY <1>1 DEF EventInv, Holding
  <1>4. \A f \in Events : f # e => moves'[f] = moves[f]
    BY DEF TypeInv, TypeOK
  <1>5. \A g \in Handlers : g # h /\ EventOf(g) # None => EventOf(g) # e /\ EventOf(g) \in Events
    BY <1>2, ActorsDistinct DEF EventInv, Holding, TypeInv, TypeOK, Work, EventOf
  <1>6. Progress'
    <2> SUFFICES ASSUME NEW g \in Handlers, EventOf(g)' # None
                 PROVE  /\ work'[g].step \in {"checkout", "products"} => kind[EventOf(g)] = "checkout"
                        /\ work'[g].step \in {"products", "mark"} => EventOf(g) \in heeded'
                        /\ kind[EventOf(g)] # "checkout" /\ work'[g].step # "mark" => moves'[EventOf(g)] = 0
      BY <1>1 DEF Progress
    <2>1. CASE g = h
      BY <1>2, <2>1 DEF EventInv, Progress
    <2>2. CASE g # h
      BY <1>1, <1>4, <1>5, <2>2 DEF EventInv, Progress
    <2> QED BY <2>1, <2>2
  <1>7. claim[e] = "processing" /\ kind[e] # "unsent"
    BY <1>2 DEF EventInv, Holding, Untouched
  <1>8. Untouched'
    BY <1>4, <1>7 DEF EventInv, Untouched
  <1>9. EventMovesOnce'
    BY <1>4 DEF EventInv, EventMovesOnce, TypeInv, TypeOK
  <1>10. ProcessedWasHeeded'
    BY DEF EventInv, ProcessedWasHeeded
  <1>11. ClaimHasHandler'
    BY <1>1 DEF EventInv, ClaimHasHandler
  <1> QED BY <1>3, <1>6, <1>8, <1>9, <1>10, <1>11 DEF EventInv

LEMMA InvInit == Init => EventInv
  <1> SUFFICES ASSUME Init PROVE EventInv
    OBVIOUS
  <1>1. \A h \in Handlers : EventOf(h) = None
    BY ActorsDistinct DEF Init, EventOf, Idle
  <1> QED BY <1>1 DEF Init, EventInv, Holding, Progress, Untouched, EventMovesOnce,
                      ProcessedWasHeeded, ClaimHasHandler

LEMMA BusyHandler ==
  ASSUME TypeInv, NEW h \in Handlers, ~At(h, "idle")
  PROVE  h \in Actors /\ EventOf(h) \in Events
  BY ActorsDistinct DEF TypeInv, TypeOK, Aimed, At, EventOf, Work

LEMMA SelectEvents == ASSUME TypeInv, EventInv, NEW a \in Actors, Select(a) PROVE EventInv'
  <1>1. PICK s \in Step, t \in Status \cup {None} :
          /\ Aim(a, s, t)
          /\ a \in Handlers => s \in {"update", "release"}
    <2>1. work[a].to \in Status
      BY DEF TypeInv, Aimed, Select, At
    <2>2. Thrown(a) \in Step /\ (a \in Handlers => Thrown(a) = "release")
      BY DEF Thrown, Step, IsHandler
    <2> QED BY <2>1, <2>2 DEF Select, Goto, Step
  <1>2. /\ work'[a] = [step |-> s, event |-> work[a].event, to |-> t]
        /\ \A b \in Actors : b # a => work'[b] = work[b]
    BY <1>1, AimStep DEF TypeInv, TypeOK
  <1>3. CASE a \in Handlers
    <2>1. EventOf(a) \in Events /\ work[a].step # "mark"
      BY <1>3, BusyHandler DEF Select, At
    <2> QED BY <1>1, <1>2, <1>3, <2>1, HandlerKeepsEvents DEF Carries, Select, EventOf, history
  <1>4. CASE a \notin Handlers
    BY <1>2, <1>4, ActorsDistinct, BystanderKeepsEvents DEF Select, history
  <1> QED BY <1>3, <1>4

LEMMA UpdateEvents == ASSUME TypeInv, EventInv, NEW a \in Actors, Update(a) PROVE EventInv'
  <1>1. /\ work'[a] = [step |-> Returned(a), event |-> work[a].event, to |-> None]
        /\ \A b \in Actors : b # a => work'[b] = work[b]
    <2>1. Returned(a) \in Step
      BY DEF Returned, Step
    <2> QED BY <2>1, GotoStep DEF Update, TypeInv, TypeOK
  <1>2. CASE a \in Handlers
    <2>1. EventOf(a) \in Events /\ work[a].step # "mark" /\ Returned(a) = "mark"
      <3>1. work[a].step = "update"
        BY DEF Update, At
      <3>2. EventOf(a) \in Events
        BY <1>2, <3>1, BusyHandler DEF At
      <3>3. Returned(a) = "mark"
        BY <1>2, ActorsDistinct DEF Returned, IsHandler
      <3> QED BY <3>1, <3>2, <3>3
    <2>2. /\ moves' = [moves EXCEPT ![EventOf(a)] = @ + 1]
          /\ heeded' = heeded \cup {EventOf(a)}
      BY <1>2 DEF Update, Moved, IsHandler
    <2>3. kind[EventOf(a)] # "checkout" => moves[EventOf(a)] = 0
      BY <1>2, <2>1, BillingNames DEF EventInv, Progress
    <2>4. \A f \in Events \ {EventOf(a)} : moves'[f] = moves[f]
      BY <2>1, <2>2 DEF TypeInv, TypeOK
    <2>5. /\ "mark" \in Step /\ work'[a].event = EventOf(a) /\ work'[a].step = "mark"
      BY <1>1, <2>1 DEF EventOf, Step
    <2>6. EventOf(a) \in heeded' /\ UNCHANGED <<kind, claim, orphaned>>
      BY <2>2 DEF Update
    <2> QED BY <1>1, <1>2, <2>1, <2>2, <2>3, <2>4, <2>5, <2>6, HandlerKeepsEvents DEF Carries
  <1>3. CASE a \notin Handlers
    BY <1>1, <1>3, ActorsDistinct, BystanderKeepsEvents DEF Update, IsHandler, history
  <1> QED BY <1>2, <1>3

\* The row of the event is new: no request held the event, and it had done nothing.
LEMMA ClaimEvents ==
  ASSUME TypeInv, EventInv, NEW h \in Handlers, NEW e \in Events, Claim(h, e)
  PROVE  EventInv'
  <1>1. /\ work'[h] = [step |-> "read", event |-> e, to |-> None]
        /\ \A g \in Handlers : g # h => work'[g] = work[g]
    BY ActorsDistinct DEF Claim, TypeInv, TypeOK
  <1>2. EventOf(h) = None
    BY DEF Claim, Free, TypeInv, Aimed
  <1>3. e # None
    BY BillingNames
  <1>4. \A g \in Handlers : EventOf(g) # e
    BY <1>3 DEF Claim, EventInv, Holding
  <1>5. \A g \in Handlers : EventOf(g)' = IF g = h THEN e ELSE EventOf(g)
    BY <1>1 DEF EventOf
  <1>6. \A g \in Handlers : EventOf(g) # None => EventOf(g) \in Events
    BY ActorsDistinct DEF TypeInv, TypeOK, Work, EventOf
  <1>7. claim' = [claim EXCEPT ![e] = "processing"] /\ claim[e] = "none" /\ claim \in [Events -> {"none", "processing", "processed"}]
    BY DEF Claim, TypeInv, TypeOK
  <1>8. Holding'
    BY <1>3, <1>4, <1>5, <1>6, <1>7 DEF EventInv, Holding
  <1>9. Progress'
    BY <1>1, <1>4, <1>5, <1>7 DEF Claim, EventInv, Progress, Untouched, history
  <1>10. Untouched' /\ EventMovesOnce' /\ ProcessedWasHeeded'
    BY <1>7 DEF Claim, EventInv, Untouched, EventMovesOnce, ProcessedWasHeeded, history
  <1>11. ClaimHasHandler'
    <2> SUFFICES ASSUME NEW f \in Events, claim'[f] = "processing", f \notin orphaned
                 PROVE  \E g \in Handlers : EventOf(g)' = f
      BY DEF ClaimHasHandler, Claim, history
    <2>1. CASE f = e
      BY <1>5, <2>1
    <2>2. CASE f # e
      <3>1. PICK g \in Handlers : EventOf(g) = f
        BY <1>7, <2>2 DEF EventInv, ClaimHasHandler
      <3> QED BY <1>2, <1>5, <3>1, BillingNames
    <2> QED BY <2>1, <2>2
  <1> QED BY <1>8, <1>9, <1>10, <1>11 DEF EventInv

LEMMA ReadEvents == ASSUME TypeInv, EventInv, NEW h \in Handlers, Read(h) PROVE EventInv'
  <1>1. EventOf(h) \in Events /\ h \in Actors /\ work[h].step # "mark"
    BY BusyHandler DEF Read, At
  <1>2. PICK s \in Step, t \in Status \cup {None} :
          /\ Aim(h, s, t)
          /\ s \in {"checkout", "release", "mark", "select"}
          /\ s = "checkout" => kind[EventOf(h)] = "checkout"
          /\ s = "mark" => kind[EventOf(h)] # "checkout" /\ ~(kind[EventOf(h)] = "unknown" \/ ~linked)
                           /\ ~Moving(kind[EventOf(h)])
    <2>1. Moving(kind[EventOf(h)]) => Wanted[kind[EventOf(h)]] \in Status
      BY DEF Moving, Wanted, Status
    <2> QED BY <2>1 DEF Read, Goto, Step
  <1>3. /\ work'[h] = [step |-> s, event |-> work[h].event, to |-> t]
        /\ \A b \in Actors : b # h => work'[b] = work[b]
    BY <1>1, <1>2, AimStep DEF TypeInv, TypeOK
  <1>4. heeded' \in {heeded, heeded \cup {EventOf(h)}} /\ (s = "mark" => EventOf(h) \in heeded')
    BY <1>2 DEF Read
  <1> QED BY <1>1, <1>2, <1>3, <1>4, HandlerKeepsEvents DEF Carries, Read, EventOf

LEMMA CheckoutEvents ==
  ASSUME TypeInv, EventInv, NEW h \in Handlers, Checkout(h) \/ Products(h) \/ HandlerFails(h)
  PROVE  EventInv'
  <1>1. EventOf(h) \in Events /\ h \in Actors /\ work[h].step # "mark"
    BY BusyHandler DEF Checkout, Products, HandlerFails, At
  <1>2. work[h].step \in {"checkout", "products"} => kind[EventOf(h)] = "checkout"
    BY <1>1, BillingNames DEF EventInv, Progress
  <1>3. work[h].step = "products" => EventOf(h) \in heeded
    BY <1>1, BillingNames DEF EventInv, Progress
  <1>4. ASSUME NEW s \in Step, Goto(h, s)
        PROVE  /\ work'[h].event = EventOf(h) /\ work'[h].step = s
               /\ \A b \in Actors : b # h => work'[b] = work[b]
    <2>1. work \in [Actors -> Work]
      BY DEF TypeInv, TypeOK
    <2>2. /\ work'[h] = [step |-> s, event |-> work[h].event, to |-> None]
          /\ \A b \in Actors : b # h => work'[b] = work[b]
      BY <1>1, <1>4, <2>1, GotoStep
    <2> QED BY <2>2 DEF EventOf
  <1>5. CASE Checkout(h)
    <2>1. /\ heeded' = heeded \cup {EventOf(h)}
          /\ \A f \in Events \ {EventOf(h)} : moves'[f] = moves[f]
      BY <1>1, <1>5 DEF Checkout, Moved, TypeInv, TypeOK
    <2>2. kind[EventOf(h)] = "checkout"
      BY <1>2, <1>5 DEF Checkout, At
    <2> QED BY <1>1, <1>4, <1>5, <2>1, <2>2, HandlerKeepsEvents DEF Carries, Checkout, Step
  <1>6. CASE Products(h)
    <2>1. EventOf(h) \in heeded
      BY <1>3, <1>6 DEF Products, At
    <2> QED BY <1>1, <1>4, <1>6, <2>1, HandlerKeepsEvents DEF Carries, Products, Step, history
  <1>7. CASE HandlerFails(h)
    BY <1>1, <1>4, <1>7, HandlerKeepsEvents DEF Carries, HandlerFails, Step, history
  <1> QED BY <1>5, <1>6, <1>7

\* The request is done with its event, whose row becomes processed, goes, or stays
\* behind as an orphan.
LEMMA LetGoEvents ==
  ASSUME TypeInv, EventInv, NEW h \in Handlers, Mark(h) \/ Release(h) \/ HandlerDies(h)
  PROVE  EventInv'
  <1>1. EventOf(h) \in Events /\ h \in Actors
    BY BusyHandler DEF Mark, Release, HandlerDies, At
  <1>2. claim[EventOf(h)] = "processing" /\ claim \in [Events -> {"none", "processing", "processed"}]
    BY <1>1, BillingNames DEF EventInv, Holding, TypeInv, TypeOK
  <1>3. work'[h] = Idle /\ \A b \in Actors : b # h => work'[b] = work[b]
    BY <1>1, RestStep DEF Mark, Release, HandlerDies, TypeInv, TypeOK
  <1>4. \A g \in Handlers : EventOf(g)' = IF g = h THEN None ELSE EventOf(g)
    BY <1>3, ActorsDistinct DEF EventOf, Idle
  <1>5. \A g \in Handlers : EventOf(g)' # None => /\ g # h /\ EventOf(g) # EventOf(h)
                                                /\ EventOf(g) \in Events /\ work'[g] = work[g]
    BY <1>1, <1>3, <1>4, ActorsDistinct DEF EventInv, Holding, TypeInv, TypeOK, Work, EventOf
  <1>6. UNCHANGED <<kind, moves, heeded>>
    BY DEF Mark, Release, HandlerDies, history
  <1>7. /\ claim' \in [Events -> {"none", "processing", "processed"}]
        /\ \A f \in Events : f # EventOf(h) => claim'[f] = claim[f]
        /\ Mark(h) => claim'[EventOf(h)] = "processed" /\ orphaned' = orphaned
        /\ Release(h) => claim'[EventOf(h)] = "none" /\ orphaned' = orphaned
        /\ HandlerDies(h) => claim' = claim /\ orphaned' = orphaned \cup {EventOf(h)}
    BY <1>1, <1>2 DEF Mark, Release, HandlerDies, history
  <1>8. Mark(h) => EventOf(h) \in heeded
    BY <1>1, BillingNames DEF Mark, At, EventInv, Progress
  <1>9. Release(h) => (kind[EventOf(h)] # "checkout" => moves[EventOf(h)] = 0) /\ kind[EventOf(h)] # "unsent"
    BY <1>1, <1>2, BillingNames DEF Release, At, EventInv, Progress, Untouched
  <1>10. Holding'
    BY <1>4, <1>5, <1>7 DEF EventInv, Holding
  <1>11. Progress'
    BY <1>4, <1>5, <1>6 DEF EventInv, Progress
  <1>12. Untouched'
    BY <1>2, <1>6, <1>7, <1>9 DEF EventInv, Untouched
  <1>13. EventMovesOnce' /\ ProcessedWasHeeded'
    BY <1>2, <1>6, <1>7, <1>8 DEF EventInv, EventMovesOnce, ProcessedWasHeeded
  <1>14. ClaimHasHandler'
    <2> SUFFICES ASSUME NEW f \in Events, claim'[f] = "processing", f \notin orphaned'
                 PROVE  \E g \in Handlers : EventOf(g)' = f
      BY DEF ClaimHasHandler
    <2>1. f # EventOf(h) /\ claim[f] = "processing" /\ f \notin orphaned
      BY <1>1, <1>7
    <2>2. PICK g \in Handlers : EventOf(g) = f
      BY <2>1 DEF EventInv, ClaimHasHandler
    <2> QED BY <1>4, <2>1, <2>2
  <1> QED BY <1>10, <1>11, <1>12, <1>13, <1>14 DEF EventInv

LEMMA OthersKeepEvents ==
  ASSUME TypeInv, EventInv,
         \/ Advance \/ Others \/ CancelSubscription
         \/ \E j \in Jobs : JobDies(j)
         \/ \E b \in BOOLEAN : AssignPlan(b)
         \/ \E c \in Columns : Elapse(c)
         \/ UNCHANGED vars
  PROVE  EventInv'
  <1>1. UNCHANGED <<kind, claim, history>>
    BY DEF Advance, Others, ScanGrace, ScanCancelling, ScanClosed, ScanArchived, ScanLinked, Reconcile,
           CancelSubscription, JobDies, AssignPlan, Elapse, JobUnchanged, history, vars
  <1>2. \A h \in Handlers : work'[h] = work[h]
    <2>1. ASSUME NEW a \in Jobs \cup {Staff}, work' = [work EXCEPT ![a] = work'[a]]
          PROVE  \A h \in Handlers : work'[h] = work[h]
      BY <2>1, ActorsDistinct DEF TypeInv, TypeOK
    <2>2. ASSUME NEW a \in Actors, NEW s, NEW t, Aim(a, s, t)
          PROVE  work' = [work EXCEPT ![a] = work'[a]]
      BY <2>2 DEF Aim, TypeInv, TypeOK
    <2>3. ASSUME NEW a \in Actors, Rest(a) PROVE work' = [work EXCEPT ![a] = work'[a]]
      BY <2>3 DEF Rest, TypeInv, TypeOK
    <2>4. CASE Advance \/ Others \/ CancelSubscription
      BY <2>1, <2>2, <2>4, ActorsDistinct
      DEF Advance, Others, ScanGrace, ScanCancelling, ScanClosed, ScanArchived, ScanLinked, Reconcile,
          CancelSubscription, Goto
    <2>5. ASSUME NEW j \in Jobs, JobDies(j) PROVE \A h \in Handlers : work'[h] = work[h]
      BY <2>1, <2>3, <2>5, ActorsDistinct DEF JobDies
    <2>6. CASE (\E b \in BOOLEAN : AssignPlan(b)) \/ (\E c \in Columns : Elapse(c)) \/ UNCHANGED vars
      BY <2>6 DEF AssignPlan, Elapse, vars
    <2> QED BY <2>4, <2>5, <2>6
  <1> QED BY <1>1, <1>2, BystanderKeepsEvents

\* Stripe sends an event nobody can have claimed before.
LEMMA SendEvents == ASSUME TypeInv, EventInv, NEW e \in Events, Send(e) PROVE EventInv'
  <1>1. /\ kind[e] = "unsent" /\ claim[e] = "none" /\ moves[e] = 0
        /\ UNCHANGED <<claim, work, history>>
        /\ \A f \in Events : f # e => kind'[f] = kind[f]
        /\ kind'[e] # "unsent"
    BY DEF Send, TypeInv, TypeOK, EventInv, Untouched, Kinds
  <1>2. \A h \in Handlers : EventOf(h)' = EventOf(h) /\ work'[h] = work[h] /\ EventOf(h) # e
    BY <1>1, BillingNames DEF EventOf, EventInv, Holding
  <1>3. \A h \in Handlers : EventOf(h) # None => EventOf(h) \in Events
    BY ActorsDistinct DEF TypeInv, TypeOK, Work, EventOf
  <1>4. Holding' /\ ProcessedWasHeeded' /\ ClaimHasHandler'
    BY <1>1, <1>2 DEF EventInv, Holding, ProcessedWasHeeded, ClaimHasHandler, history
  <1>5. Progress'
    BY <1>1, <1>2, <1>3 DEF EventInv, Progress, history
  <1>6. Untouched' /\ EventMovesOnce'
    BY <1>1 DEF EventInv, Untouched, EventMovesOnce, history
  <1> QED BY <1>4, <1>5, <1>6 DEF EventInv

LEMMA BillingNext == BillingInv /\ [Next]_vars => BillingInv'
  <1> SUFFICES ASSUME TypeInv, EventInv, [Next]_vars PROVE TypeInv' /\ EventInv'
    BY DEF BillingInv
  <1>1. TypeInv'
    BY TypeNext DEF EventInv
  <1>2. EventInv'
    BY SelectEvents, UpdateEvents, ClaimEvents, ReadEvents, CheckoutEvents, LetGoEvents,
       OthersKeepEvents, SendEvents
    DEF Next, Webhook
  <1> QED BY <1>1, <1>2

LEMMA BillingInvariant == Spec => []BillingInv
  <1>1. Init => BillingInv
    BY TypeInit, InvInit DEF BillingInv
  <1> QED BY <1>1, BillingNext, PTL DEF Spec

------------------------------------------------------------------------------
\* The row of the subscription never leaves the statuses of its CHECK, a request at
\* work always has the event it claimed, and no actor moves the row to nowhere.
THEOREM BillingTypes == Spec => []TypeOK
  <1>1. BillingInv => TypeOK
    BY DEF BillingInv, TypeInv
  <1> QED BY <1>1, BillingInvariant, PTL

\* Redelivered to however many requests at once, with whatever failures on the way,
\* an event other than a checkout moves the subscription at most once.
THEOREM EventsMoveOnce == Spec => []EventMovesOnce
  <1>1. BillingInv => EventMovesOnce
    BY DEF BillingInv, EventInv
  <1> QED BY <1>1, BillingInvariant, PTL

\* Only what had its effect, or found nothing to do, is marked as processed.  (Events
\* whose request died stay in processing, and are lost without being marked.)
THEOREM ProcessedIsHeeded == Spec => []ProcessedWasHeeded
  <1>1. BillingInv => ProcessedWasHeeded
    BY DEF BillingInv, EventInv
  <1> QED BY <1>1, BillingInvariant, PTL

\* A claim blocks redeliveries only while its request works, or because it died.
THEOREM ClaimsHaveHandlers == Spec => []ClaimHasHandler
  <1>1. BillingInv => ClaimHasHandler
    BY DEF BillingInv, EventInv
  <1> QED BY <1>1, BillingInvariant, PTL

==============================================================================
