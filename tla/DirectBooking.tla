--------------------------- MODULE DirectBooking ---------------------------
(***************************************************************************)
(* The direct-booking feature as a whole: guests, staff and the two cron   *)
(* sweeps run the handlers of the four handler modules against one         *)
(* database, one statement at a time, in any interleaving, and an          *)
(* invocation may die between two statements.                              *)
(***************************************************************************)
EXTENDS HoldHandlers, RequestHandlers, DepositHandlers, ExpiryHandlers

Init ==
  /\ holds = <<>> /\ holdBlock = <<>> /\ requests = <<>>
  /\ deposits = <<>> /\ bookings = <<>> /\ bookingBlock = <<>>
  /\ call = [w \in Workers |-> Idle]
  /\ crashes = 0

\* A serverless invocation is killed: what it wrote stays, the rest never runs.
Crash(w) ==
  /\ crashes < MaxCrashes
  /\ call[w] # Idle
  /\ Return(w)
  /\ crashes' = crashes + 1
  /\ UNCHANGED tables

Begins(w) == HoldBegins(w) \/ RequestBegins(w) \/ DepositBegins(w) \/ ExpiryBegins(w)
Steps(w)  == HoldSteps(w) \/ RequestSteps(w) \/ DepositSteps(w) \/ ExpirySteps(w)

Clock == \/ \E h \in Ids(holds) : HoldDeadlinePasses(h)
         \/ \E d \in Ids(deposits) : DepositDeadlinePasses(d)

Next == \/ \E w \in Workers : Begins(w) \/ Steps(w) \/ Crash(w)
        \/ Reviews
        \/ Clock

Spec == Init /\ [][Next]_vars

\* An invocation that is not killed runs on to its end, and the cron for
\* overdue holds (every five minutes) comes round again and again: it gets an
\* invocation of its own, so no stream of other calls can shut it out.
Fairness == /\ \A w \in Workers : WF_vars(Steps(w))
            /\ SF_vars(\E w \in Workers : SweepBegin(w))
FairSpec == Spec /\ Fairness

------------------------------------------------------------------------------
(* Types *)

Step ==
  {"idle",
   "create_check_blocks", "create_insert_hold", "create_insert_block", "create_insert_request",
   "cancel_write_hold", "cancel_release", "admin_cancel_write_hold", "admin_cancel_release",
   "admin_cancel_sync_read", "admin_cancel_sync_activate", "admin_cancel_sync_release",
   "submit_lapse_hold", "submit_lapse_release", "submit_insert_request",
   "reject_write_hold", "reject_release",
   "convert_read_hold", "convert_read_deposit", "convert_pick_code", "convert_insert_booking",
   "convert_mark_request", "convert_mark_hold", "convert_release", "convert_sync_block",
   "ensure_read", "ensure_insert", "ensure_session", "recreate_read_deposit", "recreate_cancel",
   "mark_paid_write", "mark_failed_write", "cancel_deposit_write", "refund_write",
   "sweep_next", "sweep_release", "sweep_read_linked", "sweep_expire_request",
   "expire_next", "expire_write", "expire_read_request", "expire_write_request",
   "expire_read_hold", "expire_write_hold", "expire_release"}

CallRecord ==
  [at : Step, mode : BookingStatus \cup {"none", "public", "operator"},
   stay : Stays \cup {NoStay}, suffixed : BOOLEAN,
   hold : Nat, request : Nat, deposit : Nat, booking : Nat,
   todo : SUBSET Nat, linked : SUBSET Nat]

\* Rows have their types, every reference names a row that exists, and each
\* block column is as long as the table it belongs to.
TypeOK ==
  /\ holds \in Seq(HoldRow) /\ holdBlock \in Seq(BlockState)
  /\ requests \in Seq(RequestRow) /\ deposits \in Seq(DepositRow)
  /\ bookings \in Seq(BookingRow) /\ bookingBlock \in Seq(BlockState)
  /\ Len(holdBlock) = Len(holds) /\ Len(bookingBlock) = Len(bookings)
  /\ \A r \in Ids(requests) : HoldOf(r) \in Ids(holds)
  /\ \A d \in Ids(deposits) : deposits[d].request \in Ids(requests)
  /\ \A b \in Ids(bookings) : bookings[b].request \in Ids(requests)
  /\ call \in [Workers -> CallRecord]
  /\ crashes \in Nat

------------------------------------------------------------------------------
(* What holds however the handlers interleave and wherever they die *)

\* The deposit gate of convertDirectBookingRequestToBookingAction: a booking
\* issued as confirmed has a deposit that was paid at some time.
ConfirmedBookingHasPaidDeposit ==
  \A b \in Ids(bookings) : bookings[b].status = "confirmed" =>
    \E d \in Ids(deposits) : deposits[d].request = bookings[b].request /\ deposits[d].paidAt

\* booking_id and converted_booking_id are never dangling or crossed: a
\* request points at a booking issued from it, a hold at a booking issued from
\* one of its requests, for the very dates held, and a converted row points.
ConversionLinks ==
  /\ \A r \in Ids(requests) :
       /\ requests[r].booking # 0 =>
            requests[r].booking \in Ids(bookings) /\ bookings[requests[r].booking].request = r
       /\ requests[r].status = "converted" => requests[r].booking # 0
  /\ \A h \in Ids(holds) :
       /\ holds[h].booking # 0 =>
            /\ holds[h].booking \in Ids(bookings)
            /\ LET b == bookings[holds[h].booking]
               IN  HoldOf(b.request) = h /\ b.stay = holds[h].stay
                   /\ requests[b.request].booking # 0
       /\ holds[h].status = "converted" => holds[h].booking # 0

------------------------------------------------------------------------------
(* What one invocation at a time achieves, given a table that admits the   *)
(* status the code writes                                                  *)

Overlap(s, t)  == s.in < t.out /\ t.in < s.out
BookingHold(b) == HoldOf(bookings[b].request)
Live(h)        == holds[h].status = "active"
Dead(h)        == holds[h].status \in {"expired", "cancelled", "rejected"}
Quiet          == \A w \in Workers : call[w] = Idle

\* assertHoldDatesStillAvailable does its job: no two live holds want the
\* same night, no live hold wants a night that is booked from another hold,
\* and two bookings share a night only if they come from the same hold.
HeldDatesExclusive ==
  /\ \A h, g \in Ids(holds) :
       h # g /\ Live(h) /\ Live(g) => ~Overlap(holds[h].stay, holds[g].stay)
  /\ \A b \in Ids(bookings), h \in Ids(holds) :
       Live(h) /\ Overlap(holds[h].stay, bookings[b].stay) => BookingHold(b) = h
  /\ \A b, c \in Ids(bookings) :
       Overlap(bookings[b].stay, bookings[c].stay) => BookingHold(b) = BookingHold(c)

\* Between invocations the calendar mirrors the holds and bookings: a live
\* hold and a booking each have their active block.
LiveHoldsAreBlocked ==
  Quiet => /\ \A h \in Ids(holds) : Live(h) => holdBlock[h] = "active"
           /\ \A b \in Ids(bookings) : bookingBlock[b] = "active"

\* Between invocations a hold that was abandoned, or that became a booking,
\* no longer blocks its dates (ADR-0028, sections 1 and 4).
DeadHoldFreesDates ==
  Quiet => \A h \in Ids(holds) : ~Live(h) => holdBlock[h] # "active"

\* A hold that was abandoned never becomes a booking afterwards: no booking is
\* issued from it and it is not marked converted.
DeadHoldStaysDead ==
  [][\A h \in Ids(holds) : Dead(h) =>
       /\ holds'[h].status \notin {"active", "converted"}
       /\ \A b \in Ids(bookings)' \ Ids(bookings) : BookingHold(b)' # h]_vars

\* What was converted to a booking is not expired (expiry.ts, 57; deposit-expiry.ts, 129).
\* A sweep that selected a hold before its conversion breaks this, so it needs a premise:
\* OverlapProofs proves it for conversions that stay clear of sweeps.  A row converted
\* itself is meant; a sibling request of a converted hold is expired by the deposit
\* sweep, against the comment at deposit-expiry.ts, 26.
ConvertedNeverExpires ==
  [][/\ \A h \in Ids(holds) : holds[h].status = "converted" => holds'[h].status # "expired"
     /\ \A r \in Ids(requests) : requests[r].status = "converted"
                                   => requests'[r].status # "expired"]_vars

\* Money that was recorded stays on record until it is refunded.
PaidMoneyIsKept ==
  [][\A d \in Ids(deposits) : deposits[d].status \in PaidStatuses
       => deposits'[d].status \in PaidStatuses \cup {"refunded"}]_vars

\* A request has at most one deposit awaiting payment.
OneOpenDeposit ==
  \A d, e \in Ids(deposits) :
    d # e /\ deposits[d].request = deposits[e].request
      => ~(deposits[d].status = "pending" /\ deposits[e].status = "pending")

------------------------------------------------------------------------------
(* The promise about nights that the tables implement *)

\* A stay is booked once a booking was issued from its hold; until then it is
\* held while the hold is active and free when it is not.
Fate(h) == IF \E b \in Ids(bookings) : BookingHold(b) = h THEN "booked"
           ELSE IF Live(h) THEN "held" ELSE "free"
HeldStays == [h \in Ids(holds) |-> [stay |-> holds[h].stay, now |-> Fate(h)]]

Inventory == INSTANCE StayInventory WITH stays <- HeldStays

\* What the handlers do to holds and bookings, seen as the nights held, booked
\* and given back, is a behaviour of StayInventory.
InventorySpec == Inventory!Spec

------------------------------------------------------------------------------
(* Liveness *)

\* Dates that were held and given up, by a decision or by letting the hold run out
\* (services.ts, 598), come back on sale: the block of the hold is released in the end,
\* whatever else is decided or converted meanwhile.  No invocation is killed here, the
\* table admits the status of a release, and the sweep is run again and again, as
\* docs/VERCEL-CRON-CHECKLIST.md, 39, has it: vercel.json does not schedule it, and its
\* job lock lets it run again only with another driver (JobLock).
AbandonedDatesReturn ==
  \A h \in 1..MaxHolds :
    h \in SweepCandidates \cup {g \in Ids(holds) : Dead(g)}
      ~> h \notin {g \in Ids(holds) : holdBlock[g] = "active"}

==============================================================================
