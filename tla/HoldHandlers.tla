---------------------------- MODULE HoldHandlers ----------------------------
(***************************************************************************)
(* Placing a hold (POST /api/v1/holds and the operator's twin) and         *)
(* abandoning one (POST /api/v1/holds/{token}/cancel and the admin action).*)
(***************************************************************************)
EXTENDS DirectBookingDb

------------------------------------------------------------------------------
(* Slips these handlers could plausibly contain; none is part of the       *)
(* specification.  They show that the properties would notice.             *)

\* A block counts as a conflict only when it lies inside the window.
TouchesInside(t, s) == t.in >= s.in /\ t.out <= s.out

\* The block query forgets the blocks of holds.
BlockConflictBookingsOnly(s) ==
  \E b \in Ids(bookings) : bookingBlock[b] = "active"
                           /\ bookings[b].stay.in <= s.out /\ bookings[b].stay.out >= s.in

------------------------------------------------------------------------------
(* assertHoldDatesStillAvailable: two queries, one after the other *)

\* Half-open, over bookings that are not cancelled or no_show.
BookingConflict(s) ==
  \E b \in Ids(bookings) : /\ bookings[b].stay.out > s.in
                           /\ bookings[b].stay.in < s.out

\* Closed at both ends, over the active blocks of holds and of bookings.
Touches(t, s) == t.in <= s.out /\ t.out >= s.in
BlockConflict(s) ==
  \/ \E h \in Ids(holds)    : holdBlock[h] = "active" /\ Touches(holds[h].stay, s)
  \/ \E b \in Ids(bookings) : bookingBlock[b] = "active" /\ Touches(bookings[b].stay, s)

------------------------------------------------------------------------------
(* handleCreateHold (mode "public") and, when guest details were captured, *)
(* createDirectBookingOnBehalfAction (mode "operator")                     *)

CreateCheckBookings(w, s, mode) ==
  /\ (IF mode = "operator" THEN "create_on_behalf" ELSE "create") \in Endpoints
  /\ Room(holds, MaxHolds, InsertingHold)
  /\ mode = "operator" => Room(requests, MaxRequests, InsertingRequest)
  /\ ~BookingConflict(s)
  /\ Begin(w, [Idle EXCEPT !.at = "create_check_blocks", !.stay = s, !.mode = mode])
  /\ NoTables

CreateCheckBlocks(w) ==
  /\ At(w, "create_check_blocks")
  /\ IF BlockConflict(call[w].stay) THEN Return(w) ELSE Goto(w, "create_insert_hold")
  /\ NoTables

CreateInsertHold(w) ==
  /\ At(w, "create_insert_hold")
  /\ holds' = Append(holds, [stay |-> call[w].stay, status |-> "active",
                             late |-> FALSE, booking |-> 0])
  /\ holdBlock' = Append(holdBlock, "absent")
  /\ Continue(w, [call[w] EXCEPT !.at = "create_insert_block", !.hold = Len(holds) + 1])
  /\ UNCHANGED <<requests, deposits, bookings, bookingBlock, crashes>>

CreateInsertBlock(w) ==
  /\ At(w, "create_insert_block")
  /\ ActivateHoldBlock(call[w].hold)
  /\ IF call[w].mode = "operator" THEN Goto(w, "create_insert_request") ELSE Return(w)
  /\ OnlyHoldBlock

CreateInsertRequest(w) ==
  /\ At(w, "create_insert_request")
  /\ InsertRequest(call[w].hold)
  /\ Return(w)
  /\ OnlyRequests

------------------------------------------------------------------------------
(* handleCancelHold: the guest walks away; linked requests only get an event *)

CancelRead(w, h) ==
  /\ "cancel" \in Endpoints
  /\ TokenIssued(h) /\ holds[h].status = "active"
  /\ Begin(w, [Idle EXCEPT !.at = "cancel_write_hold", !.hold = h])
  /\ NoTables

CancelWriteHold(w) ==
  /\ At(w, "cancel_write_hold")
  /\ SetHoldStatus(call[w].hold, "cancelled")
  /\ Goto(w, "cancel_release")
  /\ OnlyHolds

CancelRelease(w) ==
  /\ At(w, "cancel_release")
  /\ ReleaseThen(w, call[w].hold, Idle)
  /\ OnlyHoldBlock

------------------------------------------------------------------------------
(* cancelDirectBookingHoldAction: as above, then syncHoldStatusToCalendarBlock *)

AdminCancelRead(w, h) ==
  /\ "admin_cancel" \in Endpoints
  /\ holds[h].status = "active" /\ ~holds[h].late
  /\ Begin(w, [Idle EXCEPT !.at = "admin_cancel_write_hold", !.hold = h])
  /\ NoTables

AdminCancelWriteHold(w) ==
  /\ At(w, "admin_cancel_write_hold")
  /\ SetHoldStatus(call[w].hold, "cancelled")
  /\ Goto(w, "admin_cancel_release")
  /\ OnlyHolds

AdminCancelRelease(w) ==
  /\ At(w, "admin_cancel_release")
  /\ ReleaseThen(w, call[w].hold, [call[w] EXCEPT !.at = "admin_cancel_sync_read"])
  /\ OnlyHoldBlock

AdminCancelSyncRead(w) ==
  /\ At(w, "admin_cancel_sync_read")
  /\ Goto(w, IF holds[call[w].hold].status \in {"active", "converted"}
             THEN "admin_cancel_sync_activate" ELSE "admin_cancel_sync_release")
  /\ NoTables

AdminCancelSyncWrite(w) ==
  /\ \/ /\ At(w, "admin_cancel_sync_activate")
        /\ ActivateHoldBlock(call[w].hold)
        /\ Return(w)
     \/ /\ At(w, "admin_cancel_sync_release")
        /\ ReleaseThen(w, call[w].hold, Idle)
  /\ OnlyHoldBlock

------------------------------------------------------------------------------
(* The clock passes a hold's expires_at.  Only the reads of an active hold *)
(* ask for it, so it is tracked for active holds only.  The fifteen        *)
(* minutes outlast the request that places the hold.                       *)
HoldDeadlinePasses(h) ==
  /\ holds[h].status = "active" /\ ~holds[h].late
  /\ \A w \in AtOneOf({"create_insert_block", "create_insert_request"}) : call[w].hold # h
  /\ holds' = [holds EXCEPT ![h].late = TRUE]
  /\ UNCHANGED <<holdBlock, requests, deposits, bookings, bookingBlock, call, crashes>>

HoldBegins(w) ==
  \/ \E s \in Stays, mode \in {"public", "operator"} : CreateCheckBookings(w, s, mode)
  \/ \E h \in Ids(holds) : CancelRead(w, h) \/ AdminCancelRead(w, h)

HoldSteps(w) ==
  \/ CreateCheckBlocks(w) \/ CreateInsertHold(w) \/ CreateInsertBlock(w)
  \/ CreateInsertRequest(w)
  \/ CancelWriteHold(w) \/ CancelRelease(w)
  \/ AdminCancelWriteHold(w) \/ AdminCancelRelease(w)
  \/ AdminCancelSyncRead(w) \/ AdminCancelSyncWrite(w)

==============================================================================
