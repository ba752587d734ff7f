--------------------------- MODULE RequestHandlers ---------------------------
(***************************************************************************)
(* A guest submits a held stay as a request (POST /api/v1/holds/{token}/   *)
(* submit); staff review it, approve it, reject it, or convert it into a   *)
(* booking (features/direct-booking/actions.ts).                           *)
(***************************************************************************)
EXTENDS DirectBookingDb

------------------------------------------------------------------------------
(* Slips these handlers could plausibly contain; none is part of the       *)
(* specification.  They show that the properties would notice.             *)

\* Rejecting forgets the calendar block.
RejectWriteHoldOnly(w) ==
  /\ At(w, "reject_write_hold")
  /\ SetHoldStatus(call[w].hold, "rejected")
  /\ Return(w)
  /\ OnlyHolds

\* Converting does not look at the hold's status.
ConvertReadAnyHold(w) ==
  /\ At(w, "convert_read_hold")
  /\ LET h == HoldOf(call[w].request) IN
     Continue(w, [call[w] EXCEPT !.at = "convert_read_deposit", !.hold = h, !.stay = holds[h].stay])
  /\ NoTables

\* The override keeps the status that staff asked for.
ConvertOverrideKeepsStatus(w) ==
  /\ At(w, "convert_read_deposit")
  /\ Goto(w, "convert_pick_code") \/ Return(w)
  /\ NoTables

\* Converting releases the hold's block and forgets the booking's.
ConvertReleaseOnly(w) ==
  /\ At(w, "convert_release")
  /\ ReleaseThen(w, call[w].hold, Idle)
  /\ OnlyHoldBlock

\* Converting forgets to store booking_id on the request.
ConvertMarkRequestStatusOnly(w) ==
  /\ At(w, "convert_mark_request")
  /\ SetRequestStatus(call[w].request, "converted")
  /\ Goto(w, "convert_mark_hold")
  /\ OnlyRequests

------------------------------------------------------------------------------
(* handleSubmitHold *)

SubmitRead(w, h) ==
  /\ "submit" \in Endpoints
  /\ Room(requests, MaxRequests, InsertingRequest)
  /\ Room(deposits, MaxDeposits, InsertingDeposit)
  /\ TokenIssued(h) /\ holds[h].status = "active"
  /\ Begin(w, [Idle EXCEPT !.hold = h,
                 !.at = IF holds[h].late THEN "submit_lapse_hold" ELSE "submit_insert_request"])
  /\ NoTables

\* The deadline has passed: expire the hold on the spot.
SubmitLapseHold(w) ==
  /\ At(w, "submit_lapse_hold")
  /\ SetHoldStatus(call[w].hold, "expired")
  /\ Goto(w, "submit_lapse_release")
  /\ OnlyHolds

SubmitLapseRelease(w) ==
  /\ At(w, "submit_lapse_release")
  /\ ReleaseThen(w, call[w].hold, Idle)
  /\ OnlyHoldBlock

\* The request is inserted, then ensureDepositForRequest runs for it.
SubmitInsertRequest(w) ==
  /\ At(w, "submit_insert_request")
  /\ InsertRequest(call[w].hold)
  /\ Continue(w, [call[w] EXCEPT !.at = "ensure_read", !.request = Len(requests) + 1])
  /\ OnlyRequests

------------------------------------------------------------------------------
(* Review.  updateRequestStatus looks at nothing but the id. *)

MarkUnderReview(r) ==
  /\ "mark_under_review" \in Endpoints
  /\ SetRequestStatus(r, "under_review")
  /\ OnlyRequests /\ UNCHANGED call

Approve(r) ==
  /\ "approve" \in Endpoints
  /\ SetRequestStatus(r, "approved")
  /\ OnlyRequests /\ UNCHANGED call

RejectWriteRequest(w, r) ==
  /\ "reject" \in Endpoints
  /\ SetRequestStatus(r, "rejected")
  /\ Begin(w, [Idle EXCEPT !.at = "reject_write_hold", !.hold = HoldOf(r)])
  /\ OnlyRequests

RejectWriteHold(w) ==
  /\ At(w, "reject_write_hold")
  /\ SetHoldStatus(call[w].hold, "rejected")
  /\ Goto(w, "reject_release")
  /\ OnlyHolds

RejectRelease(w) ==
  /\ At(w, "reject_release")
  /\ ReleaseThen(w, call[w].hold, Idle)
  /\ OnlyHoldBlock

------------------------------------------------------------------------------
(* convertDirectBookingRequestToBookingAction; `mode' is finalStatus *)

ConvertRead(w, r, mode) ==
  /\ "convert" \in Endpoints
  /\ Room(bookings, MaxBookings, InsertingBooking)
  /\ requests[r].status \in {"approved", "submitted", "under_review"}
  /\ Begin(w, [Idle EXCEPT !.at = "convert_read_hold", !.request = r, !.mode = mode])
  /\ NoTables

ConvertReadHold(w) ==
  /\ At(w, "convert_read_hold")
  /\ LET h == HoldOf(call[w].request) IN
     IF holds[h].status \in {"active", "converted"}
     THEN Continue(w, [call[w] EXCEPT !.at = "convert_read_deposit",
                                      !.hold = h, !.stay = holds[h].stay])
     ELSE Return(w)
  /\ NoTables

\* The deposit gate.  Without a paid deposit the action refuses, unless staff
\* ticked convertWithoutDeposit and may override: then the booking is tentative.
ConvertReadDeposit(w) ==
  /\ At(w, "convert_read_deposit")
  /\ LET d == LatestDeposit(call[w].request)
         paid == d # 0 /\ deposits[d].status \in PaidStatuses
     IN  IF paid THEN Goto(w, "convert_pick_code")
         ELSE \/ Return(w)
              \/ Continue(w, [call[w] EXCEPT !.at = "convert_pick_code", !.mode = "tentative"])
  /\ NoTables

\* pickUniqueBookingCode: the code is built from the request's; when it is
\* taken, a random suffix is appended.
CodeTaken(r) == \E b \in Ids(bookings) : bookings[b].request = r /\ ~bookings[b].suffixed

ConvertPickCode(w) ==
  /\ At(w, "convert_pick_code")
  /\ Continue(w, [call[w] EXCEPT !.at = "convert_insert_booking",
                                 !.suffixed = CodeTaken(call[w].request)])
  /\ NoTables

\* booking_code is UNIQUE: the insert raises if the code was taken meanwhile.
ConvertInsertBooking(w) ==
  /\ At(w, "convert_insert_booking")
  /\ \/ /\ ~call[w].suffixed /\ CodeTaken(call[w].request)
        /\ Return(w)
        /\ UNCHANGED <<bookings, bookingBlock>>
     \/ /\ call[w].suffixed \/ ~CodeTaken(call[w].request)
        /\ bookings' = Append(bookings, [request |-> call[w].request, stay |-> call[w].stay,
                                         status |-> call[w].mode, suffixed |-> call[w].suffixed])
        /\ bookingBlock' = Append(bookingBlock, "absent")
        /\ Continue(w, [call[w] EXCEPT !.at = "convert_mark_request",
                                       !.booking = Len(bookings) + 1])
  /\ UNCHANGED <<holds, holdBlock, requests, deposits, crashes>>

ConvertMarkRequest(w) ==
  /\ At(w, "convert_mark_request")
  /\ requests' = [requests EXCEPT ![call[w].request].status  = "converted",
                                  ![call[w].request].booking = call[w].booking]
  /\ Goto(w, "convert_mark_hold")
  /\ OnlyRequests

ConvertMarkHold(w) ==
  /\ At(w, "convert_mark_hold")
  /\ holds' = [holds EXCEPT ![call[w].hold].status  = "converted",
                            ![call[w].hold].booking = call[w].booking]
  /\ Goto(w, "convert_release")
  /\ OnlyHolds

ConvertRelease(w) ==
  /\ At(w, "convert_release")
  /\ ReleaseThen(w, call[w].hold, [call[w] EXCEPT !.at = "convert_sync_block"])
  /\ OnlyHoldBlock

\* syncBookingCalendarBlock, for a booking that is not cancelled.
ConvertSyncBlock(w) ==
  /\ At(w, "convert_sync_block")
  /\ bookingBlock' = [bookingBlock EXCEPT ![call[w].booking] = "active"]
  /\ Return(w)
  /\ UNCHANGED <<holds, holdBlock, requests, deposits, bookings, crashes>>

------------------------------------------------------------------------------
RequestBegins(w) ==
  \/ \E h \in Ids(holds) : SubmitRead(w, h)
  \/ \E r \in Ids(requests) : \/ RejectWriteRequest(w, r)
                              \/ \E mode \in BookingStatus : ConvertRead(w, r, mode)

RequestSteps(w) ==
  \/ SubmitLapseHold(w) \/ SubmitLapseRelease(w) \/ SubmitInsertRequest(w)
  \/ RejectWriteHold(w) \/ RejectRelease(w)
  \/ ConvertReadHold(w) \/ ConvertReadDeposit(w) \/ ConvertPickCode(w)
  \/ ConvertInsertBooking(w) \/ ConvertMarkRequest(w) \/ ConvertMarkHold(w)
  \/ ConvertRelease(w) \/ ConvertSyncBlock(w)

Reviews == \E r \in Ids(requests) : MarkUnderReview(r) \/ Approve(r)

==============================================================================
