--------------------------- MODULE ExpiryHandlers ---------------------------
(***************************************************************************)
(* The two background sweeps: runDirectBookingExpiry over overdue holds    *)
(* and expireUnpaidDeposits over overdue deposits, which also serves staff *)
(* who expire one deposit by hand.  A sweep works through a snapshot of    *)
(* the rows it selected when it began.                                     *)
(***************************************************************************)
EXTENDS DirectBookingDb

------------------------------------------------------------------------------
(* Slips these handlers could plausibly contain; none is part of the       *)
(* specification.  They show that the properties would notice.             *)

\* The sweep leaves a hold alone as soon as it has a request.
SweepExpireHoldUnlessRequested(w) ==
  /\ At(w, "sweep_next")
  /\ \E h \in call[w].todo :
       IF \E r \in Ids(requests) : HoldOf(r) = h
       THEN Return(w) /\ UNCHANGED holds
       ELSE /\ SetHoldStatus(h, "expired")
            /\ Continue(w, [call[w] EXCEPT !.at = "sweep_release", !.hold = h, !.todo = @ \ {h}])
  /\ OnlyHolds

OverdueHolds    == {h \in Ids(holds) : holds[h].status = "active" /\ holds[h].late}
OverdueDeposits == {d \in Ids(deposits) : deposits[d].status = "pending" /\ deposits[d].late}
RequestsAt(h, statuses) ==
  {r \in Ids(requests) : requests[r].hold = h /\ requests[r].status \in statuses}

------------------------------------------------------------------------------
(* runDirectBookingExpiry *)

\* findHoldsToExpire, less the rows the loop skips for a converted booking.
SweepCandidates == {h \in OverdueHolds : holds[h].booking = 0}

SweepBegin(w) ==
  /\ "sweep_holds" \in Endpoints
  /\ SweepCandidates # {}
  /\ Begin(w, [Idle EXCEPT !.at = "sweep_next", !.todo = SweepCandidates])
  /\ NoTables

SweepExpireHold(w) ==
  /\ At(w, "sweep_next")
  /\ \E h \in call[w].todo :
       /\ SetHoldStatus(h, "expired")
       /\ Continue(w, [call[w] EXCEPT !.at = "sweep_release", !.hold = h, !.todo = @ \ {h}])
  /\ OnlyHolds

\* An exception here ends the whole run: the try surrounds the loop.
SweepRelease(w) ==
  /\ At(w, "sweep_release")
  /\ ReleaseThen(w, call[w].hold, [call[w] EXCEPT !.at = "sweep_read_linked"])
  /\ OnlyHoldBlock

\* Back to the loop head with the next hold, or done.
NextHold(w) ==
  IF call[w].todo = {} THEN Return(w)
  ELSE Continue(w, [Idle EXCEPT !.at = "sweep_next", !.todo = call[w].todo])

SweepReadLinked(w) ==
  /\ At(w, "sweep_read_linked")
  /\ LET linked == RequestsAt(call[w].hold, {"submitted", "under_review"}) IN
     IF linked = {} THEN NextHold(w)
     ELSE Continue(w, [call[w] EXCEPT !.at = "sweep_expire_request", !.linked = linked])
  /\ NoTables

SweepExpireRequest(w) ==
  /\ At(w, "sweep_expire_request")
  /\ \E r \in call[w].linked :
       /\ SetRequestStatus(r, "expired")
       /\ IF call[w].linked = {r} THEN NextHold(w)
          ELSE Continue(w, [call[w] EXCEPT !.linked = @ \ {r}])
  /\ OnlyRequests

------------------------------------------------------------------------------
(* expireUnpaidDeposits: expireDeposit on each candidate *)

DepositSweepBegin(w) ==
  /\ "sweep_deposits" \in Endpoints
  /\ OverdueDeposits # {}
  /\ Begin(w, [Idle EXCEPT !.at = "expire_next", !.todo = OverdueDeposits])
  /\ NoTables

NextDeposit(w) ==
  IF call[w].todo = {} THEN Return(w)
  ELSE Continue(w, [Idle EXCEPT !.at = "expire_next", !.todo = call[w].todo])

\* shouldExpireDeposit is asked again of a fresh read of the row.
ExpireRead(w) ==
  /\ At(w, "expire_next")
  /\ \E d \in call[w].todo :
       LET rest == call[w].todo \ {d} IN
       IF d \in OverdueDeposits
       THEN Continue(w, [call[w] EXCEPT !.at = "expire_write", !.deposit = d, !.todo = rest])
       ELSE IF rest = {} THEN Return(w) ELSE Continue(w, [call[w] EXCEPT !.todo = rest])
  /\ NoTables

ExpireWrite(w) ==
  /\ At(w, "expire_write")
  /\ SetDepositStatus(call[w].deposit, "expired")
  /\ LET r == deposits[call[w].deposit].request
     IN  Continue(w, [call[w] EXCEPT !.at = "expire_read_request", !.request = r,
                                     !.hold = HoldOf(r)])
  /\ OnlyDeposits

ExpireReadRequest(w) ==
  /\ At(w, "expire_read_request")
  /\ Goto(w, IF requests[call[w].request].status \in {"submitted", "under_review", "approved"}
             THEN "expire_write_request" ELSE "expire_read_hold")
  /\ NoTables

ExpireWriteRequest(w) ==
  /\ At(w, "expire_write_request")
  /\ SetRequestStatus(call[w].request, "expired")
  /\ Goto(w, "expire_read_hold")
  /\ OnlyRequests

ExpireReadHold(w) ==
  /\ At(w, "expire_read_hold")
  /\ IF holds[call[w].hold].status = "active" THEN Goto(w, "expire_write_hold")
     ELSE NextDeposit(w)
  /\ NoTables

ExpireWriteHold(w) ==
  /\ At(w, "expire_write_hold")
  /\ SetHoldStatus(call[w].hold, "expired")
  /\ Goto(w, "expire_release")
  /\ OnlyHolds

\* As in the other sweep, an exception ends the run.
ExpireRelease(w) ==
  /\ At(w, "expire_release")
  /\ ReleaseThen(w, call[w].hold,
                 IF call[w].todo = {} THEN Idle
                 ELSE [Idle EXCEPT !.at = "expire_next", !.todo = call[w].todo])
  /\ OnlyHoldBlock

------------------------------------------------------------------------------
ExpiryBegins(w) == SweepBegin(w) \/ DepositSweepBegin(w)

ExpirySteps(w) ==
  \/ SweepExpireHold(w) \/ SweepRelease(w) \/ SweepReadLinked(w) \/ SweepExpireRequest(w)
  \/ ExpireRead(w) \/ ExpireWrite(w) \/ ExpireReadRequest(w) \/ ExpireWriteRequest(w)
  \/ ExpireReadHold(w) \/ ExpireWriteHold(w) \/ ExpireRelease(w)

==============================================================================
