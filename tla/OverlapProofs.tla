---------------------------- MODULE OverlapProofs ----------------------------
(***************************************************************************)
(* Which overlaps of the direct-booking handlers matter, and which do not. *)
(*                                                                         *)
(* No handler opens a transaction or takes a lock, so one that runs        *)
(* between two statements of another acts on what is no longer so, and the *)
(* promises about nights and money do not hold of every interleaving.      *)
(* Each theorem below names the pairs of statements that must not meet on  *)
(* the same rows for its promise to hold, and the statements between which *)
(* an invocation must not die; every other interleaving and every other    *)
(* crash is allowed, for any number of workers, any stays, endpoints and   *)
(* table sizes.  Invocations that do not overlap at all meet every such    *)
(* premise (TurnsSuffice).                                                 *)
(*                                                                         *)
(* The argument is the same throughout: what a handler in flight has read  *)
(* is still so when it acts on it, because the one statement that would    *)
(* make it untrue is the one its premise names.  CalendarWork sums up what *)
(* one statement can do to holds, bookings and calendar blocks, so that an *)
(* invariant is checked against nine kinds of statement and not against    *)
(* sixty actions; the refinement of StayInventory follows kind by kind.    *)
(***************************************************************************)
EXTENDS DirectBookingProofs

------------------------------------------------------------------------------
(* Overlaps of two invocations *)

\* The steps that write a deposit which the handler takes for unpaid.
Overwriting ==
  {"ensure_session", "recreate_cancel", "mark_failed_write", "cancel_deposit_write", "expire_write"}
\* Nobody is about to write another status over a payment about to be recorded.
PaymentsApart ==
  \A v, w \in Workers :
    At(v, "mark_paid_write") /\ call[w].at \in Overwriting => call[v].deposit # call[w].deposit

\* The steps between finding no open deposit and storing the new one's session.
Opening == {"ensure_insert", "ensure_session"}
\* No two invocations are opening a deposit for one request.
OpeningsApart ==
  \A v, w \in Workers :
    v # w /\ call[v].at \in Opening /\ call[w].at \in Opening => call[v].request # call[w].request

\* The holds and the requests that c, going by what it has read, will expire.
Lapsing  == {"submit_lapse_hold", "expire_write_hold"}
Sweeping == {"sweep_next", "sweep_release", "sweep_read_linked", "sweep_expire_request"}
HoldsToExpire(c) ==
  IF c.at \in Lapsing THEN {c.hold} ELSE IF c.at \in Sweeping THEN c.todo ELSE {}
RequestsToExpire(c) ==
  IF c.at = "expire_write_request" THEN {c.request}
  ELSE IF c.at = "sweep_expire_request" THEN c.linked ELSE {}
\* Nobody is about to expire what another is about to mark converted.
MarksApart ==
  \A v, w \in Workers :
    /\ At(v, "convert_mark_hold") => call[v].hold \notin HoldsToExpire(call[w])
    /\ At(v, "convert_mark_request") => call[v].request \notin RequestsToExpire(call[w])

\* The holds whose end may be the next statement of c.
EndingOne == Lapsing \cup {"cancel_write_hold", "admin_cancel_write_hold", "reject_write_hold"}
Ending(c) == IF c.at \in EndingOne THEN {c.hold} ELSE IF c.at = "sweep_next" THEN c.todo ELSE {}
\* Nobody is about to end a hold that another, having read it, is converting.
ConversionsApart ==
  \A v, w \in Workers : call[v].at \in HoldRead => call[v].hold \notin Ending(call[w])

\* Nobody looks for the blocks on some dates while another, having placed a
\* hold on them, has yet to insert its block; and no two place a hold at once.
CreationsApart ==
  \A v, w \in Workers : v # w /\ Overlap(call[v].stay, call[w].stay) =>
    /\ ~(At(v, "create_check_blocks") /\ At(w, "create_insert_block"))
    /\ ~(At(v, "create_insert_hold") /\ At(w, "create_insert_hold"))

\* No booking is inserted between the two queries of a creation that wants its
\* dates.
ChecksApart ==
  \A v, w \in Workers :
    At(v, "create_check_blocks") /\ At(w, "convert_insert_booking")
      => ~Overlap(call[v].stay, call[w].stay)

\* No administrator cancels a hold that has no block yet, or that another is
\* about to mark converted when the calendar is brought in line with it.
Syncing == {"admin_cancel_release", "admin_cancel_sync_read"}
CancellationsApart ==
  \A v, w \in Workers : call[v].hold = call[w].hold =>
    /\ ~(At(v, "create_insert_block") /\ At(w, "admin_cancel_write_hold"))
    /\ ~(At(v, "convert_mark_hold") /\ call[w].at \in Syncing)

\* No invocation dies at one of these steps.
NoneDiesAt(steps) == \A w \in Workers : call[w].at \in steps => ~Crash(w)
Unbroken(steps)   == [][NoneDiesAt(steps)]_vars

\* The table admits the status that the code writes, so no release raises.
Admits == "released" \in BlockStatuses

------------------------------------------------------------------------------
(* A statement of one handler leaves the records of the others alone *)

Others(w) == Workers \ {w}
Acts(w)   == \A v \in Others(w) : call'[v] = call[v]

LEMMA Acting ==
  ASSUME call \in [Workers -> CallRecord], NEW w \in Workers, Begins(w) \/ Steps(w)
  PROVE  Acts(w)
<1> USE DEF Others, Acts, At, Begin, Goto, Continue, Return, ReleaseThen
<1>1. CASE HoldBegins(w) \/ HoldSteps(w)
  BY <1>1 DEF HoldBegins, CreateCheckBookings, CancelRead, AdminCancelRead,
       HoldSteps, CreateCheckBlocks, CreateInsertHold, CreateInsertBlock, CreateInsertRequest,
       CancelWriteHold, CancelRelease, AdminCancelWriteHold, AdminCancelRelease,
       AdminCancelSyncRead, AdminCancelSyncWrite
<1>2. CASE RequestBegins(w) \/ RequestSteps(w)
  BY <1>2 DEF RequestBegins, SubmitRead, RejectWriteRequest, ConvertRead,
       RequestSteps, SubmitLapseHold, SubmitLapseRelease, SubmitInsertRequest,
       RejectWriteHold, RejectRelease, ConvertReadHold, ConvertReadDeposit, ConvertPickCode,
       ConvertInsertBooking, ConvertMarkRequest, ConvertMarkHold, ConvertRelease, ConvertSyncBlock
<1>3. CASE DepositBegins(w) \/ DepositSteps(w)
  BY <1>3 DEF DepositBegins, RecreateReadRequest, MarkPaidRead, MarkFailedRead,
       CancelDepositRead, RefundRead, Decide,
       DepositSteps, EnsureRead, EnsureInsert, EnsureStoreSession, EnsureSessionFailed,
       RecreateReadDeposit, RecreateCancel, MarkPaidWrite, MarkFailedWrite, CancelDepositWrite,
       RefundWrite
<1>4. CASE ExpiryBegins(w) \/ ExpirySteps(w)
  BY <1>4 DEF ExpiryBegins, SweepBegin, DepositSweepBegin,
       ExpirySteps, SweepExpireHold, SweepRelease, SweepReadLinked,
       SweepExpireRequest, NextHold, NextDeposit, ExpireRead, ExpireWrite, ExpireReadRequest,
       ExpireWriteRequest, ExpireReadHold, ExpireWriteHold, ExpireRelease
<1> QED
  BY <1>1, <1>2, <1>3, <1>4 DEF Begins, Steps

------------------------------------------------------------------------------
(* Where a statement leaves the record of its invocation *)

\* All that the call record of worker w holds apart from the step stays.
Kept(w) ==
  /\ call'[w].hold = call[w].hold       /\ call'[w].stay = call[w].stay
  /\ call'[w].request = call[w].request /\ call'[w].deposit = call[w].deposit
  /\ call'[w].booking = call[w].booking /\ call'[w].todo = call[w].todo
  /\ call'[w].linked = call[w].linked
Ends(w)        == call'[w] = Idle /\ call'[w].at = "idle"
Moves(w, step) == call'[w].at = step /\ Kept(w)
\* The other fields but the one written.
KeptOn(w) == /\ call'[w].request = call[w].request /\ call'[w].stay = call[w].stay
             /\ call'[w].hold = call[w].hold

LEMMA Moving ==
  ASSUME call \in [Workers -> CallRecord], NEW w \in Workers
  PROVE  /\ \A step : Goto(w, step) => Moves(w, step)
         /\ \A step : Continue(w, [call[w] EXCEPT !.at = step]) => Moves(w, step)
         /\ Return(w) => Ends(w)
         /\ \A h : ReleaseThen(w, h, Idle) => Ends(w)
         /\ \A h, step : ReleaseThen(w, h, [call[w] EXCEPT !.at = step]) =>
              Ends(w) \/ Moves(w, step)
<1>1. ASSUME NEW step, Goto(w, step) PROVE Moves(w, step)
  BY <1>1 DEF Goto, Moves, Kept, CallRecord
<1>2. ASSUME NEW step, Continue(w, [call[w] EXCEPT !.at = step]) PROVE Moves(w, step)
  BY <1>2 DEF Continue, Moves, Kept, CallRecord
<1>3. ASSUME Return(w) PROVE Ends(w)
  BY <1>3 DEF Return, Ends, Idle
<1>4. ASSUME NEW h, ReleaseThen(w, h, Idle) PROVE Ends(w)
  BY <1>3, <1>4 DEF ReleaseThen, Continue, Return
<1>5. ASSUME NEW h, NEW step, ReleaseThen(w, h, [call[w] EXCEPT !.at = step])
      PROVE  Ends(w) \/ Moves(w, step)
  BY <1>2, <1>3, <1>5, Zenon DEF ReleaseThen
<1> QED
  BY <1>1, <1>2, <1>3, <1>4, <1>5

LEMMA HoldMoves ==
  ASSUME call \in [Workers -> CallRecord], NEW w \in Workers
  PROVE  /\ \A s, mode : CreateCheckBookings(w, s, mode) =>
              call'[w].at = "create_check_blocks" /\ call'[w].stay = s
         /\ CreateCheckBlocks(w) =>
              Ends(w) \/ (~BlockConflict(call[w].stay) /\ Moves(w, "create_insert_hold"))
         /\ CreateInsertHold(w) => /\ call'[w].at = "create_insert_block"
                                   /\ call'[w].hold = Len(holds) + 1 /\ call'[w].stay = call[w].stay
         /\ CreateInsertBlock(w) => Ends(w) \/ Moves(w, "create_insert_request")
         /\ \A h : CancelRead(w, h) => call'[w].at = "cancel_write_hold" /\ call'[w].hold = h
         /\ \A h : AdminCancelRead(w, h) =>
              call'[w].at = "admin_cancel_write_hold" /\ call'[w].hold = h
<1>1. ASSUME NEW s, NEW mode, CreateCheckBookings(w, s, mode)
      PROVE  call'[w].at = "create_check_blocks" /\ call'[w].stay = s
  BY <1>1 DEF CreateCheckBookings, Begin, Idle
<1>2. ASSUME CreateCheckBlocks(w)
      PROVE  Ends(w) \/ (~BlockConflict(call[w].stay) /\ Moves(w, "create_insert_hold"))
  <2>1. CASE Return(w)
    BY <2>1, Moving
  <2>2. CASE ~BlockConflict(call[w].stay) /\ Goto(w, "create_insert_hold")
    BY <2>2, Moving
  <2> QED
    BY <1>2, <2>1, <2>2, Zenon DEF CreateCheckBlocks
<1>3. ASSUME CreateInsertHold(w)
      PROVE  /\ call'[w].at = "create_insert_block"
             /\ call'[w].hold = Len(holds) + 1 /\ call'[w].stay = call[w].stay
  <2> DEFINE n == Len(holds) + 1
  <2>1. Continue(w, [call[w] EXCEPT !.at = "create_insert_block", !.hold = n])
    BY <1>3 DEF CreateInsertHold
  <2> HIDE DEF n
  <2>2. call'[w].at = "create_insert_block" /\ call'[w].hold = n /\ call'[w].stay = call[w].stay
    BY <2>1 DEF Continue, CallRecord
  <2> QED
    BY <2>2 DEF n
<1>4. ASSUME CreateInsertBlock(w) PROVE Ends(w) \/ Moves(w, "create_insert_request")
  BY <1>4, Moving DEF CreateInsertBlock
<1>5. ASSUME NEW h, CancelRead(w, h) PROVE call'[w].at = "cancel_write_hold" /\ call'[w].hold = h
  BY <1>5 DEF CancelRead, Begin, Idle
<1>6. ASSUME NEW h, AdminCancelRead(w, h)
      PROVE  call'[w].at = "admin_cancel_write_hold" /\ call'[w].hold = h
  BY <1>6 DEF AdminCancelRead, Begin, Idle
<1> QED
  BY <1>1, <1>2, <1>3, <1>4, <1>5, <1>6

LEMMA RequestMoves ==
  ASSUME call \in [Workers -> CallRecord], NEW w \in Workers
  PROVE  /\ \A h : SubmitRead(w, h) =>
              /\ call'[w].at = IF holds[h].late THEN "submit_lapse_hold"
                                              ELSE "submit_insert_request"
              /\ call'[w].hold = h
         /\ SubmitInsertRequest(w) => call'[w].at = "ensure_read"
         /\ \A r : RejectWriteRequest(w, r) =>
              call'[w].at = "reject_write_hold" /\ call'[w].hold = HoldOf(r)
         /\ \A r, mode : ConvertRead(w, r, mode) =>
              call'[w].at = "convert_read_hold" /\ call'[w].request = r
         /\ ConvertReadHold(w) =>
              \/ Ends(w)
              \/ /\ call'[w].at = "convert_read_deposit" /\ call'[w].request = call[w].request
                 /\ call'[w].hold = HoldOf(call[w].request)
                 /\ holds[HoldOf(call[w].request)].status \in {"active", "converted"}
         /\ ConvertReadDeposit(w) => Ends(w) \/ Moves(w, "convert_pick_code")
         /\ ConvertPickCode(w) => Moves(w, "convert_insert_booking")
         /\ ConvertInsertBooking(w) =>
              \/ Ends(w) /\ UNCHANGED <<bookings, bookingBlock>>
              \/ /\ call'[w].at = "convert_mark_request" /\ KeptOn(w)
                 /\ call'[w].booking = Len(bookings) + 1
<1>1. ASSUME NEW h, SubmitRead(w, h)
      PROVE  /\ call'[w].at = IF holds[h].late THEN "submit_lapse_hold" ELSE "submit_insert_request"
             /\ call'[w].hold = h
  BY <1>1 DEF SubmitRead, Begin, Idle
<1>2. ASSUME SubmitInsertRequest(w) PROVE call'[w].at = "ensure_read"
  BY <1>2 DEF SubmitInsertRequest, Continue, CallRecord
<1>3. ASSUME NEW r, RejectWriteRequest(w, r)
      PROVE  call'[w].at = "reject_write_hold" /\ call'[w].hold = HoldOf(r)
  BY <1>3 DEF RejectWriteRequest, Begin, Idle
<1>4. ASSUME NEW r, NEW mode, ConvertRead(w, r, mode)
      PROVE  call'[w].at = "convert_read_hold" /\ call'[w].request = r
  BY <1>4 DEF ConvertRead, Begin, Idle
<1>5. ASSUME ConvertReadHold(w), ~Ends(w)
      PROVE  /\ call'[w].at = "convert_read_deposit" /\ call'[w].request = call[w].request
             /\ call'[w].hold = HoldOf(call[w].request)
             /\ holds[HoldOf(call[w].request)].status \in {"active", "converted"}
  <2> DEFINE h == HoldOf(call[w].request)
             c == [call[w] EXCEPT !.at = "convert_read_deposit", !.hold = h, !.stay = holds[h].stay]
  <2>1. holds[h].status \in {"active", "converted"} /\ call' = [call EXCEPT ![w] = c]
    BY <1>5, Moving DEF ConvertReadHold, Continue
  <2>2. c.at = "convert_read_deposit" /\ c.hold = h /\ c.request = call[w].request
    BY DEF CallRecord
  <2> HIDE DEF c
  <2> QED
    BY <2>1, <2>2
<1>6. ASSUME ConvertReadDeposit(w) PROVE Ends(w) \/ Moves(w, "convert_pick_code")
  <2> DEFINE c == [call[w] EXCEPT !.at = "convert_pick_code", !.mode = "tentative"]
  <2>1. CASE Return(w)
    BY <2>1, Moving
  <2>2. CASE Goto(w, "convert_pick_code")
    BY <2>2, Moving
  <2>3. CASE Continue(w, c)
    BY <2>3 DEF Continue, Moves, Kept, CallRecord
  <2> QED
    BY <1>6, <2>1, <2>2, <2>3 DEF ConvertReadDeposit
<1>7. ASSUME ConvertPickCode(w) PROVE Moves(w, "convert_insert_booking")
  BY <1>7 DEF ConvertPickCode, Continue, Moves, Kept, CallRecord
<1>8. ASSUME ConvertInsertBooking(w)
      PROVE  \/ Ends(w) /\ UNCHANGED <<bookings, bookingBlock>>
             \/ /\ call'[w].at = "convert_mark_request" /\ KeptOn(w)
                /\ call'[w].booking = Len(bookings) + 1
  <2>1. CASE Return(w) /\ UNCHANGED <<bookings, bookingBlock>>
    BY <2>1, Moving
  <2>2. CASE Continue(w, [call[w] EXCEPT !.at = "convert_mark_request",
                                         !.booking = Len(bookings) + 1])
    BY <2>2 DEF Continue, KeptOn, CallRecord
  <2> QED
    BY <1>8, <2>1, <2>2 DEF ConvertInsertBooking
<1> QED
  BY <1>1, <1>2, <1>3, <1>4, <1>5, <1>6, <1>7, <1>8

LEMMA DepositMoves ==
  ASSUME call \in [Workers -> CallRecord], NEW w \in Workers
  PROVE  /\ \A r : RecreateReadRequest(w, r) => call'[w].at = "recreate_read_deposit"
         /\ \A d, endpoint, step : Decide(w, d, endpoint, step) =>
              call'[w].at = step /\ call'[w].deposit = d
         /\ EnsureRead(w) =>
              \/ Ends(w)
              \/ /\ Moves(w, "ensure_insert")
                 /\ \/ LatestDeposit(call[w].request) = 0
                    \/ deposits[LatestDeposit(call[w].request)].status # "pending"
         /\ EnsureInsert(w) => /\ call'[w].at = "ensure_session"
                               /\ call'[w].deposit = Len(deposits) + 1
                               /\ call'[w].request = call[w].request
         /\ RecreateReadDeposit(w) =>
              \/ Moves(w, "ensure_read")
              \/ /\ call'[w].at = "recreate_cancel"
                 /\ call'[w].deposit = LatestDeposit(call[w].request)
                 /\ call'[w].deposit # 0
                 /\ deposits[call'[w].deposit].status \notin PaidStatuses
<1>1. ASSUME NEW r, RecreateReadRequest(w, r) PROVE call'[w].at = "recreate_read_deposit"
  BY <1>1 DEF RecreateReadRequest, Begin, Idle
<1>2. ASSUME NEW d, NEW endpoint, NEW step, Decide(w, d, endpoint, step)
      PROVE  call'[w].at = step /\ call'[w].deposit = d
  BY <1>2 DEF Decide, Begin, Idle
<1>3. ASSUME EnsureRead(w)
      PROVE  \/ Ends(w)
             \/ /\ Moves(w, "ensure_insert")
                /\ \/ LatestDeposit(call[w].request) = 0
                   \/ deposits[LatestDeposit(call[w].request)].status # "pending"
  <2> DEFINE d == LatestDeposit(call[w].request)
  <2>1. \/ Return(w)
        \/ /\ d = 0 \/ deposits[d].status \in {"cancelled", "failed"}
           /\ Goto(w, "ensure_insert")
    BY <1>3, Zenon DEF EnsureRead
  <2> HIDE DEF d
  <2>2. Ends(w) \/ (Moves(w, "ensure_insert") /\ (d = 0 \/ deposits[d].status # "pending"))
    BY <2>1, Moving
  <2> QED
    BY <2>2 DEF d
<1>4. ASSUME EnsureInsert(w)
      PROVE  /\ call'[w].at = "ensure_session" /\ call'[w].deposit = Len(deposits) + 1
             /\ call'[w].request = call[w].request
  <2> DEFINE n == Len(deposits) + 1
  <2>1. Continue(w, [call[w] EXCEPT !.at = "ensure_session", !.deposit = n])
    BY <1>4 DEF EnsureInsert
  <2> HIDE DEF n
  <2>2. /\ call'[w].at = "ensure_session" /\ call'[w].deposit = n
        /\ call'[w].request = call[w].request
    BY <2>1 DEF Continue, CallRecord
  <2> QED
    BY <2>2 DEF n
<1>5. ASSUME RecreateReadDeposit(w)
      PROVE  \/ Moves(w, "ensure_read")
             \/ /\ call'[w].at = "recreate_cancel"
                /\ call'[w].deposit = LatestDeposit(call[w].request)
                /\ call'[w].deposit # 0
                /\ deposits[call'[w].deposit].status \notin PaidStatuses
  <2> DEFINE d == LatestDeposit(call[w].request)
  <2>1. \/ /\ d # 0 /\ deposits[d].status \notin SettledStatuses
           /\ Continue(w, [call[w] EXCEPT !.at = "recreate_cancel", !.deposit = d])
        \/ Goto(w, "ensure_read")
    BY <1>5, Zenon DEF RecreateReadDeposit
  <2> HIDE DEF d
  <2>2. CASE Goto(w, "ensure_read")
    BY <2>2, Moving
  <2>3. CASE /\ d # 0 /\ deposits[d].status \notin SettledStatuses
             /\ Continue(w, [call[w] EXCEPT !.at = "recreate_cancel", !.deposit = d])
    <3>1. call'[w].at = "recreate_cancel" /\ call'[w].deposit = d
      BY <2>3 DEF Continue, CallRecord
    <3> QED
      BY <2>3, <3>1 DEF SettledStatuses, d
  <2> QED
    BY <2>1, <2>2, <2>3
<1> QED
  BY <1>1, <1>2, <1>3, <1>4, <1>5

LEMMA ExpiryMoves ==
  ASSUME call \in [Workers -> CallRecord], NEW w \in Workers
  PROVE  /\ SweepBegin(w) => call'[w].at = "sweep_next" /\ call'[w].todo = SweepCandidates
         /\ DepositSweepBegin(w) => call'[w].at = "expire_next"
         /\ SweepExpireHold(w) => \E h \in call[w].todo :
              /\ SetHoldStatus(h, "expired")
              /\ call'[w].at = "sweep_release" /\ call'[w].hold = h
              /\ call'[w].todo = call[w].todo \ {h}
         /\ SweepReadLinked(w) =>
              \/ Ends(w)
              \/ call'[w].at = "sweep_next" /\ call'[w].todo = call[w].todo
              \/ /\ call'[w].at = "sweep_expire_request" /\ call'[w].todo = call[w].todo
                 /\ call'[w].linked = RequestsAt(call[w].hold, {"submitted", "under_review"})
         /\ SweepExpireRequest(w) => \E r \in call[w].linked :
              /\ SetRequestStatus(r, "expired")
              /\ \/ Ends(w)
                 \/ call'[w].at = "sweep_next" /\ call'[w].todo = call[w].todo
                 \/ /\ call'[w].at = "sweep_expire_request" /\ call'[w].todo = call[w].todo
                    /\ call'[w].linked = call[w].linked \ {r}
         /\ ExpireRead(w) =>
              \/ call'[w].at \in {"idle", "expire_next"}
              \/ call'[w].at = "expire_write" /\ call'[w].deposit \in OverdueDeposits
         /\ ExpireWrite(w) => call'[w].at = "expire_read_request"
         /\ ExpireReadHold(w) =>
              \/ holds[call[w].hold].status = "active" /\ Moves(w, "expire_write_hold")
              \/ call'[w].at \in {"idle", "expire_next"}
         /\ ExpireRelease(w) => call'[w].at \in {"idle", "expire_next"}
<1> DEFINE on == call'[w].at = "sweep_next" /\ call'[w].todo = call[w].todo
<1>0. NextHold(w) => Ends(w) \/ on
  BY Moving DEF NextHold, Continue, Idle
<1>1. ASSUME SweepBegin(w) PROVE call'[w].at = "sweep_next" /\ call'[w].todo = SweepCandidates
  BY <1>1 DEF SweepBegin, Begin, Idle
<1>2. ASSUME DepositSweepBegin(w) PROVE call'[w].at = "expire_next"
  BY <1>2 DEF DepositSweepBegin, Begin, Idle
<1>3. ASSUME SweepExpireHold(w)
      PROVE  \E h \in call[w].todo :
               /\ SetHoldStatus(h, "expired")
               /\ call'[w].at = "sweep_release" /\ call'[w].hold = h
               /\ call'[w].todo = call[w].todo \ {h}
  BY <1>3 DEF SweepExpireHold, Continue, CallRecord
<1>4. ASSUME SweepReadLinked(w), ~Ends(w), ~on
      PROVE  /\ call'[w].at = "sweep_expire_request" /\ call'[w].todo = call[w].todo
             /\ call'[w].linked = RequestsAt(call[w].hold, {"submitted", "under_review"})
  <2> DEFINE linked == RequestsAt(call[w].hold, {"submitted", "under_review"})
  <2>1. Continue(w, [call[w] EXCEPT !.at = "sweep_expire_request", !.linked = linked])
    BY <1>0, <1>4 DEF SweepReadLinked
  <2> QED
    BY <2>1 DEF Continue, CallRecord
<1>5. ASSUME SweepExpireRequest(w)
      PROVE  \E r \in call[w].linked :
               /\ SetRequestStatus(r, "expired")
               /\ \/ Ends(w)
                  \/ on
                  \/ /\ call'[w].at = "sweep_expire_request" /\ call'[w].todo = call[w].todo
                     /\ call'[w].linked = call[w].linked \ {r}
  <2>1. PICK r \in call[w].linked :
          /\ SetRequestStatus(r, "expired")
          /\ NextHold(w) \/ Continue(w, [call[w] EXCEPT !.linked = @ \ {r}])
    BY <1>5 DEF SweepExpireRequest
  <2>2. call[w].at = "sweep_expire_request"
    BY <1>5 DEF SweepExpireRequest, At
  <2>3. ASSUME Continue(w, [call[w] EXCEPT !.linked = @ \ {r}])
        PROVE  /\ call'[w].at = "sweep_expire_request" /\ call'[w].todo = call[w].todo
               /\ call'[w].linked = call[w].linked \ {r}
    BY <2>2, <2>3 DEF Continue, CallRecord
  <2> QED
    BY <1>0, <2>1, <2>3
<1>6. ASSUME ExpireRead(w)
      PROVE  \/ call'[w].at \in {"idle", "expire_next"}
             \/ call'[w].at = "expire_write" /\ call'[w].deposit \in OverdueDeposits
  <2>1. PICK d \in call[w].todo :
          \/ /\ d \in OverdueDeposits
             /\ Continue(w, [call[w] EXCEPT !.at = "expire_write", !.deposit = d,
                                            !.todo = call[w].todo \ {d}])
          \/ Return(w)
          \/ Continue(w, [call[w] EXCEPT !.todo = call[w].todo \ {d}])
    BY <1>6 DEF ExpireRead
  <2>2. call[w].at = "expire_next"
    BY <1>6 DEF ExpireRead, At
  <2>3. CASE Return(w)
    BY <2>3, Moving DEF Ends
  <2>4. CASE Continue(w, [call[w] EXCEPT !.todo = call[w].todo \ {d}])
    BY <2>2, <2>4 DEF Continue, CallRecord
  <2>5. CASE /\ d \in OverdueDeposits
             /\ Continue(w, [call[w] EXCEPT !.at = "expire_write", !.deposit = d,
                                            !.todo = call[w].todo \ {d}])
    BY <2>5 DEF Continue, CallRecord
  <2> QED
    BY <2>1, <2>3, <2>4, <2>5
<1>7. ASSUME ExpireWrite(w) PROVE call'[w].at = "expire_read_request"
  BY <1>7 DEF ExpireWrite, Continue, CallRecord
<1>8. ASSUME ExpireReadHold(w)
      PROVE  \/ holds[call[w].hold].status = "active" /\ Moves(w, "expire_write_hold")
             \/ call'[w].at \in {"idle", "expire_next"}
  <2>1. CASE NextDeposit(w)
    <3>1. CASE Return(w)
      BY <3>1, Moving DEF Ends
    <3>2. CASE Continue(w, [Idle EXCEPT !.at = "expire_next", !.todo = call[w].todo])
      BY <3>2 DEF Continue, Idle
    <3> QED
      BY <2>1, <3>1, <3>2 DEF NextDeposit
  <2>2. CASE Goto(w, "expire_write_hold") /\ holds[call[w].hold].status = "active"
    BY <2>2, Moving
  <2>3. \/ Goto(w, "expire_write_hold") /\ holds[call[w].hold].status = "active"
        \/ NextDeposit(w)
    BY <1>8, Zenon DEF ExpireReadHold
  <2> QED
    BY <2>1, <2>2, <2>3
<1>9. ASSUME ExpireRelease(w) PROVE call'[w].at \in {"idle", "expire_next"}
  <2> DEFINE c == IF call[w].todo = {} THEN Idle
                  ELSE [Idle EXCEPT !.at = "expire_next", !.todo = call[w].todo]
  <2>1. c.at \in {"idle", "expire_next"}
    BY DEF Idle
  <2>2. Return(w) \/ Continue(w, c)
    BY <1>9 DEF ExpireRelease, ReleaseThen
  <2> HIDE DEF c
  <2> QED
    BY <2>1, <2>2, Moving DEF Ends, Continue
<1> HIDE DEF on
<1> QED
  BY <1>1, <1>2, <1>3, <1>4, <1>5, <1>6, <1>7, <1>8, <1>9 DEF on

------------------------------------------------------------------------------
(* What one statement can do to the deposits *)

\* It reads: from here the handler writes no deposit, or one it saw unpaid, or
\* it opens a new one, having seen the latest settled.
DepositsRead(w) ==
  /\ UNCHANGED deposits
  /\ \/ call'[w].at \notin Overwriting \cup Opening
     \/ /\ call'[w].at \in Overwriting \ Opening
        /\ call'[w].deposit \in Ids(deposits)
        /\ deposits[call'[w].deposit].status \notin PaidStatuses
     \/ /\ call'[w].at = "ensure_insert"
        /\ \/ LatestDeposit(call'[w].request) = 0
           \/ deposits[LatestDeposit(call'[w].request)].status # "pending"

\* It inserts a deposit to be paid.
DepositInserted(w) ==
  /\ At(w, "ensure_insert")
  /\ Len(deposits) \in Nat
  /\ Ids(deposits) = 1..Len(deposits) /\ Ids(deposits)' = 1..(Len(deposits) + 1)
  /\ \A d \in Ids(deposits) : deposits'[d] = deposits[d]
  /\ deposits'[Len(deposits) + 1].status = "pending"
  /\ deposits'[Len(deposits) + 1].request = call[w].request
  /\ call'[w].at = "ensure_session" /\ call'[w].deposit = Len(deposits) + 1
  /\ call'[w].request = call[w].request

\* It writes one status, and the handler is done with that deposit.
DepositWritten(w) ==
  /\ Ids(deposits)' = Ids(deposits)
  /\ \A d \in Ids(deposits) :
       /\ deposits'[d].request = deposits[d].request
       /\ d # call[w].deposit => deposits'[d].status = deposits[d].status
  /\ LET s == deposits'[call[w].deposit].status IN
     call[w].deposit \in Ids(deposits) =>
       \/ /\ call[w].at \in Overwriting /\ s \notin PaidStatuses
          /\ s = "pending" => At(w, "ensure_session")
       \/ At(w, "mark_paid_write") /\ s = "manually_marked_paid"
       \/ At(w, "refund_write") /\ s = "refunded"
  /\ call'[w].at \notin Overwriting \cup Opening

DepositWork(w) == DepositsRead(w) \/ DepositInserted(w) \/ DepositWritten(w)

\* No handler of another part touches a deposit.
LEMMA HoldHandlerDeposits ==
  ASSUME call \in [Workers -> CallRecord], NEW w \in Workers, HoldBegins(w) \/ HoldSteps(w)
  PROVE  DepositWork(w)
<1>1. UNCHANGED deposits
  BY DEF HoldBegins, CreateCheckBookings, CancelRead, AdminCancelRead,
       HoldSteps, CreateCheckBlocks, CreateInsertHold, CreateInsertBlock,
       CreateInsertRequest, CancelWriteHold, CancelRelease, AdminCancelWriteHold,
       AdminCancelRelease, AdminCancelSyncRead, AdminCancelSyncWrite,
       NoTables, OnlyHolds, OnlyHoldBlock, OnlyRequests, tables
<1>2. call'[w].at \notin Overwriting \cup Opening
  <2> USE DEF Overwriting, Opening, Ends, Moves
  <2>1. CASE HoldBegins(w)
    BY <2>1, HoldMoves DEF HoldBegins
  <2>2. CASE CreateCheckBlocks(w) \/ CreateInsertHold(w) \/ CreateInsertBlock(w)
    BY <2>2, HoldMoves
  <2>3. CASE CreateInsertRequest(w)
    BY <2>3, Moving DEF CreateInsertRequest
  <2>4. CASE CancelWriteHold(w) \/ AdminCancelWriteHold(w) \/ AdminCancelSyncRead(w)
    BY <2>4, Moving DEF CancelWriteHold, AdminCancelWriteHold, AdminCancelSyncRead
  <2>5. CASE CancelRelease(w) \/ AdminCancelRelease(w) \/ AdminCancelSyncWrite(w)
    BY <2>5, Moving DEF CancelRelease, AdminCancelRelease, AdminCancelSyncWrite
  <2> QED
    BY <2>1, <2>2, <2>3, <2>4, <2>5 DEF HoldSteps
<1> QED
  BY <1>1, <1>2 DEF DepositWork, DepositsRead

LEMMA RequestHandlerDeposits ==
  ASSUME call \in [Workers -> CallRecord], NEW w \in Workers, RequestBegins(w) \/ RequestSteps(w)
  PROVE  DepositWork(w)
<1>1. UNCHANGED deposits
  BY DEF RequestBegins, SubmitRead, RejectWriteRequest, ConvertRead,
       RequestSteps, SubmitLapseHold, SubmitLapseRelease, SubmitInsertRequest,
       RejectWriteHold, RejectRelease, ConvertReadHold, ConvertReadDeposit, ConvertPickCode,
       ConvertInsertBooking, ConvertMarkRequest, ConvertMarkHold, ConvertRelease, ConvertSyncBlock,
       NoTables, OnlyHolds, OnlyHoldBlock, OnlyRequests, tables
<1>2. call'[w].at \notin Overwriting \cup Opening
  <2> USE DEF Overwriting, Opening, Ends, Moves
  <2>1. CASE RequestBegins(w)
    BY <2>1, RequestMoves DEF RequestBegins
  <2>2. CASE SubmitInsertRequest(w) \/ ConvertReadHold(w) \/ ConvertReadDeposit(w)
             \/ ConvertPickCode(w) \/ ConvertInsertBooking(w)
    BY <2>2, RequestMoves
  <2>3. CASE SubmitLapseHold(w) \/ RejectWriteHold(w) \/ ConvertMarkRequest(w) \/ ConvertMarkHold(w)
    BY <2>3, Moving DEF SubmitLapseHold, RejectWriteHold, ConvertMarkRequest, ConvertMarkHold
  <2>4. CASE SubmitLapseRelease(w) \/ RejectRelease(w) \/ ConvertRelease(w)
    BY <2>4, Moving DEF SubmitLapseRelease, RejectRelease, ConvertRelease
  <2>5. CASE ConvertSyncBlock(w)
    BY <2>5, Moving DEF ConvertSyncBlock
  <2> QED
    BY <2>1, <2>2, <2>3, <2>4, <2>5 DEF RequestSteps
<1> QED
  BY <1>1, <1>2 DEF DepositWork, DepositsRead

\* An UPDATE of the deposit the handler names.
LEMMA DepositRewritten ==
  ASSUME deposits \in Seq(DepositRow), NEW w \in Workers, NEW e,
         deposits' = [deposits EXCEPT ![call[w].deposit] = e],
         call[w].deposit \in Ids(deposits) =>
           /\ e \in DepositRow /\ e.request = deposits[call[w].deposit].request
           /\ \/ /\ call[w].at \in Overwriting /\ e.status \notin PaidStatuses
                 /\ e.status = "pending" => At(w, "ensure_session")
              \/ At(w, "mark_paid_write") /\ e.status = "manually_marked_paid"
              \/ At(w, "refund_write") /\ e.status = "refunded",
         call'[w].at \notin Overwriting \cup Opening
  PROVE  DepositWork(w)
<1> DEFINE i == call[w].deposit
<1>1. /\ deposits' \in Seq(DepositRow) /\ Len(deposits') = Len(deposits)
      /\ \A j \in 1..Len(deposits) : deposits'[j] = IF j = i THEN e ELSE deposits[j]
  BY RowWrite DEF Ids
<1>2. Ids(deposits)' = 1..Len(deposits) /\ Ids(deposits) = 1..Len(deposits)
  BY <1>1, LenProperties DEF Ids
<1>3. \A j \in Ids(deposits) : deposits'[j] = IF j = i THEN e ELSE deposits[j]
  BY <1>1, <1>2
<1>4. \A j \in Ids(deposits) : /\ deposits'[j].request = deposits[j].request
                               /\ j # i => deposits'[j].status = deposits[j].status
  BY <1>3
<1>5. i \in Ids(deposits) => deposits'[i].status = e.status
  BY <1>3
<1> QED
  BY <1>1, <1>2, <1>4, <1>5 DEF DepositWork, DepositWritten

\* An UPDATE of its status alone.
LEMMA DepositSettled ==
  ASSUME Inv, NEW w \in Workers, NEW s \in DepositStatus, SetDepositStatus(call[w].deposit, s),
         \/ call[w].at \in Overwriting /\ s \notin PaidStatuses \cup {"pending"}
         \/ At(w, "refund_write") /\ s = "refunded",
         call'[w].at \notin Overwriting \cup Opening
  PROVE  DepositWork(w)
<1> DEFINE i == call[w].deposit
           e == [deposits[i] EXCEPT !.status = s]
<1>1. deposits \in Seq(DepositRow) /\ deposits' = [deposits EXCEPT ![i] = e]
  BY DEF Inv, TablesOK, Typed, SetDepositStatus
<1>2. i \in Ids(deposits) =>
        e \in DepositRow /\ e.request = deposits[i].request /\ e.status = s
  BY Domains DEF Inv, TablesOK, DepositRow
<1> HIDE DEF e
<1> QED
  BY <1>1, <1>2, DepositRewritten

LEMMA ExpiryHandlerDeposits ==
  ASSUME Inv, NEW w \in Workers, ExpiryBegins(w) \/ ExpirySteps(w)
  PROVE  DepositWork(w)
<1>0. call \in [Workers -> CallRecord]
  BY DEF Inv, CallsOK
<1> USE DEF Overwriting, Opening
<1>1. ASSUME ~ExpireRead(w), ~ExpireWrite(w) PROVE DepositWork(w)
  <2>1. UNCHANGED deposits
    BY <1>1 DEF ExpiryBegins, ExpirySteps, SweepBegin, DepositSweepBegin, SweepExpireHold,
         SweepRelease, SweepReadLinked, SweepExpireRequest, ExpireReadRequest, ExpireWriteRequest,
         ExpireReadHold, ExpireWriteHold, ExpireRelease,
         NoTables, OnlyHolds, OnlyHoldBlock, OnlyRequests, tables
  <2>2. call'[w].at \notin Overwriting \cup Opening
    <3> USE <1>0 DEF Ends, Moves
    <3>1. CASE SweepBegin(w) \/ DepositSweepBegin(w) \/ SweepExpireHold(w) \/ SweepReadLinked(w)
               \/ SweepExpireRequest(w) \/ ExpireReadHold(w) \/ ExpireRelease(w)
      BY <3>1, ExpiryMoves
    <3>2. CASE SweepRelease(w)
      BY <3>2, Moving DEF SweepRelease
    <3>3. CASE ExpireReadRequest(w) \/ ExpireWriteRequest(w) \/ ExpireWriteHold(w)
      BY <3>3, Moving DEF ExpireReadRequest, ExpireWriteRequest, ExpireWriteHold
    <3> QED
      BY <1>1, <3>1, <3>2, <3>3 DEF ExpiryBegins, ExpirySteps
  <2> QED
    BY <2>1, <2>2 DEF DepositWork, DepositsRead
<1>2. CASE ExpireRead(w)
  <2>1. UNCHANGED deposits
    BY <1>2 DEF ExpireRead, NoTables, tables
  <2>2. \/ call'[w].at \in {"idle", "expire_next"}
        \/ call'[w].at = "expire_write" /\ call'[w].deposit \in OverdueDeposits
    BY <1>0, <1>2, ExpiryMoves
  <2> QED
    BY <2>1, <2>2 DEF DepositWork, DepositsRead, OverdueDeposits, PaidStatuses, Ids
<1>3. CASE ExpireWrite(w)
  <2>1. call'[w].at = "expire_read_request"
    BY <1>0, <1>3, ExpiryMoves
  <2> QED
    BY <1>3, <2>1, DepositSettled DEF ExpireWrite, At, DepositStatus, PaidStatuses
<1> QED
  BY <1>1, <1>2, <1>3

LEMMA DepositHandlerDeposits ==
  ASSUME Inv, NEW w \in Workers, DepositBegins(w) \/ DepositSteps(w)
  PROVE  DepositWork(w)
<1> DEFINE i == call[w].deposit
<1>0. call \in [Workers -> CallRecord] /\ deposits \in Seq(DepositRow)
  BY DEF Inv, CallsOK, TablesOK, Typed
<1> USE DEF Overwriting, Opening
<1>1. CASE DepositBegins(w)
  <2>1. UNCHANGED deposits
    BY <1>1 DEF DepositBegins, RecreateReadRequest, MarkPaidRead, MarkFailedRead,
         CancelDepositRead, RefundRead, Decide, NoTables, tables
  <2>2. \/ call'[w].at \in {"recreate_read_deposit", "mark_paid_write", "refund_write"}
        \/ /\ call'[w].at \in {"mark_failed_write", "cancel_deposit_write"}
           /\ call'[w].deposit \in Ids(deposits)
           /\ deposits[call'[w].deposit].status \notin PaidStatuses
    BY <1>0, <1>1, DepositMoves
    DEF DepositBegins, MarkPaidRead, MarkFailedRead, CancelDepositRead, RefundRead
  <2> QED
    BY <2>1, <2>2 DEF DepositWork, DepositsRead
<1>2. CASE EnsureRead(w)
  <2>1. UNCHANGED deposits
    BY <1>2 DEF EnsureRead, NoTables, tables
  <2>2. \/ call'[w].at = "idle"
        \/ /\ call'[w].at = "ensure_insert"
           /\ \/ LatestDeposit(call'[w].request) = 0
              \/ deposits[LatestDeposit(call'[w].request)].status # "pending"
    BY <1>0, <1>2, DepositMoves DEF Ends, Moves, Kept
  <2> QED
    BY <2>1, <2>2 DEF DepositWork, DepositsRead
<1>3. CASE EnsureInsert(w)
  <2> DEFINE row == [request |-> call[w].request, status |-> "pending",
                     open |-> FALSE, late |-> FALSE, paidAt |-> FALSE]
  <2>1. deposits' = Append(deposits, row) /\ At(w, "ensure_insert")
    BY <1>3 DEF EnsureInsert
  <2>2. row.request = call[w].request /\ row.status = "pending"
    OBVIOUS
  <2> HIDE DEF row
  <2>3. /\ Ids(deposits) = 1..Len(deposits) /\ Len(deposits) \in Nat
        /\ Ids(deposits)' = 1..(Len(deposits) + 1)
        /\ \A d \in Ids(deposits) : deposits'[d] = deposits[d]
        /\ deposits'[Len(deposits) + 1] = row
    BY <1>0, <2>1, LenProperties DEF Ids
  <2> QED
    BY <1>0, <1>3, <2>1, <2>2, <2>3, DepositMoves DEF DepositWork, DepositInserted
<1>4. CASE RecreateReadDeposit(w)
  <2>1. UNCHANGED deposits
    BY <1>4 DEF RecreateReadDeposit, NoTables, tables
  <2>2. \/ call'[w].at = "ensure_read"
        \/ /\ call'[w].at = "recreate_cancel" /\ call'[w].deposit \in Ids(deposits)
           /\ deposits[call'[w].deposit].status \notin PaidStatuses
    BY <1>0, <1>4, DepositMoves, LatestDepositIsOwn DEF Moves
  <2> QED
    BY <2>1, <2>2 DEF DepositWork, DepositsRead
<1>5. CASE EnsureStoreSession(w)
  <2> DEFINE e == [deposits[i] EXCEPT !.status = "pending", !.open = TRUE]
  <2>1. deposits' = [deposits EXCEPT ![i] = e] /\ At(w, "ensure_session") /\ Return(w)
    BY <1>0, <1>5 DEF EnsureStoreSession, Ids
  <2>2. i \in Ids(deposits) =>
          e \in DepositRow /\ e.request = deposits[i].request /\ e.status = "pending"
    BY Domains DEF Inv, TablesOK, DepositRow, DepositStatus
  <2>3. call'[w].at = "idle"
    BY <1>0, <2>1, Moving DEF Ends
  <2> HIDE DEF e
  <2> QED
    BY <1>0, <2>1, <2>2, <2>3, DepositRewritten DEF At, PaidStatuses
<1>6. CASE MarkPaidWrite(w)
  <2> DEFINE e == [deposits[i] EXCEPT !.status = "manually_marked_paid", !.paidAt = TRUE]
  <2>1. deposits' = [deposits EXCEPT ![i] = e] /\ At(w, "mark_paid_write") /\ Return(w)
    BY <1>0, <1>6 DEF MarkPaidWrite, Ids
  <2>2. i \in Ids(deposits) => /\ e \in DepositRow /\ e.request = deposits[i].request
                               /\ e.status = "manually_marked_paid"
    BY Domains DEF Inv, TablesOK, DepositRow, DepositStatus
  <2>3. call'[w].at = "idle"
    BY <1>0, <2>1, Moving DEF Ends
  <2> HIDE DEF e
  <2> QED
    BY <1>0, <2>1, <2>2, <2>3, DepositRewritten
<1>7. CASE EnsureSessionFailed(w) \/ MarkFailedWrite(w) \/ CancelDepositWrite(w) \/ RefundWrite(w)
  <2>1. call'[w].at = "idle"
    BY <1>0, <1>7, Moving DEF EnsureSessionFailed, MarkFailedWrite, CancelDepositWrite,
         RefundWrite, Ends
  <2> QED
    BY <1>7, <2>1, DepositSettled DEF EnsureSessionFailed, MarkFailedWrite, CancelDepositWrite,
         RefundWrite, At, DepositStatus, PaidStatuses
<1>8. CASE RecreateCancel(w)
  <2>1. call'[w].at = "ensure_read"
    BY <1>0, <1>8, Moving DEF RecreateCancel, Moves
  <2> QED
    BY <1>8, <2>1, DepositSettled DEF RecreateCancel, At, DepositStatus, PaidStatuses
<1> QED
  BY <1>1, <1>2, <1>3, <1>4, <1>5, <1>6, <1>7, <1>8 DEF DepositSteps

\* A step of the specification is the work of one worker, or leaves every
\* deposit its request and its status and brings no worker further.
NoDepositWork ==
  /\ Ids(deposits)' = Ids(deposits)
  /\ \A d \in Ids(deposits) : /\ deposits'[d].request = deposits[d].request
                              /\ deposits'[d].status = deposits[d].status
  /\ \A v \in Workers : call'[v] = call[v] \/ call'[v].at = "idle"

LEMMA DepositChange ==
  ASSUME Inv, [Next]_vars
  PROVE  NoDepositWork \/ \E w \in Workers : Acts(w) /\ DepositWork(w)
<1>0. call \in [Workers -> CallRecord]
  BY DEF Inv, CallsOK
<1>1. ASSUME NEW w \in Workers, Begins(w) \/ Steps(w) PROVE Acts(w) /\ DepositWork(w)
  BY <1>0, <1>1, Acting, HoldHandlerDeposits, RequestHandlerDeposits, ExpiryHandlerDeposits,
     DepositHandlerDeposits DEF Begins, Steps
<1>2. ASSUME UNCHANGED deposits, \A v \in Workers : call'[v] = call[v] \/ call'[v].at = "idle"
      PROVE  NoDepositWork
  BY <1>2 DEF NoDepositWork, Ids
<1>3. ASSUME NEW w \in Workers, Crash(w) PROVE NoDepositWork
  BY <1>0, <1>2, <1>3 DEF Crash, Return, Idle, tables
<1>4. CASE Reviews
  BY <1>2, <1>4 DEF Reviews, MarkUnderReview, Approve, OnlyRequests
<1>5. ASSUME NEW h \in Ids(holds), HoldDeadlinePasses(h) PROVE NoDepositWork
  BY <1>2, <1>5 DEF HoldDeadlinePasses
<1>6. ASSUME NEW d \in Ids(deposits), DepositDeadlinePasses(d) PROVE NoDepositWork
  <2> DEFINE e == [deposits[d] EXCEPT !.late = TRUE]
  <2>1. deposits' = [deposits EXCEPT ![d] = e] /\ UNCHANGED call
    BY <1>6 DEF DepositDeadlinePasses
  <2>2. e.request = deposits[d].request /\ e.status = deposits[d].status
    BY Domains DEF Inv, TablesOK, DepositRow
  <2> HIDE DEF e
  <2> QED
    BY <2>1, <2>2 DEF NoDepositWork, Ids
<1>7. CASE UNCHANGED vars
  BY <1>2, <1>7 DEF vars, tables
<1> QED
  BY <1>1, <1>3, <1>4, <1>5, <1>6, <1>7 DEF Next, Clock

------------------------------------------------------------------------------
(* Payments are not overwritten *)

\* Nobody is about to write over a payment.
UnpaidInv ==
  \A w \in Workers : call[w].at \in Overwriting =>
    call[w].deposit \in Ids(deposits) /\ deposits[call[w].deposit].status \notin PaidStatuses

MoneyKept ==
  \A d \in Ids(deposits) : deposits[d].status \in PaidStatuses
    => deposits'[d].status \in PaidStatuses \cup {"refunded"}

LEMMA UnpaidNext ==
  ASSUME Inv, UnpaidInv, PaymentsApart, [Next]_vars
  PROVE  UnpaidInv' /\ MoneyKept
<1> USE DEF UnpaidInv, MoneyKept, PaidStatuses
<1>1. CASE NoDepositWork
  BY <1>1 DEF NoDepositWork, Overwriting
<1>2. ASSUME NEW w \in Workers, Acts(w), DepositsRead(w) PROVE UnpaidInv' /\ MoneyKept
  BY <1>2 DEF DepositsRead, Acts, Others, Opening, Overwriting, Ids
<1>3. ASSUME NEW w \in Workers, Acts(w), DepositInserted(w) PROVE UnpaidInv' /\ MoneyKept
  <2>1. \A d \in Ids(deposits) : d \in Ids(deposits)' /\ deposits'[d] = deposits[d]
    BY <1>3 DEF DepositInserted
  <2>2. /\ call'[w].deposit \in Ids(deposits)'
        /\ deposits'[call'[w].deposit].status = "pending"
    BY <1>3 DEF DepositInserted
  <2> QED
    BY <1>3, <2>1, <2>2 DEF Acts, Others
<1>4. ASSUME NEW w \in Workers, Acts(w), DepositWritten(w) PROVE UnpaidInv' /\ MoneyKept
  BY <1>4 DEF DepositWritten, Acts, Others, PaymentsApart, At
<1> QED
  BY <1>1, <1>2, <1>3, <1>4, DepositChange DEF DepositWork

\* Whatever staff click, whichever session is recreated and whatever the sweep
\* expires, a deposit recorded as paid leaves that state by a refund only, if no
\* payment is recorded while another handler, having read the deposit as unpaid,
\* is about to write its status.
THEOREM MoneyIsKept == Spec /\ []PaymentsApart => PaidMoneyIsKept
<1>1. Init => UnpaidInv
  BY DEF Init, UnpaidInv, Idle, Overwriting
<1>2. Inv /\ UnpaidInv /\ PaymentsApart /\ [Next]_vars
        => UnpaidInv' /\ [\A d \in Ids(deposits) : deposits[d].status \in PaidStatuses
                            => deposits'[d].status \in PaidStatuses \cup {"refunded"}]_vars
  BY UnpaidNext DEF MoneyKept
<1> QED
  BY <1>1, <1>2, InvHolds, PTL DEF Spec, PaidMoneyIsKept

------------------------------------------------------------------------------
(* One deposit to pay *)

\* Only the last deposit of a request can be waiting for its money, and a
\* handler that opens one is right about there being no other.
PendingIsLatest ==
  \A d, e \in Ids(deposits) :
    d < e /\ deposits[d].request = deposits[e].request => deposits[d].status # "pending"
OpeningRight(c) ==
  /\ c.at = "ensure_insert" =>
       \A d \in Ids(deposits) : deposits[d].request = c.request => deposits[d].status # "pending"
  /\ c.at = "ensure_session" =>
       /\ c.deposit \in Ids(deposits) /\ deposits[c.deposit].request = c.request
       /\ \A d \in Ids(deposits) : deposits[d].request = c.request => d <= c.deposit
OpenInv == PendingIsLatest /\ \A w \in Workers : OpeningRight(call[w])

\* getDepositForRequest returns the last deposit of the request.
LEMMA LatestDepositIsLast ==
  ASSUME deposits \in Seq(DepositRow), NEW d \in Ids(deposits)
  PROVE  LatestDeposit(deposits[d].request) # 0 /\ d <= LatestDeposit(deposits[d].request)
<1> DEFINE r    == deposits[d].request
           mine == {e \in Ids(deposits) : deposits[e].request = r}
<1>1. Len(deposits) \in Nat /\ DOMAIN deposits = 1..Len(deposits)
  BY LenProperties
<1>2. mine \in SUBSET (0..Len(deposits)) /\ d \in mine
  BY <1>1 DEF Ids
<1>3. \E m \in mine : \A k \in mine : k <= m
  BY <1>1, <1>2, GreatestExists
<1>4. LatestDeposit(r) \in mine /\ \A k \in mine : k <= LatestDeposit(r)
  BY <1>2, <1>3 DEF LatestDeposit
<1> QED
  BY <1>1, <1>2, <1>4 DEF Ids

\* When the last one is settled, no deposit of the request is pending.
LEMMA NoneOpen ==
  ASSUME deposits \in Seq(DepositRow), PendingIsLatest, NEW r,
         LatestDeposit(r) = 0 \/ deposits[LatestDeposit(r)].status # "pending",
         NEW d \in Ids(deposits), deposits[d].request = r
  PROVE  deposits[d].status # "pending"
<1>1. LatestDeposit(r) # 0 /\ d <= LatestDeposit(r)
  BY LatestDepositIsLast
<1>2. LatestDeposit(r) \in Ids(deposits) /\ deposits[LatestDeposit(r)].request = r
  BY <1>1, LatestDepositIsOwn
<1>3. d \in Nat /\ LatestDeposit(r) \in Nat
  BY <1>2, LenProperties DEF Ids
<1> QED
  BY <1>1, <1>2, <1>3 DEF PendingIsLatest

LEMMA OpenNext ==
  ASSUME Inv, OpenInv, OpeningsApart, [Next]_vars
  PROVE  OpenInv'
<1>0. deposits \in Seq(DepositRow) /\ \A d \in Ids(deposits) : d \in Nat
  BY Domains DEF Inv, TablesOK, Typed
<1>1. CASE NoDepositWork
  BY <1>1 DEF NoDepositWork, OpenInv, OpeningRight, PendingIsLatest
<1>2. ASSUME NEW w \in Workers, Acts(w), DepositsRead(w) PROVE OpenInv'
  <2>1. PendingIsLatest' /\ \A v \in Others(w) : OpeningRight(call[v])'
    BY <1>2 DEF DepositsRead, Acts, OpenInv, PendingIsLatest, OpeningRight, Others, Ids
  <2>2. CASE call'[w].at \notin Opening
    BY <2>1, <2>2 DEF OpenInv, OpeningRight, Others, Opening
  <2>3. CASE call'[w].at \in Opening
    <3>1. /\ call'[w].at = "ensure_insert"
          /\ \/ LatestDeposit(call'[w].request) = 0
             \/ deposits[LatestDeposit(call'[w].request)].status # "pending"
      BY <1>2, <2>3 DEF DepositsRead
    <3>2. \A d \in Ids(deposits) :
            deposits[d].request = call'[w].request => deposits[d].status # "pending"
      BY <1>0, <3>1, NoneOpen DEF OpenInv
    <3>3. OpeningRight(call[w])'
      BY <1>2, <3>1, <3>2 DEF DepositsRead, OpeningRight, Ids
    <3> QED
      BY <2>1, <3>3 DEF OpenInv, Others
  <2> QED
    BY <2>2, <2>3
<1>3. ASSUME NEW w \in Workers, Acts(w), DepositInserted(w) PROVE OpenInv'
  <2> DEFINE n == Len(deposits) + 1
  <2>1. \A d \in Ids(deposits) :
          deposits[d].request = call[w].request => deposits[d].status # "pending"
    BY <1>3 DEF DepositInserted, At, OpenInv, OpeningRight
  <2>2. PendingIsLatest'
    BY <1>0, <1>3, <2>1 DEF DepositInserted, OpenInv, PendingIsLatest
  <2>3. OpeningRight(call[w])'
    BY <1>3 DEF DepositInserted, OpeningRight
  <2>4. ASSUME NEW v \in Others(w) PROVE OpeningRight(call[v])'
    <3>1. call'[v] = call[v] /\ OpeningRight(call[v])
      BY <1>3, <2>4 DEF Acts, Others, OpenInv
    <3>2. call[v].at \in Opening => call[v].request # call[w].request
      BY <1>3, <2>4 DEF DepositInserted, At, OpeningsApart, Opening, Others
    <3>3. \A d \in Ids(deposits)' : d \in Ids(deposits) \/ deposits'[d].request = call[w].request
      BY <1>3 DEF DepositInserted
    <3>4. \A d \in Ids(deposits) : d \in Ids(deposits)' /\ deposits'[d] = deposits[d]
      BY <1>3 DEF DepositInserted
    <3> QED
      BY <3>1, <3>2, <3>3, <3>4 DEF OpeningRight, Opening
  <2> QED
    BY <2>2, <2>3, <2>4 DEF OpenInv, Others
<1>4. ASSUME NEW w \in Workers, Acts(w), DepositWritten(w) PROVE OpenInv'
  <2>1. /\ Ids(deposits)' = Ids(deposits)
        /\ \A d \in Ids(deposits) : deposits'[d].request = deposits[d].request
        /\ \A d \in Ids(deposits) : deposits'[d].status = "pending"
             => \/ deposits[d].status = "pending"
                \/ At(w, "ensure_session") /\ d = call[w].deposit
    BY <1>4 DEF DepositWritten, PaidStatuses
  <2>2. At(w, "ensure_session") =>
          /\ deposits[call[w].deposit].request = call[w].request
          /\ \A d \in Ids(deposits) : deposits[d].request = call[w].request => d <= call[w].deposit
    BY DEF At, OpenInv, OpeningRight
  <2>3. PendingIsLatest'
    BY <1>0, <2>1, <2>2 DEF OpenInv, PendingIsLatest
  <2>4. OpeningRight(call[w])'
    BY <1>4 DEF DepositWritten, OpeningRight, Opening
  <2>5. ASSUME NEW v \in Others(w) PROVE OpeningRight(call[v])'
    <3>1. call'[v] = call[v] /\ OpeningRight(call[v])
      BY <1>4, <2>5 DEF Acts, Others, OpenInv
    <3>2. call[v].at \in Opening /\ At(w, "ensure_session") => call[v].request # call[w].request
      BY <2>5 DEF At, OpeningsApart, Opening, Others
    <3> QED
      BY <2>1, <2>2, <3>1, <3>2 DEF OpeningRight, Opening
  <2> QED
    BY <2>3, <2>4, <2>5 DEF OpenInv, Others
<1> QED
  BY <1>1, <1>2, <1>3, <1>4, DepositChange DEF DepositWork

\* A request never has two deposits to pay, if no two invocations open one for
\* it at the same time: a new one is opened only when the latest is settled.
THEOREM AtMostOneOpenDeposit == Spec /\ []OpeningsApart => []OneOpenDeposit
<1>1. Init => OpenInv
  BY DEF Init, OpenInv, PendingIsLatest, OpeningRight, Idle, Ids
<1>2. Inv /\ OpenInv /\ OpeningsApart /\ [Next]_vars => OpenInv'
  BY OpenNext
<1>3. Inv /\ OpenInv => OneOpenDeposit
  <2>1. ASSUME TablesOK, PendingIsLatest, NEW d \in Ids(deposits), NEW e \in Ids(deposits),
               d # e, deposits[d].request = deposits[e].request
        PROVE  ~(deposits[d].status = "pending" /\ deposits[e].status = "pending")
    <3>1. d \in Nat /\ e \in Nat
      BY <2>1, Domains DEF TablesOK
    <3> QED
      BY <2>1, <3>1 DEF PendingIsLatest
  <2> QED
    BY <2>1 DEF OneOpenDeposit, Inv, OpenInv
<1> QED
  BY <1>1, <1>2, <1>3, InvHolds, PTL DEF Spec

------------------------------------------------------------------------------
(* What one statement can do to the calendar *)

\* The steps between ending a hold and releasing its block, those between
\* inserting a booking and blocking its dates, and all at which the handler
\* owes the calendar a write.
Releasing == {"cancel_release", "admin_cancel_release", "submit_lapse_release", "reject_release",
              "convert_release", "sweep_release", "expire_release"}
Issuing   == {"convert_mark_request", "convert_mark_hold", "convert_release", "convert_sync_block"}
Owing     == {"create_insert_block"} \cup Releasing \cup Issuing

\* It writes one request at most.
RequestWork(w) ==
  \/ UNCHANGED requests
  \/ /\ call[w].at \in {"create_insert_request", "submit_insert_request"}
     /\ InsertRequest(call[w].hold)
  \/ \E r : \E s \in {"expired", "rejected"} :
       SetRequestStatus(r, s) /\ (s = "expired" => r \in RequestsToExpire(call[w]))
  \/ ConvertMarkRequest(w)

\* It writes nothing else, and what is owed is still owed.
Passes(w) ==
  /\ UNCHANGED <<holds, holdBlock, bookings, bookingBlock>> /\ RequestWork(w)
  /\ \/ call[w].at \notin Owing
     \/ /\ call[w].at = "convert_mark_request"
        /\ call'[w].at = "convert_mark_hold" /\ call'[w].booking = call[w].booking

\* A hold is abandoned, and its block is to follow.
Drops(w) ==
  /\ call[w].at \notin Owing /\ call'[w].at \in Releasing \ Issuing
  /\ call'[w].hold \in Ending(call[w])
  /\ \E s \in {"expired", "cancelled", "rejected"} :
       /\ SetHoldStatus(call'[w].hold, s)
       /\ s = "expired" => call'[w].hold \in HoldsToExpire(call[w])
  /\ UNCHANGED <<holdBlock, requests, bookings, bookingBlock>>

\* The block of a hold is released, or the table refuses.
Frees(w) ==
  /\ call[w].at \in Releasing \cup {"admin_cancel_sync_release"}
  /\ UNCHANGED <<holds, requests, bookings, bookingBlock>>
  /\ \/ ReleaseRaises(call[w].hold) /\ UNCHANGED holdBlock
     \/ /\ holdBlock' = [holdBlock EXCEPT ![call[w].hold] = IF @ = "active" THEN "released" ELSE @]
        /\ call[w].at \in Issuing => /\ call'[w].at = "convert_sync_block"
                                     /\ call'[w].booking = call[w].booking

\* The calendar is brought in line with a hold that was converted meanwhile.
Reactivates(w) ==
  /\ call[w].at = "admin_cancel_sync_activate"
  /\ holdBlock' = [holdBlock EXCEPT ![call[w].hold] = "active"]
  /\ UNCHANGED <<holds, requests, bookings, bookingBlock>>

\* A booking is inserted, and its block is to follow.
Issues(w) ==
  /\ call[w].at = "convert_insert_booking"
  /\ \E row : /\ row.request = call[w].request /\ row.stay = call[w].stay
              /\ bookings' = Append(bookings, row)
  /\ bookingBlock' = Append(bookingBlock, "absent")
  /\ UNCHANGED <<holds, holdBlock, requests>>
  /\ call'[w].at = "convert_mark_request" /\ call'[w].booking = Len(bookings) + 1

CalendarWork(w) ==
  \/ Passes(w) \/ Drops(w) \/ Frees(w) \/ Reactivates(w) \/ Issues(w)
  \/ CreateInsertHold(w) \/ CreateInsertBlock(w) \/ ConvertMarkHold(w) \/ ConvertSyncBlock(w)

\* An UPDATE of the status of one hold, or of one request.
LEMMA HoldStatusWritten ==
  ASSUME TablesOK, NEW i, NEW s \in HoldStatus, SetHoldStatus(i, s)
  PROVE  /\ Ids(holds)' = Ids(holds)
         /\ \A h \in Ids(holds) : /\ holds'[h].stay = holds[h].stay
                                  /\ holds'[h].status = IF h = i THEN s ELSE holds[h].status
<1> DEFINE e == [holds[i] EXCEPT !.status = s]
<1>1. holds \in Seq(HoldRow) /\ holds' = [holds EXCEPT ![i] = e]
  BY DEF SetHoldStatus, TablesOK, Typed
<1>2. i \in DOMAIN holds => e \in HoldRow /\ e.stay = holds[i].stay /\ e.status = s
  BY Domains DEF TablesOK, HoldRow, Ids
<1> HIDE DEF e
<1>3. /\ holds' \in Seq(HoldRow) /\ Len(holds') = Len(holds)
      /\ \A j \in 1..Len(holds) : holds'[j] = IF j = i THEN e ELSE holds[j]
  BY <1>1, <1>2, RowWrite
<1>4. Ids(holds)' = 1..Len(holds) /\ Ids(holds) = 1..Len(holds)
  BY <1>1, <1>3, LenProperties DEF Ids
<1> QED
  BY <1>2, <1>3, <1>4 DEF Ids

LEMMA RequestStatusWritten ==
  ASSUME TablesOK, NEW i, NEW s \in RequestStatus, SetRequestStatus(i, s)
  PROVE  /\ Ids(requests)' = Ids(requests)
         /\ \A r \in Ids(requests) :
              /\ requests'[r].hold = requests[r].hold
              /\ requests'[r].status = IF r = i THEN s ELSE requests[r].status
<1> DEFINE e == [requests[i] EXCEPT !.status = s]
<1>1. requests \in Seq(RequestRow) /\ requests' = [requests EXCEPT ![i] = e]
  BY DEF SetRequestStatus, TablesOK, Typed
<1>2. i \in DOMAIN requests => e \in RequestRow /\ e.hold = requests[i].hold /\ e.status = s
  BY Domains DEF TablesOK, RequestRow, Ids
<1> HIDE DEF e
<1>3. /\ requests' \in Seq(RequestRow) /\ Len(requests') = Len(requests)
      /\ \A j \in 1..Len(requests) : requests'[j] = IF j = i THEN e ELSE requests[j]
  BY <1>1, <1>2, RowWrite
<1>4. Ids(requests)' = 1..Len(requests) /\ Ids(requests) = 1..Len(requests)
  BY <1>1, <1>3, LenProperties DEF Ids
<1> QED
  BY <1>2, <1>3, <1>4 DEF Ids

LEMMA ConvertingHold ==
  ASSUME Inv, NEW w \in Workers, call[w].at \in HoldRead
  PROVE  /\ call[w].request \in Ids(requests) /\ call[w].hold = HoldOf(call[w].request)
         /\ call[w].hold \in Ids(holds) /\ call[w].stay = holds[call[w].hold].stay
<1>1. /\ call[w].request \in Ids(requests) /\ call[w].hold = HoldOf(call[w].request)
      /\ call[w].stay = holds[call[w].hold].stay
  BY DEF Inv, CallsOK, KnowsNow, Knows, Converting, HoldOf, Ids
<1> QED
  BY <1>1 DEF Inv, TablesOK, References

\* The statements on requests leave the hold of a request alone.
RequestsKeepHolds ==
  \A r \in Ids(requests) : r \in Ids(requests)' /\ requests'[r].hold = requests[r].hold

LEMMA HoldsOfRequestsKept ==
  ASSUME Inv
  PROVE  /\ UNCHANGED requests => RequestsKeepHolds
         /\ \A r : \A s \in RequestStatus : SetRequestStatus(r, s) => RequestsKeepHolds
         /\ \A w \in Workers : RequestWork(w) => RequestsKeepHolds
<1>0. TablesOK /\ requests \in Seq(RequestRow)
  BY DEF Inv, TablesOK, Typed
<1>1. UNCHANGED requests => RequestsKeepHolds
  BY DEF RequestsKeepHolds, Ids
<1>2. ASSUME NEW r, NEW s \in RequestStatus, SetRequestStatus(r, s) PROVE RequestsKeepHolds
  BY <1>0, <1>2, RequestStatusWritten DEF RequestsKeepHolds
<1>3. ASSUME NEW h, InsertRequest(h) PROVE RequestsKeepHolds
  <2> DEFINE row == [hold |-> h, status |-> "submitted", booking |-> 0]
  <2>1. requests' = Append(requests, row)
    BY <1>3 DEF InsertRequest
  <2> HIDE DEF row
  <2> QED
    BY <1>0, <2>1, LenProperties DEF RequestsKeepHolds, Ids
<1>4. ASSUME NEW w \in Workers, ConvertMarkRequest(w) PROVE RequestsKeepHolds
  <2> DEFINE i == call[w].request
             e == [requests[i] EXCEPT !.status = "converted", !.booking = call[w].booking]
  <2>1. i \in Ids(requests)
    BY <1>4, ConvertingHold DEF ConvertMarkRequest, At, HoldRead, Marking
  <2>2. requests' = [requests EXCEPT ![i] = e]
    BY <1>4, <2>1 DEF ConvertMarkRequest, Ids
  <2>3. e.hold = requests[i].hold
    BY <1>0, <2>1, Domains DEF RequestRow, TablesOK
  <2> HIDE DEF e, i
  <2> QED
    BY <2>2, <2>3 DEF RequestsKeepHolds, Ids
<1> QED
  BY <1>1, <1>2, <1>3, <1>4 DEF RequestWork, RequestStatus

LEMMA Beginning ==
  ASSUME NEW w \in Workers, Begins(w)
  PROVE  call[w] = Idle /\ call[w].at = "idle"
<1>1. call[w] = Idle
  <2>1. CASE HoldBegins(w)
    BY <2>1 DEF HoldBegins, CreateCheckBookings, CancelRead, AdminCancelRead, Begin
  <2>2. CASE RequestBegins(w)
    BY <2>2 DEF RequestBegins, SubmitRead, RejectWriteRequest, ConvertRead, Begin
  <2>3. CASE DepositBegins(w)
    BY <2>3 DEF DepositBegins, RecreateReadRequest, MarkPaidRead, MarkFailedRead,
                CancelDepositRead, RefundRead, Decide, Begin
  <2>4. CASE ExpiryBegins(w)
    BY <2>4 DEF ExpiryBegins, SweepBegin, DepositSweepBegin, Begin
  <2> QED
    BY <2>1, <2>2, <2>3, <2>4 DEF Begins
<1> QED
  BY <1>1 DEF Idle

LEMMA BeginsPass ==
  ASSUME NEW w \in Workers, Begins(w)
  PROVE  Passes(w)
<1>1. call[w].at = "idle"
  BY Beginning
<1>2. /\ UNCHANGED <<holds, holdBlock, bookings, bookingBlock>>
      /\ UNCHANGED requests \/ \E r : SetRequestStatus(r, "rejected")
  BY DEF Begins, HoldBegins, CreateCheckBookings, CancelRead, AdminCancelRead,
     RequestBegins, SubmitRead, RejectWriteRequest, ConvertRead,
     DepositBegins, RecreateReadRequest, MarkPaidRead, MarkFailedRead, CancelDepositRead,
     RefundRead, Decide, ExpiryBegins, SweepBegin, DepositSweepBegin, NoTables, OnlyRequests, tables
<1>3. RequestWork(w)
  BY <1>2 DEF RequestWork
<1> QED
  BY <1>1, <1>2, <1>3 DEF Passes, Owing, Releasing, Issuing

LEMMA Freeing ==
  ASSUME NEW w \in Workers,
         call[w].at \in (Releasing \ Issuing) \cup {"admin_cancel_sync_release"},
         NEW c, ReleaseThen(w, call[w].hold, c), OnlyHoldBlock
  PROVE  Frees(w)
<1>1. call[w].at \notin Issuing
  BY DEF Issuing
<1> QED
  BY <1>1 DEF ReleaseThen, OnlyHoldBlock, Frees

\* Ending the hold that the handler names.
LEMMA Dropping ==
  ASSUME call \in [Workers -> CallRecord], NEW w \in Workers, call[w].at \in EndingOne,
         NEW s \in {"expired", "cancelled", "rejected"}, SetHoldStatus(call[w].hold, s),
         s = "expired" => call[w].at \in Lapsing,
         NEW step \in Releasing \ Issuing, Goto(w, step), OnlyHolds
  PROVE  Drops(w)
<1>1. call[w].at \notin Owing
  BY DEF EndingOne, Lapsing, Owing, Releasing, Issuing
<1>2. call'[w].at = step /\ call'[w].hold = call[w].hold
  BY Moving DEF Moves, Kept
<1>3. /\ call'[w].hold \in Ending(call[w])
      /\ s = "expired" => call'[w].hold \in HoldsToExpire(call[w])
  BY <1>2 DEF Ending, HoldsToExpire
<1> QED
  BY <1>1, <1>2, <1>3 DEF Drops, OnlyHolds

\* The sweep ends a hold of its snapshot.
LEMMA SweepDropping ==
  ASSUME call \in [Workers -> CallRecord], NEW w \in Workers, SweepExpireHold(w)
  PROVE  Drops(w)
<1>1. call[w].at = "sweep_next" /\ call[w].at \notin Owing /\ OnlyHolds
  BY DEF SweepExpireHold, At, Owing, Releasing, Issuing
<1>2. PICK h \in call[w].todo :
        /\ SetHoldStatus(h, "expired")
        /\ call'[w].at = "sweep_release" /\ call'[w].hold = h
  BY ExpiryMoves
<1>3. h \in Ending(call[w]) /\ h \in HoldsToExpire(call[w])
  BY <1>1 DEF Ending, EndingOne, HoldsToExpire, Lapsing, Sweeping
<1> QED
  BY <1>1, <1>2, <1>3 DEF Drops, Releasing, Issuing, OnlyHolds

LEMMA HoldStepsWork ==
  ASSUME call \in [Workers -> CallRecord], NEW w \in Workers, HoldSteps(w)
  PROVE  CalendarWork(w)
<1>1. CASE CreateCheckBlocks(w) \/ CreateInsertRequest(w) \/ AdminCancelSyncRead(w)
  <2>1. call[w].at \notin Owing /\ UNCHANGED <<holds, holdBlock, bookings, bookingBlock>>
    BY <1>1 DEF CreateCheckBlocks, CreateInsertRequest, AdminCancelSyncRead, At, Owing, Releasing,
                Issuing, NoTables, OnlyRequests, tables
  <2>2. RequestWork(w)
    BY <1>1 DEF CreateCheckBlocks, CreateInsertRequest, AdminCancelSyncRead, At, RequestWork,
                NoTables, tables
  <2> QED
    BY <2>1, <2>2 DEF CalendarWork, Passes
<1>2. CASE CreateInsertHold(w) \/ CreateInsertBlock(w)
  BY <1>2 DEF CalendarWork
<1>3. CASE CancelWriteHold(w) \/ AdminCancelWriteHold(w)
  <2>1. /\ call[w].at \in EndingOne /\ SetHoldStatus(call[w].hold, "cancelled") /\ OnlyHolds
        /\ \E step \in Releasing \ Issuing : Goto(w, step)
    BY <1>3 DEF CancelWriteHold, AdminCancelWriteHold, At, EndingOne, Releasing, Issuing
  <2> QED
    BY <2>1, Dropping DEF CalendarWork
<1>4. CASE CancelRelease(w) \/ AdminCancelRelease(w) \/ At(w, "admin_cancel_sync_release")
  <2>1. /\ call[w].at \in (Releasing \ Issuing) \cup {"admin_cancel_sync_release"} /\ OnlyHoldBlock
        /\ \E c : ReleaseThen(w, call[w].hold, c)
    <3>1. CASE CancelRelease(w) \/ AdminCancelRelease(w)
      BY <3>1 DEF CancelRelease, AdminCancelRelease, At, Releasing, Issuing
    <3>2. CASE At(w, "admin_cancel_sync_release")
      BY <3>2 DEF HoldSteps, CreateCheckBlocks, CreateInsertHold, CreateInsertBlock,
           CreateInsertRequest, CancelWriteHold, CancelRelease, AdminCancelWriteHold,
           AdminCancelRelease, AdminCancelSyncRead, AdminCancelSyncWrite, At
    <3> QED
      BY <1>4, <3>1, <3>2
  <2> QED
    BY <2>1, Freeing DEF CalendarWork
<1>5. CASE AdminCancelSyncWrite(w) /\ ~At(w, "admin_cancel_sync_release")
  BY <1>5 DEF AdminCancelSyncWrite, At, ActivateHoldBlock, OnlyHoldBlock, Reactivates, CalendarWork
<1> QED
  BY <1>1, <1>2, <1>3, <1>4, <1>5 DEF HoldSteps

LEMMA RequestStepsWork ==
  ASSUME call \in [Workers -> CallRecord], NEW w \in Workers, RequestSteps(w)
  PROVE  CalendarWork(w)
<1>1. CASE SubmitInsertRequest(w) \/ ConvertReadHold(w) \/ ConvertReadDeposit(w)
             \/ ConvertPickCode(w)
  <2>1. call[w].at \notin Owing /\ UNCHANGED <<holds, holdBlock, bookings, bookingBlock>>
    BY <1>1 DEF SubmitInsertRequest, ConvertReadHold, ConvertReadDeposit, ConvertPickCode, At,
                Owing, Releasing, Issuing, NoTables, OnlyRequests, tables
  <2>2. RequestWork(w)
    BY <1>1 DEF SubmitInsertRequest, ConvertReadHold, ConvertReadDeposit, ConvertPickCode, At,
                RequestWork, NoTables, tables
  <2> QED
    BY <2>1, <2>2 DEF CalendarWork, Passes
<1>2. CASE SubmitLapseHold(w)
  BY <1>2, Dropping DEF SubmitLapseHold, At, EndingOne, Lapsing, Releasing, Issuing, CalendarWork
<1>3. CASE RejectWriteHold(w)
  BY <1>3, Dropping DEF RejectWriteHold, At, EndingOne, Releasing, Issuing, CalendarWork
<1>4. CASE SubmitLapseRelease(w) \/ RejectRelease(w)
  <2>1. /\ call[w].at \in (Releasing \ Issuing) \cup {"admin_cancel_sync_release"} /\ OnlyHoldBlock
        /\ \E c : ReleaseThen(w, call[w].hold, c)
    BY <1>4 DEF SubmitLapseRelease, RejectRelease, At, Releasing, Issuing
  <2> QED
    BY <2>1, Freeing DEF CalendarWork
<1>5. CASE ConvertInsertBooking(w)
  <2>1. /\ call[w].at = "convert_insert_booking"
        /\ UNCHANGED <<holds, holdBlock, requests>>
    BY <1>5 DEF ConvertInsertBooking, At
  <2>2. CASE UNCHANGED <<bookings, bookingBlock>>
    BY <2>1, <2>2 DEF CalendarWork, Passes, RequestWork, Owing, Releasing, Issuing
  <2>3. CASE ~UNCHANGED <<bookings, bookingBlock>>
    <3> DEFINE row == [request |-> call[w].request, stay |-> call[w].stay,
                       status |-> call[w].mode, suffixed |-> call[w].suffixed]
    <3>1. bookings' = Append(bookings, row) /\ bookingBlock' = Append(bookingBlock, "absent")
      BY <1>5, <2>3 DEF ConvertInsertBooking
    <3>2. row.request = call[w].request /\ row.stay = call[w].stay
      OBVIOUS
    <3> HIDE DEF row
    <3>3. call'[w].at = "convert_mark_request" /\ call'[w].booking = Len(bookings) + 1
      BY <1>5, <2>3, RequestMoves
    <3> QED
      BY <2>1, <3>1, <3>2, <3>3 DEF CalendarWork, Issues
  <2> QED
    BY <2>2, <2>3
<1>6. CASE ConvertMarkRequest(w)
  <2>1. call[w].at = "convert_mark_request" /\ Goto(w, "convert_mark_hold") /\ OnlyRequests
    BY <1>6 DEF ConvertMarkRequest, At
  <2>2. Moves(w, "convert_mark_hold")
    BY <2>1, Moving
  <2> QED
    BY <1>6, <2>1, <2>2 DEF CalendarWork, Passes, RequestWork, Moves, Kept, OnlyRequests
<1>7. CASE ConvertRelease(w)
  <2>1. /\ call[w].at = "convert_release" /\ OnlyHoldBlock
        /\ ReleaseThen(w, call[w].hold, [call[w] EXCEPT !.at = "convert_sync_block"])
    BY <1>7 DEF ConvertRelease, At
  <2>2. CASE ReleaseRaises(call[w].hold)
    BY <2>1, <2>2 DEF CalendarWork, Frees, ReleaseThen, Releasing, OnlyHoldBlock
  <2>3. CASE ~ReleaseRaises(call[w].hold)
    <3>1. /\ Continue(w, [call[w] EXCEPT !.at = "convert_sync_block"])
          /\ holdBlock' = [holdBlock EXCEPT ![call[w].hold] =
                  IF @ = "active" THEN "released" ELSE @]
      BY <2>1, <2>3 DEF ReleaseThen
    <3>2. Moves(w, "convert_sync_block")
      BY <3>1, Moving
    <3> QED
      BY <2>1, <3>1, <3>2 DEF CalendarWork, Frees, Moves, Kept, Releasing, OnlyHoldBlock
  <2> QED
    BY <2>2, <2>3
<1>8. CASE ConvertMarkHold(w) \/ ConvertSyncBlock(w)
  BY <1>8 DEF CalendarWork
<1> QED
  BY <1>1, <1>2, <1>3, <1>4, <1>5, <1>6, <1>7, <1>8 DEF RequestSteps

LEMMA DepositStepsWork ==
  ASSUME NEW w \in Workers, DepositSteps(w)
  PROVE  CalendarWork(w)
<1>1. /\ call[w].at \notin Owing
      /\ UNCHANGED <<holds, holdBlock, requests, bookings, bookingBlock>>
  BY DEF DepositSteps, EnsureRead, EnsureInsert, EnsureStoreSession,
     EnsureSessionFailed, RecreateReadDeposit, RecreateCancel, MarkPaidWrite, MarkFailedWrite,
     CancelDepositWrite, RefundWrite, At, Owing, Releasing, Issuing, NoTables, OnlyDeposits, tables
<1> QED
  BY <1>1 DEF CalendarWork, Passes, RequestWork

LEMMA ExpiryStepsWork ==
  ASSUME call \in [Workers -> CallRecord], NEW w \in Workers, ExpirySteps(w)
  PROVE  CalendarWork(w)
<1>1. CASE SweepReadLinked(w) \/ SweepExpireRequest(w) \/ ExpireRead(w) \/ ExpireWrite(w)
           \/ ExpireReadRequest(w) \/ ExpireWriteRequest(w) \/ ExpireReadHold(w)
  <2>1. call[w].at \notin Owing
    BY <1>1 DEF SweepReadLinked, SweepExpireRequest, ExpireRead, ExpireWrite, ExpireReadRequest,
                ExpireWriteRequest, ExpireReadHold, At, Owing, Releasing, Issuing
  <2>2. UNCHANGED <<holds, holdBlock, bookings, bookingBlock>>
    BY <1>1 DEF SweepReadLinked, SweepExpireRequest, ExpireRead, ExpireWrite, ExpireReadRequest,
                ExpireWriteRequest, ExpireReadHold, NoTables, OnlyRequests, OnlyDeposits, tables
  <2>3. RequestWork(w)
    <3>1. CASE SweepExpireRequest(w)
      <4>1. \E r \in call[w].linked : SetRequestStatus(r, "expired")
        BY <3>1 DEF SweepExpireRequest
      <4>2. RequestsToExpire(call[w]) = call[w].linked
        BY <3>1 DEF SweepExpireRequest, At, RequestsToExpire
      <4> QED
        BY <4>1, <4>2 DEF RequestWork
    <3>2. CASE ExpireWriteRequest(w)
      BY <3>2 DEF ExpireWriteRequest, At, RequestsToExpire, RequestWork
    <3> QED
      BY <1>1, <3>1, <3>2 DEF SweepReadLinked, ExpireRead, ExpireWrite, ExpireReadRequest,
         ExpireReadHold, NoTables, OnlyDeposits, tables, RequestWork
  <2> QED
    BY <2>1, <2>2, <2>3 DEF CalendarWork, Passes
<1>2. CASE SweepExpireHold(w)
  BY <1>2, SweepDropping DEF CalendarWork
<1>3. CASE ExpireWriteHold(w)
  BY <1>3, Dropping DEF ExpireWriteHold, At, EndingOne, Lapsing, Releasing, Issuing, CalendarWork
<1>4. CASE SweepRelease(w) \/ ExpireRelease(w)
  <2>1. /\ call[w].at \in (Releasing \ Issuing) \cup {"admin_cancel_sync_release"} /\ OnlyHoldBlock
        /\ \E c : ReleaseThen(w, call[w].hold, c)
    BY <1>4, Zenon DEF SweepRelease, ExpireRelease, At, Releasing, Issuing
  <2> QED
    BY <2>1, Freeing DEF CalendarWork
<1> QED
  BY <1>1, <1>2, <1>3, <1>4 DEF ExpirySteps

LEMMA WorkOnCalendar ==
  ASSUME call \in [Workers -> CallRecord], NEW w \in Workers, Begins(w) \/ Steps(w)
  PROVE  CalendarWork(w)
BY BeginsPass, HoldStepsWork, RequestStepsWork, DepositStepsWork, ExpiryStepsWork
DEF Steps, CalendarWork

------------------------------------------------------------------------------
(* What an invocation has seen when it arrives at a statement *)

\* The steps at which it relies on the status of a row or on free dates.
Syncs   == {"admin_cancel_sync_read", "admin_cancel_sync_activate", "admin_cancel_sync_release"}
Relies  == Lapsing \cup Sweeping \cup {"expire_write_request"} \cup HoldRead \cup Releasing
             \cup OnStay \cup {"create_insert_block"} \cup Syncs

Arrives(w) ==
  /\ \A h \in HoldsToExpire(call'[w]) : h \in HoldsToExpire(call[w]) \/ Live(h)
  /\ \A r \in RequestsToExpire(call'[w]) :
       r \in RequestsToExpire(call[w]) \/ requests[r].status # "converted"
  /\ call'[w].at \in HoldRead =>
       \/ call[w].at \in HoldRead /\ call'[w].hold = call[w].hold
       \/ holds[call'[w].hold].status \in {"active", "converted"}
  /\ call'[w].at \in Releasing => Drops(w) \/ ConvertMarkHold(w)
  /\ call'[w].at = "create_check_blocks" => ~BookingConflict(call'[w].stay) /\ UNCHANGED tables
  /\ call'[w].at = "create_insert_hold" =>
       /\ At(w, "create_check_blocks") /\ ~BlockConflict(call[w].stay)
       /\ call'[w].stay = call[w].stay /\ UNCHANGED tables
  /\ call'[w].at = "create_insert_block" => CreateInsertHold(w)
  /\ call'[w].at = "admin_cancel_sync_read" =>
       AdminCancelRelease(w) /\ call'[w].hold = call[w].hold
  /\ call'[w].at \in {"admin_cancel_sync_activate", "admin_cancel_sync_release"} =>
       /\ At(w, "admin_cancel_sync_read") /\ UNCHANGED tables /\ call'[w].hold = call[w].hold
       /\ call'[w].at = IF holds[call[w].hold].status \in {"active", "converted"}
                        THEN "admin_cancel_sync_activate" ELSE "admin_cancel_sync_release"

LEMMA ReliesOnNothing ==
  ASSUME NEW w, call'[w].at \notin Relies
  PROVE  Arrives(w)
BY DEF Relies, Arrives, HoldsToExpire, RequestsToExpire, Sweeping, OnStay, Syncs

LEMMA HoldHandlerArrives ==
  ASSUME Inv, NEW w \in Workers, HoldBegins(w) \/ HoldSteps(w)
  PROVE  Arrives(w)
<1>0. call \in [Workers -> CallRecord]
  BY DEF Inv, CallsOK
<1> USE DEF Relies, Lapsing, Sweeping, HoldRead, PastGate, Marking, Releasing, OnStay, Syncs
<1>1. ASSUME NEW s \in Stays, NEW mode, CreateCheckBookings(w, s, mode) PROVE Arrives(w)
  <2>1. /\ call'[w].at = "create_check_blocks" /\ ~BookingConflict(call'[w].stay)
        /\ UNCHANGED tables
    BY <1>0, <1>1, HoldMoves DEF CreateCheckBookings, NoTables
  <2> QED
    BY <2>1 DEF Arrives, HoldsToExpire, RequestsToExpire
<1>2. ASSUME NEW h, CancelRead(w, h) \/ AdminCancelRead(w, h) PROVE Arrives(w)
  BY <1>0, <1>2, HoldMoves, ReliesOnNothing
<1>3. CASE CreateCheckBlocks(w)
  <2>1. CASE Ends(w)
    BY <2>1, ReliesOnNothing DEF Ends
  <2>2. CASE ~BlockConflict(call[w].stay) /\ Moves(w, "create_insert_hold")
    BY <1>3, <2>2 DEF Arrives, HoldsToExpire, RequestsToExpire, CreateCheckBlocks, NoTables,
                      Moves, Kept
  <2> QED
    BY <1>0, <1>3, <2>1, <2>2, HoldMoves
<1>4. CASE CreateInsertHold(w)
  <2>1. call'[w].at = "create_insert_block"
    BY <1>0, <1>4, HoldMoves
  <2> QED
    BY <1>4, <2>1 DEF Arrives, HoldsToExpire, RequestsToExpire
<1>5. CASE CreateInsertBlock(w) \/ CreateInsertRequest(w)
  <2>1. Ends(w) \/ Moves(w, "create_insert_request")
    BY <1>0, <1>5, HoldMoves, Moving DEF CreateInsertRequest
  <2> QED
    BY <2>1, ReliesOnNothing DEF Ends, Moves
<1>6. CASE CancelWriteHold(w) \/ AdminCancelWriteHold(w)
  <2>1. /\ call[w].at \in EndingOne /\ SetHoldStatus(call[w].hold, "cancelled") /\ OnlyHolds
        /\ \E step \in {"cancel_release", "admin_cancel_release"} : Goto(w, step)
    BY <1>6 DEF CancelWriteHold, AdminCancelWriteHold, At, EndingOne
  <2>2. Drops(w)
    BY <1>0, <2>1, Dropping DEF Issuing
  <2>3. call'[w].at \in {"cancel_release", "admin_cancel_release"}
    BY <1>0, <2>1, Moving DEF Moves
  <2> QED
    BY <2>2, <2>3 DEF Arrives, HoldsToExpire, RequestsToExpire
<1>7. CASE CancelRelease(w) \/ AdminCancelSyncWrite(w)
  <2>1. Ends(w)
    BY <1>0, <1>7, Moving DEF CancelRelease, AdminCancelSyncWrite
  <2> QED
    BY <2>1, ReliesOnNothing DEF Ends
<1>8. CASE AdminCancelRelease(w)
  <2>1. Ends(w) \/ Moves(w, "admin_cancel_sync_read")
    BY <1>0, <1>8, Moving DEF AdminCancelRelease
  <2>2. CASE Ends(w)
    BY <2>2, ReliesOnNothing DEF Ends
  <2>3. CASE Moves(w, "admin_cancel_sync_read")
    BY <1>8, <2>3 DEF Arrives, HoldsToExpire, RequestsToExpire, Moves, Kept
  <2> QED
    BY <2>1, <2>2, <2>3
<1>9. CASE AdminCancelSyncRead(w)
  <2> DEFINE step == IF holds[call[w].hold].status \in {"active", "converted"}
                     THEN "admin_cancel_sync_activate" ELSE "admin_cancel_sync_release"
  <2>1. Goto(w, step) /\ At(w, "admin_cancel_sync_read") /\ UNCHANGED tables
    BY <1>9 DEF AdminCancelSyncRead, NoTables
  <2>2. step \in {"admin_cancel_sync_activate", "admin_cancel_sync_release"}
    OBVIOUS
  <2> HIDE DEF step
  <2>3. call'[w].at = step /\ call'[w].hold = call[w].hold
    BY <1>0, <2>1, Moving DEF Moves, Kept
  <2> QED
    BY <2>1, <2>2, <2>3 DEF step, Arrives, HoldsToExpire, RequestsToExpire
<1> QED
  BY <1>1, <1>2, <1>3, <1>4, <1>5, <1>6, <1>7, <1>8, <1>9 DEF HoldBegins, HoldSteps

LEMMA RequestHandlerArrives ==
  ASSUME Inv, NEW w \in Workers, RequestBegins(w) \/ RequestSteps(w)
  PROVE  Arrives(w)
<1>0. call \in [Workers -> CallRecord]
  BY DEF Inv, CallsOK
<1> USE DEF Relies, Lapsing, Sweeping, HoldRead, PastGate, Marking, Releasing, OnStay, Syncs
<1>1. CASE RequestBegins(w)
  <2>1. ASSUME NEW h \in Ids(holds), SubmitRead(w, h) PROVE Arrives(w)
    <3>1. Live(call'[w].hold) /\ call'[w].at \in {"submit_lapse_hold", "submit_insert_request"}
      BY <1>0, <2>1, RequestMoves DEF SubmitRead, Live
    <3> QED
      BY <3>1 DEF Arrives, HoldsToExpire, RequestsToExpire
  <2>2. ASSUME NEW r \in Ids(requests), NEW mode,
               RejectWriteRequest(w, r) \/ ConvertRead(w, r, mode)
        PROVE  Arrives(w)
    BY <1>0, <2>2, RequestMoves, ReliesOnNothing
  <2> QED
    BY <1>1, <2>1, <2>2 DEF RequestBegins
<1>2. CASE ConvertReadHold(w)
  <2>1. CASE Ends(w)
    BY <2>1, ReliesOnNothing DEF Ends
  <2>2. CASE /\ call'[w].at = "convert_read_deposit"
             /\ holds[call'[w].hold].status \in {"active", "converted"}
    BY <2>2 DEF Arrives, HoldsToExpire, RequestsToExpire
  <2> QED
    BY <1>0, <1>2, <2>1, <2>2, RequestMoves
<1>3. CASE ConvertReadDeposit(w) \/ ConvertPickCode(w) \/ ConvertInsertBooking(w)
           \/ ConvertMarkRequest(w)
  <2>1. call[w].at \in HoldRead
    BY <1>3 DEF ConvertReadDeposit, ConvertPickCode, ConvertInsertBooking, ConvertMarkRequest, At
  <2>2. \/ Ends(w)
        \/ /\ call'[w].hold = call[w].hold
           /\ call'[w].at \in HoldRead
    <3>1. CASE ConvertMarkRequest(w)
      BY <1>0, <3>1, Moving DEF ConvertMarkRequest, Moves, Kept
    <3> QED
      BY <1>0, <1>3, <3>1, RequestMoves DEF Moves, Kept, KeptOn
  <2>3. CASE Ends(w)
    BY <2>3, ReliesOnNothing DEF Ends
  <2>4. CASE call'[w].hold = call[w].hold /\ call'[w].at \in HoldRead
    BY <2>1, <2>4 DEF Arrives, HoldsToExpire, RequestsToExpire
  <2> QED
    BY <2>2, <2>3, <2>4
<1>4. CASE SubmitInsertRequest(w)
  BY <1>0, <1>4, RequestMoves, ReliesOnNothing
<1>5. CASE SubmitLapseRelease(w) \/ RejectRelease(w) \/ ConvertRelease(w) \/ ConvertSyncBlock(w)
  <2>1. Ends(w) \/ Moves(w, "convert_sync_block")
    BY <1>0, <1>5, Moving DEF SubmitLapseRelease, RejectRelease, ConvertRelease, ConvertSyncBlock
  <2> QED
    BY <2>1, ReliesOnNothing DEF Ends, Moves
<1>6. CASE SubmitLapseHold(w) \/ RejectWriteHold(w)
  <2>1. Drops(w)
    <3>1. CASE SubmitLapseHold(w)
      BY <1>0, <3>1, Dropping DEF SubmitLapseHold, At, EndingOne, Issuing
    <3>2. CASE RejectWriteHold(w)
      BY <1>0, <3>2, Dropping DEF RejectWriteHold, At, EndingOne, Issuing
    <3> QED
      BY <1>6, <3>1, <3>2
  <2>2. call'[w].at \in {"submit_lapse_release", "reject_release"}
    BY <1>0, <1>6, Moving DEF SubmitLapseHold, RejectWriteHold, Moves
  <2> QED
    BY <2>1, <2>2 DEF Arrives, HoldsToExpire, RequestsToExpire
<1>7. CASE ConvertMarkHold(w)
  <2>1. call'[w].at = "convert_release"
    BY <1>0, <1>7, Moving DEF ConvertMarkHold, Moves
  <2> QED
    BY <1>7, <2>1 DEF Arrives, HoldsToExpire, RequestsToExpire
<1> QED
  BY <1>1, <1>2, <1>3, <1>4, <1>5, <1>6, <1>7 DEF RequestSteps

LEMMA DepositHandlerArrives ==
  ASSUME Inv, NEW w \in Workers, DepositBegins(w) \/ DepositSteps(w)
  PROVE  Arrives(w)
<1>0. call \in [Workers -> CallRecord]
  BY DEF Inv, CallsOK
<1> USE DEF Relies, Lapsing, Sweeping, HoldRead, PastGate, Marking, Releasing, OnStay, Syncs
<1>1. call'[w].at \notin Relies
  <2>1. CASE DepositBegins(w)
    BY <1>0, <2>1, DepositMoves
    DEF DepositBegins, MarkPaidRead, MarkFailedRead, CancelDepositRead, RefundRead
  <2>2. CASE EnsureRead(w) \/ EnsureInsert(w) \/ RecreateReadDeposit(w)
    BY <1>0, <2>2, DepositMoves DEF Ends, Moves
  <2>3. CASE RecreateCancel(w)
    BY <1>0, <2>3, Moving DEF RecreateCancel, Moves
  <2>4. ASSUME ~EnsureRead(w), ~EnsureInsert(w), ~RecreateReadDeposit(w), ~RecreateCancel(w),
               DepositSteps(w)
        PROVE  Return(w)
    BY <2>4 DEF DepositSteps, EnsureStoreSession, EnsureSessionFailed, MarkPaidWrite,
                MarkFailedWrite, CancelDepositWrite, RefundWrite
  <2> QED
    BY <1>0, <2>1, <2>2, <2>3, <2>4, Moving DEF Ends
<1> QED
  BY <1>1, ReliesOnNothing

LEMMA ExpiryHandlerArrives ==
  ASSUME Inv, NEW w \in Workers, ExpiryBegins(w) \/ ExpirySteps(w)
  PROVE  Arrives(w)
<1>0. call \in [Workers -> CallRecord]
  BY DEF Inv, CallsOK
<1> USE DEF Relies, Lapsing, Sweeping, HoldRead, PastGate, Marking, Releasing, OnStay, Syncs
<1>1. CASE SweepBegin(w)
  <2>1. call'[w].at = "sweep_next" /\ call'[w].todo = SweepCandidates
    BY <1>0, <1>1, ExpiryMoves
  <2> QED
    BY <2>1 DEF Arrives, HoldsToExpire, RequestsToExpire, SweepCandidates, OverdueHolds, Live
<1>2. CASE DepositSweepBegin(w) \/ ExpireRelease(w) \/ ExpireRead(w) \/ ExpireWrite(w)
  <2>1. call'[w].at \notin Relies
    BY <1>0, <1>2, ExpiryMoves
  <2> QED
    BY <2>1, ReliesOnNothing
<1>3. CASE SweepExpireHold(w)
  <2>1. Drops(w)
    BY <1>0, <1>3, SweepDropping
  <2>2. /\ call'[w].at = "sweep_release" /\ call'[w].todo \subseteq call[w].todo
        /\ call[w].at = "sweep_next"
    BY <1>0, <1>3, ExpiryMoves DEF SweepExpireHold, At
  <2> QED
    BY <2>1, <2>2 DEF Arrives, HoldsToExpire, RequestsToExpire
<1>4. CASE SweepRelease(w)
  <2>1. \/ Ends(w)
        \/ /\ call'[w].at = "sweep_read_linked" /\ call'[w].todo = call[w].todo
           /\ call[w].at = "sweep_release"
    BY <1>0, <1>4, Moving DEF SweepRelease, At, Moves, Kept
  <2> QED
    BY <2>1 DEF Ends, Arrives, HoldsToExpire, RequestsToExpire
<1>5. CASE SweepReadLinked(w) \/ SweepExpireRequest(w)
  <2>1. call[w].at \in {"sweep_read_linked", "sweep_expire_request"}
    BY <1>5 DEF SweepReadLinked, SweepExpireRequest, At
  <2>2. \/ Ends(w)
        \/ call'[w].at \in {"sweep_next", "sweep_expire_request"} /\ call'[w].todo = call[w].todo
    BY <1>0, <1>5, ExpiryMoves
  <2>3. ASSUME call'[w].at = "sweep_expire_request", NEW r \in call'[w].linked
        PROVE  r \in RequestsToExpire(call[w]) \/ requests[r].status # "converted"
    <3>1. CASE SweepReadLinked(w)
      BY <1>0, <2>3, <3>1, ExpiryMoves DEF RequestsAt, Ends
    <3>2. CASE SweepExpireRequest(w)
      BY <1>0, <2>3, <3>2, ExpiryMoves DEF SweepExpireRequest, At, RequestsToExpire, Ends
    <3> QED
      BY <1>5, <3>1, <3>2
  <2> QED
    BY <2>1, <2>2, <2>3 DEF Ends, Arrives, HoldsToExpire, RequestsToExpire
<1>6. CASE ExpireReadRequest(w)
  <2>1. \/ Moves(w, "expire_read_hold")
        \/ /\ Moves(w, "expire_write_request")
           /\ requests[call[w].request].status # "converted"
    BY <1>0, <1>6, Moving DEF ExpireReadRequest
  <2> QED
    BY <2>1 DEF Moves, Kept, Arrives, HoldsToExpire, RequestsToExpire
<1>7. CASE ExpireWriteRequest(w)
  <2>1. Moves(w, "expire_read_hold")
    BY <1>0, <1>7, Moving DEF ExpireWriteRequest
  <2> QED
    BY <2>1, ReliesOnNothing DEF Moves
<1>8. CASE ExpireReadHold(w)
  BY <1>0, <1>8, ExpiryMoves DEF Moves, Kept, Arrives, HoldsToExpire, RequestsToExpire, Live
<1>9. CASE ExpireWriteHold(w)
  <2>1. Drops(w)
    BY <1>0, <1>9, Dropping DEF ExpireWriteHold, At, EndingOne, Issuing
  <2>2. call'[w].at = "expire_release"
    BY <1>0, <1>9, Moving DEF ExpireWriteHold, Moves
  <2> QED
    BY <2>1, <2>2 DEF Arrives, HoldsToExpire, RequestsToExpire
<1> QED
  BY <1>1, <1>2, <1>3, <1>4, <1>5, <1>6, <1>7, <1>8, <1>9 DEF ExpiryBegins, ExpirySteps

LEMMA Arriving ==
  ASSUME Inv, NEW w \in Workers, Begins(w) \/ Steps(w)
  PROVE  Arrives(w)
BY HoldHandlerArrives, RequestHandlerArrives, DepositHandlerArrives, ExpiryHandlerArrives
DEF Begins, Steps

------------------------------------------------------------------------------
(* Which holds an invocation names *)

Queue(c)  == IF c.at \in Sweeping THEN c.todo ELSE {}
Naming(c) == ({c.hold} \cup Queue(c)) \ {0}
\* The holds that can be found: by token, by deadline or through a request.
Findable  == {h \in Ids(holds) : TokenIssued(h)} \cup OverdueHolds
               \cup {HoldOf(r) : r \in Ids(requests)}

Names(w) ==
  \/ Naming(call'[w]) \subseteq Naming(call[w]) \cup Findable
  \/ call'[w].at = "admin_cancel_write_hold" /\ call'[w].hold \in Ids(holds)
  \/ CreateInsertHold(w)

LEMMA NamesNoMore ==
  ASSUME NEW w, call'[w].hold \in {0, call[w].hold},
         call'[w].at \in Sweeping =>
           call[w].at \in Sweeping /\ call'[w].todo \subseteq call[w].todo
  PROVE  Names(w)
BY DEF Names, Naming, Queue

LEMMA NamesFound ==
  ASSUME NEW w, call'[w].hold \in Findable, call'[w].at \notin Sweeping
  PROVE  Names(w)
BY DEF Names, Naming, Queue

\* The steps that end the invocation, or hand on its record.
LEMMA NamesWhenEnding ==
  ASSUME NEW w, Ends(w)
  PROVE  Names(w)
BY NamesNoMore DEF Ends, Idle, Sweeping

LEMMA NamesWhenMoving ==
  ASSUME NEW w, NEW step, step \in Sweeping => call[w].at \in Sweeping, Ends(w) \/ Moves(w, step)
  PROVE  Names(w)
<1>1. CASE Moves(w, step)
  BY <1>1, NamesNoMore DEF Moves, Kept
<1> QED
  BY <1>1, NamesWhenEnding

LEMMA HoldHandlerNames ==
  ASSUME Inv, NEW w \in Workers, HoldBegins(w) \/ HoldSteps(w)
  PROVE  Names(w)
<1>0. call \in [Workers -> CallRecord]
  BY DEF Inv, CallsOK
<1>1. ASSUME NEW s, NEW mode, CreateCheckBookings(w, s, mode) PROVE Names(w)
  <2>1. call'[w].at = "create_check_blocks" /\ call'[w].hold = 0
    BY <1>0, <1>1 DEF CreateCheckBookings, Begin, Idle
  <2> QED
    BY <2>1, NamesNoMore DEF Sweeping
<1>2. ASSUME NEW h \in Ids(holds), CancelRead(w, h) PROVE Names(w)
  BY <1>0, <1>2, HoldMoves, NamesFound DEF CancelRead, Findable, Sweeping
<1>3. ASSUME NEW h \in Ids(holds), AdminCancelRead(w, h) PROVE Names(w)
  BY <1>0, <1>3, HoldMoves DEF Names
<1>4. CASE CreateInsertHold(w)
  BY <1>4 DEF Names
<1>5. CASE CreateCheckBlocks(w) \/ CreateInsertBlock(w) \/ CreateInsertRequest(w)
  <2>1. \E step \in {"create_insert_hold", "create_insert_request"} : Ends(w) \/ Moves(w, step)
    BY <1>0, <1>5, HoldMoves, Moving DEF CreateInsertRequest
  <2> QED
    BY <2>1, NamesWhenMoving DEF Sweeping
<1>6. CASE CancelWriteHold(w) \/ AdminCancelWriteHold(w) \/ AdminCancelSyncRead(w)
  <2>1. \E step \in {"cancel_release", "admin_cancel_release", "admin_cancel_sync_activate",
                     "admin_cancel_sync_release"} : Moves(w, step)
    BY <1>0, <1>6, Moving DEF CancelWriteHold, AdminCancelWriteHold, AdminCancelSyncRead
  <2> QED
    BY <2>1, NamesWhenMoving DEF Sweeping
<1>7. CASE CancelRelease(w) \/ AdminCancelRelease(w) \/ AdminCancelSyncWrite(w)
  <2>1. Ends(w) \/ Moves(w, "admin_cancel_sync_read")
    BY <1>0, <1>7, Moving DEF CancelRelease, AdminCancelRelease, AdminCancelSyncWrite
  <2> QED
    BY <2>1, NamesWhenMoving DEF Sweeping
<1> QED
  BY <1>1, <1>2, <1>3, <1>4, <1>5, <1>6, <1>7 DEF HoldBegins, HoldSteps

LEMMA RequestHandlerNames ==
  ASSUME Inv, NEW w \in Workers, RequestBegins(w) \/ RequestSteps(w)
  PROVE  Names(w)
<1>0. call \in [Workers -> CallRecord]
  BY DEF Inv, CallsOK
<1>1. ASSUME NEW h \in Ids(holds), SubmitRead(w, h) PROVE Names(w)
  BY <1>0, <1>1, RequestMoves, NamesFound DEF SubmitRead, Findable, Sweeping
<1>2. ASSUME NEW r \in Ids(requests), RejectWriteRequest(w, r) PROVE Names(w)
  BY <1>0, <1>2, RequestMoves, NamesFound DEF Findable, Sweeping
<1>3. ASSUME NEW r, NEW mode, ConvertRead(w, r, mode) PROVE Names(w)
  <2>1. call'[w].at = "convert_read_hold" /\ call'[w].hold = 0
    BY <1>0, <1>3 DEF ConvertRead, Begin, Idle
  <2> QED
    BY <2>1, NamesNoMore DEF Sweeping
<1>4. CASE SubmitInsertRequest(w)
  <2>1. call'[w].at = "ensure_read" /\ call'[w].hold = call[w].hold
    BY <1>0, <1>4 DEF SubmitInsertRequest, Continue, CallRecord
  <2> QED
    BY <2>1, NamesNoMore DEF Sweeping
<1>5. CASE ConvertReadHold(w)
  <2>1. CASE Ends(w)
    BY <2>1, NamesWhenMoving DEF Sweeping
  <2>2. CASE call'[w].at = "convert_read_deposit" /\ call'[w].hold = HoldOf(call[w].request)
    <3>1. call[w].request \in Ids(requests)
      BY <1>5 DEF ConvertReadHold, At, Inv, CallsOK, KnowsNow, Knows, Converting, Ids
    <3> QED
      BY <2>2, <3>1, NamesFound DEF Findable, Sweeping
  <2> QED
    BY <1>0, <1>5, <2>1, <2>2, RequestMoves
<1>6. CASE ConvertReadDeposit(w) \/ ConvertPickCode(w) \/ ConvertMarkRequest(w)
           \/ ConvertMarkHold(w)
           \/ SubmitLapseHold(w) \/ RejectWriteHold(w)
  <2>1. \E step \in {"convert_pick_code", "convert_insert_booking", "convert_mark_hold",
                     "convert_release", "submit_lapse_release", "reject_release"} :
          Ends(w) \/ Moves(w, step)
    BY <1>0, <1>6, Moving, RequestMoves
    DEF ConvertMarkRequest, ConvertMarkHold, SubmitLapseHold, RejectWriteHold
  <2> QED
    BY <2>1, NamesWhenMoving DEF Sweeping
<1>7. CASE ConvertInsertBooking(w)
  <2>1. Ends(w) \/ (call'[w].at = "convert_mark_request" /\ call'[w].hold = call[w].hold)
    BY <1>0, <1>7, RequestMoves DEF KeptOn
  <2> QED
    BY <2>1, NamesNoMore, NamesWhenEnding DEF Sweeping
<1>8. CASE SubmitLapseRelease(w) \/ RejectRelease(w) \/ ConvertRelease(w) \/ ConvertSyncBlock(w)
  <2>1. Ends(w) \/ Moves(w, "convert_sync_block")
    BY <1>0, <1>8, Moving DEF SubmitLapseRelease, RejectRelease, ConvertRelease, ConvertSyncBlock
  <2> QED
    BY <2>1, NamesWhenMoving DEF Sweeping
<1> QED
  BY <1>1, <1>2, <1>3, <1>4, <1>5, <1>6, <1>7, <1>8 DEF RequestBegins, RequestSteps

LEMMA DepositHandlerNames ==
  ASSUME Inv, NEW w \in Workers, DepositBegins(w) \/ DepositSteps(w)
  PROVE  Names(w)
<1>0. call \in [Workers -> CallRecord]
  BY DEF Inv, CallsOK
<1>1. ASSUME NEW r, RecreateReadRequest(w, r) PROVE Names(w)
  <2>1. call'[w].at = "recreate_read_deposit" /\ call'[w].hold = 0
    BY <1>0, <1>1 DEF RecreateReadRequest, Begin, Idle
  <2> QED
    BY <2>1, NamesNoMore DEF Sweeping
<1>2. ASSUME NEW d, NEW endpoint, NEW step, step \notin Sweeping, Decide(w, d, endpoint, step)
      PROVE  Names(w)
  <2>1. call'[w].at = step /\ call'[w].hold = 0
    BY <1>0, <1>2 DEF Decide, Begin, Idle
  <2> QED
    BY <1>2, <2>1, NamesNoMore
<1>3. CASE DepositBegins(w)
  BY <1>1, <1>2, <1>3
  DEF DepositBegins, MarkPaidRead, MarkFailedRead, CancelDepositRead, RefundRead, Sweeping
<1>4. CASE EnsureRead(w)
  BY <1>0, <1>4, DepositMoves, NamesWhenMoving DEF Sweeping
<1>5. CASE EnsureInsert(w)
  <2> DEFINE n == Len(deposits) + 1
  <2>1. Continue(w, [call[w] EXCEPT !.at = "ensure_session", !.deposit = n])
    BY <1>5 DEF EnsureInsert
  <2> HIDE DEF n
  <2>2. call'[w].at = "ensure_session" /\ call'[w].hold = call[w].hold
    BY <1>0, <2>1 DEF Continue, CallRecord
  <2> QED
    BY <2>2, NamesNoMore DEF Sweeping
<1>6. CASE RecreateReadDeposit(w)
  <2> DEFINE d == LatestDeposit(call[w].request)
  <2>1. \/ Continue(w, [call[w] EXCEPT !.at = "recreate_cancel", !.deposit = d])
        \/ Goto(w, "ensure_read")
    BY <1>6, Zenon DEF RecreateReadDeposit
  <2> HIDE DEF d
  <2>2. CASE Continue(w, [call[w] EXCEPT !.at = "recreate_cancel", !.deposit = d])
    <3>1. call'[w].at = "recreate_cancel" /\ call'[w].hold = call[w].hold
      BY <1>0, <2>2 DEF Continue, CallRecord
    <3> QED
      BY <3>1, NamesNoMore DEF Sweeping
  <2>3. CASE Goto(w, "ensure_read")
    BY <1>0, <2>3, Moving, NamesWhenMoving DEF Sweeping
  <2> QED
    BY <2>1, <2>2, <2>3
<1>7. ASSUME ~EnsureRead(w), ~EnsureInsert(w), ~RecreateReadDeposit(w), DepositSteps(w)
      PROVE  Names(w)
  <2>1. Return(w) \/ Goto(w, "ensure_read")
    BY <1>7 DEF DepositSteps, EnsureStoreSession, EnsureSessionFailed, RecreateCancel,
                MarkPaidWrite, MarkFailedWrite, CancelDepositWrite, RefundWrite
  <2> QED
    BY <1>0, <2>1, Moving, NamesWhenMoving DEF Sweeping
<1> QED
  BY <1>3, <1>4, <1>5, <1>6, <1>7

LEMMA ExpiryHandlerNames ==
  ASSUME Inv, NEW w \in Workers, ExpiryBegins(w) \/ ExpirySteps(w)
  PROVE  Names(w)
<1>0. call \in [Workers -> CallRecord]
  BY DEF Inv, CallsOK
<1> USE DEF Sweeping
<1>0a. ASSUME NextHold(w), call[w].at \in Sweeping PROVE Names(w)
  <2>1. Ends(w) \/ (call'[w].hold = 0 /\ call'[w].todo = call[w].todo)
    BY <1>0, <1>0a, Moving DEF NextHold, Continue, Idle
  <2> QED
    BY <1>0a, <2>1, NamesNoMore, NamesWhenEnding
<1>0b. ASSUME NextDeposit(w) PROVE Names(w)
  <2>1. Ends(w) \/ (call'[w].hold = 0 /\ call'[w].at = "expire_next")
    BY <1>0, <1>0b, Moving DEF NextDeposit, Continue, Idle
  <2> QED
    BY <2>1, NamesNoMore, NamesWhenEnding
<1>1. CASE SweepBegin(w)
  <2>1. call'[w].hold = 0 /\ call'[w].todo = SweepCandidates
    BY <1>0, <1>1 DEF SweepBegin, Begin, Idle
  <2> QED
    BY <2>1 DEF Names, Naming, Queue, Findable, SweepCandidates
<1>2. CASE DepositSweepBegin(w)
  <2>1. call'[w].hold = 0 /\ call'[w].at = "expire_next"
    BY <1>0, <1>2 DEF DepositSweepBegin, Begin, Idle
  <2> QED
    BY <2>1, NamesNoMore
<1>3. CASE SweepExpireHold(w)
  <2>1. PICK h \in call[w].todo :
          call'[w].at = "sweep_release" /\ call'[w].hold = h /\ call'[w].todo = call[w].todo \ {h}
    BY <1>0, <1>3, ExpiryMoves
  <2>2. call[w].at = "sweep_next"
    BY <1>3 DEF SweepExpireHold, At
  <2> QED
    BY <2>1, <2>2 DEF Names, Naming, Queue
<1>4. CASE SweepRelease(w)
  BY <1>0, <1>4, Moving, NamesWhenMoving DEF SweepRelease, At
<1>5. CASE SweepReadLinked(w)
  <2> DEFINE linked == RequestsAt(call[w].hold, {"submitted", "under_review"})
  <2>1. /\ call[w].at = "sweep_read_linked"
        /\ NextHold(w) \/ Continue(w, [call[w] EXCEPT !.at = "sweep_expire_request",
                                                      !.linked = linked])
    BY <1>5 DEF SweepReadLinked, At
  <2> HIDE DEF linked
  <2>2. CASE Continue(w, [call[w] EXCEPT !.at = "sweep_expire_request", !.linked = linked])
    <3>1. call'[w].hold = call[w].hold /\ call'[w].todo = call[w].todo
      BY <1>0, <2>2 DEF Continue, CallRecord
    <3> QED
      BY <2>1, <3>1, NamesNoMore
  <2> QED
    BY <1>0a, <2>1, <2>2
<1>6. CASE SweepExpireRequest(w)
  <2>1. PICK r : NextHold(w) \/ Continue(w, [call[w] EXCEPT !.linked = @ \ {r}])
    BY <1>6 DEF SweepExpireRequest
  <2>2. call[w].at = "sweep_expire_request"
    BY <1>6 DEF SweepExpireRequest, At
  <2>3. CASE Continue(w, [call[w] EXCEPT !.linked = @ \ {r}])
    <3>1. call'[w].hold = call[w].hold /\ call'[w].todo = call[w].todo
      BY <1>0, <2>3 DEF Continue, CallRecord
    <3> QED
      BY <2>2, <3>1, NamesNoMore
  <2> QED
    BY <1>0a, <2>1, <2>2, <2>3
<1>7. CASE ExpireRead(w)
  <2>1. PICK d \in call[w].todo :
          \/ Continue(w, [call[w] EXCEPT !.at = "expire_write", !.deposit = d,
                                         !.todo = call[w].todo \ {d}])
          \/ Return(w)
          \/ Continue(w, [call[w] EXCEPT !.todo = call[w].todo \ {d}])
    BY <1>7 DEF ExpireRead
  <2>2. call[w].at = "expire_next"
    BY <1>7 DEF ExpireRead, At
  <2>3. Ends(w) \/ (call'[w].hold = call[w].hold /\ call'[w].at \in {"expire_write", "expire_next"})
    BY <1>0, <2>1, <2>2, Moving DEF Continue, CallRecord
  <2> QED
    BY <2>3, NamesNoMore, NamesWhenEnding
<1>8. CASE ExpireWrite(w)
  <2> DEFINE r == deposits[call[w].deposit].request
             h == HoldOf(r)
  <2>1. r \in Ids(requests)
    BY <1>8 DEF ExpireWrite, At, Inv, CallsOK, KnowsNow, Knows, TablesOK, References, Ids
  <2>2. h \in Findable
    BY <2>1 DEF Findable
  <2>3. Continue(w, [call[w] EXCEPT !.at = "expire_read_request", !.request = r, !.hold = h])
    BY <1>8 DEF ExpireWrite
  <2> HIDE DEF r, h
  <2>4. call'[w].at = "expire_read_request" /\ call'[w].hold = h
    BY <1>0, <2>3 DEF Continue, CallRecord
  <2> QED
    BY <2>2, <2>4, NamesFound
<1>9. CASE ExpireReadRequest(w) \/ ExpireWriteRequest(w) \/ ExpireWriteHold(w)
  <2>1. \E step \in {"expire_read_hold", "expire_write_request", "expire_release"} : Goto(w, step)
    BY <1>9 DEF ExpireReadRequest, ExpireWriteRequest, ExpireWriteHold
  <2> QED
    BY <1>0, <2>1, Moving, NamesWhenMoving
<1>10. CASE ExpireReadHold(w)
  <2>1. Goto(w, "expire_write_hold") \/ NextDeposit(w)
    BY <1>10, Zenon DEF ExpireReadHold
  <2> QED
    BY <1>0, <1>0b, <2>1, Moving, NamesWhenMoving
<1>11. CASE ExpireRelease(w)
  <2> DEFINE c == IF call[w].todo = {} THEN Idle
                  ELSE [Idle EXCEPT !.at = "expire_next", !.todo = call[w].todo]
  <2>1. c.at \in {"idle", "expire_next"} /\ c.hold = 0
    BY DEF Idle
  <2>2. Return(w) \/ Continue(w, c)
    BY <1>11 DEF ExpireRelease, ReleaseThen
  <2> HIDE DEF c
  <2>3. CASE Continue(w, c)
    BY <1>0, <2>1, <2>3, NamesNoMore DEF Continue
  <2> QED
    BY <1>0, <2>2, <2>3, Moving, NamesWhenMoving
<1> QED
  BY <1>1, <1>2, <1>3, <1>4, <1>5, <1>6, <1>7, <1>8, <1>9, <1>10, <1>11
  DEF ExpiryBegins, ExpirySteps

LEMMA NamingHolds ==
  ASSUME Inv, NEW w \in Workers, Begins(w) \/ Steps(w)
  PROVE  Names(w)
BY HoldHandlerNames, RequestHandlerNames, DepositHandlerNames, ExpiryHandlerNames
DEF Begins, Steps

------------------------------------------------------------------------------
(* What a statement does to the statuses *)

\* Holds keep their dates, and none becomes live.
HoldsOnlyEnd ==
  /\ Ids(holds)' = Ids(holds)
  /\ \A h \in Ids(holds) : holds'[h].stay = holds[h].stay /\ (Live(h)' => Live(h))

LEMMA MarkedConverted ==
  ASSUME Inv, NEW w \in Workers, ConvertMarkHold(w)
  PROVE  /\ call[w].hold \in Ids(holds) /\ Ids(holds)' = Ids(holds)
         /\ \A h \in Ids(holds) : h # call[w].hold => holds'[h] = holds[h]
         /\ holds'[call[w].hold].stay = holds[call[w].hold].stay
         /\ holds'[call[w].hold].status = "converted"
         /\ call[w].at = "convert_mark_hold" /\ call'[w].at = "convert_release"
         /\ call'[w].hold = call[w].hold /\ call'[w].booking = call[w].booking
         /\ UNCHANGED <<holdBlock, requests, bookings, bookingBlock>>
<1> DEFINE i == call[w].hold
           e == [holds[i] EXCEPT !.status = "converted", !.booking = call[w].booking]
<1>1. i \in Ids(holds) /\ call[w].at = "convert_mark_hold"
  BY ConvertingHold DEF ConvertMarkHold, At, HoldRead, Marking
<1>2. /\ holds' = [holds EXCEPT ![i] = e] /\ Goto(w, "convert_release")
      /\ UNCHANGED <<holdBlock, requests, bookings, bookingBlock>>
  BY <1>1 DEF ConvertMarkHold, Ids, OnlyHolds
<1>3. e.status = "converted" /\ e.stay = holds[i].stay
  BY <1>1, Domains DEF HoldRow, Inv, TablesOK
<1> HIDE DEF e
<1>4. Moves(w, "convert_release")
  BY <1>2, Moving DEF Inv, CallsOK
<1> QED
  BY <1>1, <1>2, <1>3, <1>4 DEF Ids, Moves, Kept

LEMMA HoldsEnding ==
  ASSUME Inv, NEW w \in Workers, UNCHANGED holds \/ Drops(w) \/ ConvertMarkHold(w)
  PROVE  HoldsOnlyEnd
<1>1. CASE UNCHANGED holds
  BY <1>1 DEF HoldsOnlyEnd, Ids, Live
<1>2. CASE Drops(w)
  BY <1>2, HoldStatusWritten DEF Inv, Drops, HoldStatus, HoldsOnlyEnd, Live
<1>3. CASE ConvertMarkHold(w)
  BY <1>3, MarkedConverted DEF HoldsOnlyEnd, Live
<1> QED
  BY <1>1, <1>2, <1>3

\* The row that handleCreateHold inserts.
LEMMA HoldPlaced ==
  ASSUME Inv, NEW w \in Workers, CreateInsertHold(w)
  PROVE  \E n :
         /\ n \notin Ids(holds) /\ Ids(holds)' = Ids(holds) \cup {n}
         /\ \A h \in Ids(holds) : holds'[h] = holds[h] /\ holdBlock'[h] = holdBlock[h]
         /\ holds'[n].stay = call[w].stay /\ holds'[n].status = "active" /\ ~holds'[n].late
         /\ holdBlock'[n] = "absent"
         /\ call[w].stay \in Stays
         /\ call'[w].at = "create_insert_block" /\ call'[w].hold = n
         /\ call'[w].stay = call[w].stay
         /\ UNCHANGED <<requests, bookings, bookingBlock>>
<1> DEFINE row == [stay |-> call[w].stay, status |-> "active", late |-> FALSE, booking |-> 0]
<1>0. PICK n : n = Len(holds) + 1
  OBVIOUS
<1>1. /\ holds \in Seq(HoldRow) /\ holdBlock \in Seq(BlockState) /\ Len(holdBlock) = Len(holds)
      /\ call \in [Workers -> CallRecord]
  BY DEF Inv, TablesOK, Typed, CallsOK
<1>2. /\ holds' = Append(holds, row) /\ holdBlock' = Append(holdBlock, "absent")
      /\ UNCHANGED <<requests, bookings, bookingBlock>>
  BY DEF CreateInsertHold
<1>3. row.stay = call[w].stay /\ row.status = "active" /\ ~row.late
  OBVIOUS
<1> HIDE DEF row
<1>4. /\ n \notin Ids(holds) /\ Ids(holds)' = Ids(holds) \cup {n}
      /\ \A h \in Ids(holds) : holds'[h] = holds[h]
      /\ holds'[n] = row
  BY <1>0, <1>1, <1>2, LenProperties DEF Ids
<1>5. /\ \A h \in Ids(holds) : holdBlock'[h] = holdBlock[h]
      /\ holdBlock'[n] = "absent"
  BY <1>0, <1>1, <1>2, LenProperties DEF Ids
<1>6. call[w].stay \in Stays
  BY DEF CreateInsertHold, At, Inv, CallsOK, KnowsNow, Knows, OnStay
<1>7. /\ call'[w].at = "create_insert_block" /\ call'[w].hold = n
      /\ call'[w].stay = call[w].stay
  BY <1>0, <1>1, HoldMoves
<1> QED
  BY <1>2, <1>3, <1>4, <1>5, <1>6, <1>7

\* A statement keeps the status of a hold, ends it, or marks it converted.
HoldAfter(w, h) ==
  /\ h \in Ids(holds)' /\ holds'[h].stay = holds[h].stay
  /\ \/ holds'[h].status = holds[h].status
     \/ /\ Drops(w) /\ h = call'[w].hold
        /\ holds'[h].status \in {"expired", "cancelled", "rejected"}
        /\ holds'[h].status = "expired" => h \in HoldsToExpire(call[w])
     \/ ConvertMarkHold(w) /\ h = call[w].hold /\ holds'[h].status = "converted"

RequestAfter(w, r) ==
  /\ r \in Ids(requests)' /\ requests'[r].hold = requests[r].hold
  /\ \/ requests'[r].status = requests[r].status
     \/ requests'[r].status = "rejected"
     \/ requests'[r].status = "expired" /\ r \in RequestsToExpire(call[w])
     \/ At(w, "convert_mark_request") /\ r = call[w].request /\ requests'[r].status = "converted"

LEMMA HoldsAfter ==
  ASSUME Inv, NEW w \in Workers, CalendarWork(w), NEW h \in Ids(holds)
  PROVE  HoldAfter(w, h)
<1>1. CASE UNCHANGED holds
  BY <1>1 DEF HoldAfter, Ids
<1>2. CASE Drops(w)
  <2>1. PICK s \in {"expired", "cancelled", "rejected"} :
          /\ SetHoldStatus(call'[w].hold, s)
          /\ s = "expired" => call'[w].hold \in HoldsToExpire(call[w])
    BY <1>2 DEF Drops
  <2> QED
    BY <1>2, <2>1, HoldStatusWritten DEF Inv, HoldStatus, HoldAfter, Dead
<1>3. CASE ConvertMarkHold(w)
  BY <1>3, MarkedConverted DEF HoldAfter
<1>4. CASE CreateInsertHold(w)
  BY <1>4, HoldPlaced DEF HoldAfter
<1> QED
  BY <1>1, <1>2, <1>3, <1>4 DEF CalendarWork, Passes, Frees, Reactivates, Issues,
     CreateInsertBlock, ConvertSyncBlock, OnlyHoldBlock

LEMMA WorkOnRequests ==
  ASSUME NEW w \in Workers, CalendarWork(w)
  PROVE  UNCHANGED requests \/ RequestWork(w)
BY DEF CalendarWork, Passes, Drops, Frees, Reactivates, Issues, CreateInsertHold,
       CreateInsertBlock, ConvertMarkHold, ConvertSyncBlock, OnlyHolds, OnlyHoldBlock

LEMMA RequestsAfter ==
  ASSUME Inv, NEW w \in Workers, UNCHANGED requests \/ RequestWork(w), NEW r \in Ids(requests)
  PROVE  RequestAfter(w, r)
<1>0. TablesOK /\ requests \in Seq(RequestRow)
  BY DEF Inv, TablesOK, Typed
<1>1. CASE UNCHANGED requests
  BY <1>1 DEF RequestAfter, Ids
<1>2. ASSUME NEW i, NEW s \in {"expired", "rejected"}, SetRequestStatus(i, s),
             s = "expired" => i \in RequestsToExpire(call[w])
      PROVE  RequestAfter(w, r)
  BY <1>0, <1>2, RequestStatusWritten DEF RequestStatus, RequestAfter
<1>3. ASSUME InsertRequest(call[w].hold) PROVE RequestAfter(w, r)
  <2> DEFINE row == [hold |-> call[w].hold, status |-> "submitted", booking |-> 0]
  <2>1. requests' = Append(requests, row)
    BY <1>3 DEF InsertRequest
  <2> HIDE DEF row
  <2> QED
    BY <1>0, <2>1, LenProperties DEF RequestAfter, Ids
<1>4. CASE ConvertMarkRequest(w)
  <2> DEFINE i == call[w].request
             e == [requests[i] EXCEPT !.status = "converted", !.booking = call[w].booking]
  <2>1. i \in Ids(requests) /\ At(w, "convert_mark_request")
    BY <1>4, ConvertingHold DEF ConvertMarkRequest, At, HoldRead, Marking
  <2>2. requests' = [requests EXCEPT ![i] = e]
    BY <1>4, <2>1 DEF ConvertMarkRequest, Ids
  <2>3. e.hold = requests[i].hold /\ e.status = "converted"
    BY <1>0, <2>1, Domains DEF RequestRow, TablesOK
  <2> HIDE DEF e, i
  <2>4. r # i => requests'[r] = requests[r]
    BY <2>2 DEF Ids
  <2>5. r = i => requests'[r] = e
    BY <2>2 DEF Ids
  <2>6. Ids(requests)' = Ids(requests)
    BY <2>2 DEF Ids
  <2> QED
    BY <2>1, <2>3, <2>4, <2>5, <2>6 DEF RequestAfter, i
<1> QED
  BY <1>1, <1>2, <1>3, <1>4 DEF RequestWork

LEMMA NewRequests ==
  ASSUME Inv, NEW w \in Workers, UNCHANGED requests \/ RequestWork(w)
  PROVE  \A r \in Ids(requests)' \ Ids(requests) :
           requests'[r].status = "submitted" /\ requests'[r].hold = call[w].hold
<1>0. TablesOK /\ requests \in Seq(RequestRow)
  BY DEF Inv, TablesOK, Typed
<1>1. CASE UNCHANGED requests
  BY <1>1 DEF Ids
<1>2. ASSUME NEW i, NEW s \in {"expired", "rejected"}, SetRequestStatus(i, s)
      PROVE  Ids(requests)' = Ids(requests)
  BY <1>0, <1>2, RequestStatusWritten DEF RequestStatus
<1>3. ASSUME InsertRequest(call[w].hold)
      PROVE  \A r \in Ids(requests)' \ Ids(requests) :
               requests'[r].status = "submitted" /\ requests'[r].hold = call[w].hold
  <2> DEFINE row == [hold |-> call[w].hold, status |-> "submitted", booking |-> 0]
  <2>1. requests' = Append(requests, row) /\ row.status = "submitted" /\ row.hold = call[w].hold
    BY <1>3 DEF InsertRequest
  <2> HIDE DEF row
  <2> QED
    BY <1>0, <2>1, LenProperties DEF Ids
<1>4. CASE ConvertMarkRequest(w)
  BY <1>4 DEF ConvertMarkRequest, Ids
<1> QED
  BY <1>1, <1>2, <1>3, <1>4 DEF RequestWork

\* A hold whose deadline passes stays as it is.
LEMMA DeadlineHolds ==
  ASSUME Inv, NEW h \in Ids(holds), HoldDeadlinePasses(h)
  PROVE  /\ Ids(holds)' = Ids(holds)
         /\ \A g \in Ids(holds) : /\ holds'[g].status = holds[g].status
                                  /\ holds'[g].stay = holds[g].stay
                                  /\ g # h => holds'[g].late = holds[g].late
<1> DEFINE e == [holds[h] EXCEPT !.late = TRUE]
<1>1. holds' = [holds EXCEPT ![h] = e]
  BY DEF HoldDeadlinePasses
<1>2. e.status = holds[h].status /\ e.stay = holds[h].stay
  BY Domains DEF Inv, TablesOK, HoldRow
<1> HIDE DEF e
<1> QED
  BY <1>1, <1>2 DEF Ids

\* The steps that are not one of a handler leave dates, blocks and the statuses
\* of holds alone, and end invocations if anything.
Outside == Reviews \/ Clock \/ UNCHANGED vars \/ \E w \in Workers : Crash(w)

LEMMA OutsideWork ==
  ASSUME Inv, Outside
  PROVE  /\ HoldsOnlyEnd /\ RequestsKeepHolds /\ UNCHANGED <<holdBlock, bookings, bookingBlock>>
         /\ Ids(requests)' = Ids(requests)
         /\ \A h \in Ids(holds) :
              /\ holds'[h].status = holds[h].status
              /\ holds'[h].late = holds[h].late \/ HoldDeadlinePasses(h)
         /\ \A r \in Ids(requests) :
              requests'[r].status \in {requests[r].status, "under_review", "approved"}
         /\ \A v \in Workers : call'[v] = call[v] \/ call'[v] = Idle
<1>0. TablesOK /\ call \in [Workers -> CallRecord]
  BY DEF Inv, CallsOK
<1> DEFINE Alike == /\ Ids(requests)' = Ids(requests)
                    /\ \A r \in Ids(requests) :
                         requests'[r].status \in {requests[r].status, "under_review", "approved"}
<1>1. CASE Reviews
  <2>1. UNCHANGED <<holds, holdBlock, bookings, bookingBlock, call>>
    BY <1>1 DEF Reviews, MarkUnderReview, Approve, OnlyRequests
  <2>2. PICK s \in {"under_review", "approved"} : \E r : SetRequestStatus(r, s)
    BY <1>1 DEF Reviews, MarkUnderReview, Approve
  <2>3. Alike /\ RequestsKeepHolds
    BY <1>0, <2>2, RequestStatusWritten DEF RequestStatus, RequestsKeepHolds
  <2> QED
    BY <2>1, <2>3 DEF HoldsOnlyEnd, Live, Ids
<1>2. ASSUME NEW h \in Ids(holds), HoldDeadlinePasses(h)
      PROVE  /\ HoldsOnlyEnd /\ UNCHANGED <<requests, holdBlock, bookings, bookingBlock, call>>
             /\ \A g \in Ids(holds) :
                  /\ holds'[g].status = holds[g].status
                  /\ holds'[g].late = holds[g].late \/ HoldDeadlinePasses(g)
  BY <1>2, DeadlineHolds DEF HoldsOnlyEnd, Live, HoldDeadlinePasses
<1>3. UNCHANGED requests => Alike /\ RequestsKeepHolds
  BY DEF RequestsKeepHolds, Ids
<1>4. ASSUME UNCHANGED <<holds, holdBlock, requests, bookings, bookingBlock>>,
             UNCHANGED call \/ \E w \in Workers : Crash(w)
      PROVE  /\ HoldsOnlyEnd /\ UNCHANGED <<requests, holdBlock, bookings, bookingBlock>>
             /\ \A h \in Ids(holds) : /\ holds'[h].status = holds[h].status
                                      /\ holds'[h].late = holds[h].late
             /\ \A v \in Workers : call'[v] = call[v] \/ call'[v] = Idle
  BY <1>0, <1>4 DEF HoldsOnlyEnd, Live, Ids, Crash, Return
<1>5. ASSUME NEW d \in Ids(deposits), DepositDeadlinePasses(d)
      PROVE  UNCHANGED <<holds, holdBlock, requests, bookings, bookingBlock, call>>
  BY <1>5 DEF DepositDeadlinePasses, OnlyDeposits
<1>6. CASE UNCHANGED vars \/ \E w \in Workers : Crash(w)
  BY <1>3, <1>4, <1>6 DEF vars, tables, Crash
<1>7. CASE Clock
  BY <1>2, <1>3, <1>4, <1>5, <1>7 DEF Clock
<1> QED
  BY <1>1, <1>6, <1>7 DEF Outside

\* An invocation that does not die where it is goes on from there.
LEMMA NotKilled ==
  ASSUME Inv, Outside, NEW steps, NoneDiesAt(steps) \/ UNCHANGED vars,
         NEW v \in Workers, call[v].at \in steps
  PROVE  call'[v] = call[v]
<1>1. CASE UNCHANGED call
  BY <1>1
<1>2. ASSUME NEW w \in Workers, Crash(w), v # w PROVE call'[v] = call[v]
  BY <1>2 DEF Crash, Return, Inv, CallsOK
<1>3. ASSUME Crash(v) PROVE call'[v] = call[v]
  BY <1>3 DEF NoneDiesAt, vars
<1> QED
  BY <1>1, <1>2, <1>3 DEF Outside, Reviews, MarkUnderReview, Approve, Clock, HoldDeadlinePasses,
                          DepositDeadlinePasses, vars

\* Every step is a statement of one handler or comes from outside.
LEMMA StepKinds ==
  ASSUME [Next]_vars
  PROVE  Outside \/ \E w \in Workers : Begins(w) \/ Steps(w)
BY DEF Next, Outside

\* One statement, as the invariants below use it.
LEMMA OneStatement ==
  ASSUME Inv, NEW w \in Workers, Begins(w) \/ Steps(w)
  PROVE  /\ CalendarWork(w) /\ Acts(w) /\ Arrives(w) /\ Names(w)
         /\ \A h \in Ids(holds) : HoldAfter(w, h)
         /\ \A r \in Ids(requests) : RequestAfter(w, r)
         /\ \A h \in Ids(holds)' \ Ids(holds) : CreateInsertHold(w) /\ Live(h)' /\ h = call'[w].hold
         /\ \A r \in Ids(requests)' \ Ids(requests) :
              requests'[r].status = "submitted" /\ requests'[r].hold = call[w].hold
         /\ RequestsKeepHolds
         /\ UNCHANGED bookings \/ Issues(w)
<1>1. CalendarWork(w) /\ Acts(w) /\ Arrives(w) /\ Names(w)
  BY WorkOnCalendar, Acting, Arriving, NamingHolds DEF Inv, CallsOK
<1>2. ASSUME ~CreateInsertHold(w) PROVE UNCHANGED holds \/ Drops(w) \/ ConvertMarkHold(w)
  BY <1>1, <1>2 DEF CalendarWork, Passes, Frees, Reactivates, Issues, CreateInsertBlock,
                    ConvertSyncBlock, OnlyHoldBlock
<1>3. \A h \in Ids(holds)' \ Ids(holds) : CreateInsertHold(w) /\ Live(h)' /\ h = call'[w].hold
  <2>1. \A h \in Ids(holds)' \ Ids(holds) : CreateInsertHold(w)
    BY <1>2, HoldsEnding DEF HoldsOnlyEnd
  <2> QED
    BY <2>1, HoldPlaced DEF Live
<1>4. UNCHANGED requests \/ RequestWork(w)
  BY <1>1, WorkOnRequests
<1>5. UNCHANGED bookings \/ Issues(w)
  BY <1>1 DEF CalendarWork, Passes, Drops, Frees, Reactivates, CreateInsertHold,
              CreateInsertBlock, ConvertMarkHold, ConvertSyncBlock, OnlyHolds, OnlyHoldBlock
<1> QED
  BY <1>1, <1>3, <1>4, <1>5, HoldsAfter, RequestsAfter, NewRequests, HoldsOfRequestsKept

LEMMA BookingsKeepHolds ==
  ASSUME Inv, UNCHANGED bookings, RequestsKeepHolds
  PROVE  /\ Ids(bookings)' = Ids(bookings)
         /\ \A b \in Ids(bookings) : BookingHold(b)' = BookingHold(b)
BY DEF Inv, TablesOK, References, RequestsKeepHolds, BookingHold, HoldOf, Ids

\* The row that convertDirectBookingRequestToBookingAction inserts.
LEMMA BookingIssued ==
  ASSUME Inv, NEW w \in Workers, Issues(w)
  PROVE  \E n :
         /\ n \notin Ids(bookings) /\ Ids(bookings)' = Ids(bookings) \cup {n}
         /\ \A b \in Ids(bookings) : /\ bookings'[b] = bookings[b]
                                     /\ bookingBlock'[b] = bookingBlock[b]
                                     /\ BookingHold(b)' = BookingHold(b)
         /\ BookingHold(n)' = call[w].hold
         /\ call[w].hold \in Ids(holds) /\ bookings'[n].stay = holds[call[w].hold].stay
         /\ call'[w].at = "convert_mark_request" /\ call'[w].booking = n
<1>0. PICK n : n = Len(bookings) + 1
  OBVIOUS
<1>1. /\ bookings \in Seq(BookingRow) /\ bookingBlock \in Seq(BlockState)
      /\ Len(bookingBlock) = Len(bookings)
  BY DEF Inv, TablesOK, Typed
<1>2. PICK row : row.request = call[w].request /\ row.stay = call[w].stay
                 /\ bookings' = Append(bookings, row)
  BY DEF Issues
<1>3. bookingBlock' = Append(bookingBlock, "absent") /\ UNCHANGED requests
  BY DEF Issues
<1>4. /\ n \notin Ids(bookings) /\ Ids(bookings)' = Ids(bookings) \cup {n}
      /\ \A b \in Ids(bookings) : bookings'[b] = bookings[b]
      /\ bookings'[n] = row
  BY <1>0, <1>1, <1>2, LenProperties DEF Ids
<1>5. \A b \in Ids(bookings) : bookingBlock'[b] = bookingBlock[b]
  BY <1>0, <1>1, <1>3, LenProperties DEF Ids
<1>6. /\ call[w].hold = HoldOf(call[w].request) /\ call[w].hold \in Ids(holds)
      /\ call[w].stay = holds[call[w].hold].stay
  BY ConvertingHold DEF Issues, HoldRead, PastGate
<1>7. BookingHold(n)' = call[w].hold /\ bookings'[n].stay = holds[call[w].hold].stay
  BY <1>2, <1>3, <1>4, <1>6 DEF BookingHold, HoldOf
<1>8. \A b \in Ids(bookings) : BookingHold(b)' = BookingHold(b)
  BY <1>3, <1>4 DEF BookingHold, HoldOf
<1>9. call'[w].at = "convert_mark_request" /\ call'[w].booking = n
  BY <1>0 DEF Issues
<1> QED
  BY <1>4, <1>5, <1>6, <1>7, <1>8, <1>9

LEMMA StaysOnRecord ==
  ASSUME Inv
  PROVE  /\ \A h \in Ids(holds) : holds[h].stay \in Stays
         /\ \A b \in Ids(bookings) : bookings[b].stay \in Stays
BY Domains DEF Inv, TablesOK, HoldRow, BookingRow

LEMMA Overlapping ==
  ASSUME NEW s \in Stays, NEW t \in Stays
  PROVE  /\ Overlap(s, t) => Overlap(t, s) /\ Touches(s, t)
         /\ Overlap(s, t) = (t.out > s.in /\ t.in < s.out)
<1>1. /\ s.in \in Nat /\ s.out \in Nat
      /\ t.in \in Nat /\ t.out \in Nat
  BY StaysAssumption
<1> QED
  BY <1>1 DEF Overlap, Touches

------------------------------------------------------------------------------
(* Every hold that an invocation names exists *)

RefInv == \A w \in Workers : Naming(call[w]) \subseteq Ids(holds)

LEMMA RefNext == Inv /\ RefInv /\ [Next]_vars => RefInv'
<1> SUFFICES ASSUME Inv, RefInv, [Next]_vars PROVE RefInv'
  OBVIOUS
<1>1. CASE Outside
  <2>1. Naming(Idle) = {}
    BY DEF Naming, Queue, Idle, Sweeping
  <2>2. Ids(holds)' = Ids(holds) /\ \A v \in Workers : call'[v] = call[v] \/ call'[v] = Idle
    BY <1>1, OutsideWork DEF HoldsOnlyEnd
  <2>3. ASSUME NEW v \in Workers PROVE Naming(call'[v]) \subseteq Ids(holds)'
    BY <2>1, <2>2, <2>3 DEF RefInv
  <2> QED
    BY <2>3 DEF RefInv, Naming, Queue
<1>2. ASSUME NEW w \in Workers, Begins(w) \/ Steps(w) PROVE RefInv'
  <2>1. /\ Acts(w) /\ Names(w)
        /\ Ids(holds) \subseteq Ids(holds)'
    BY <1>2, OneStatement DEF HoldAfter
  <2>2. Findable \subseteq Ids(holds)
    BY DEF Inv, TablesOK, References, Findable, OverdueHolds
  <2>3. Naming(call'[w]) \subseteq Ids(holds)'
    <3>1. CASE Naming(call'[w]) \subseteq Naming(call[w]) \cup Findable
      BY <2>1, <2>2, <3>1 DEF RefInv
    <3>2. CASE call'[w].at = "admin_cancel_write_hold" /\ call'[w].hold \in Ids(holds)
      BY <2>1, <3>2 DEF Naming, Queue, Sweeping
    <3>3. CASE CreateInsertHold(w)
      <4>1. call'[w].at = "create_insert_block" /\ call'[w].hold \in Ids(holds)'
        BY <3>3, HoldPlaced
      <4> QED
        BY <4>1 DEF Naming, Queue, Sweeping
    <3> QED
      BY <2>1, <3>1, <3>2, <3>3 DEF Names
  <2>4. ASSUME NEW v \in Workers PROVE Naming(call'[v]) \subseteq Ids(holds)'
    <3>1. CASE v = w
      BY <2>3, <3>1
    <3>2. CASE v # w
      <4>1. call'[v] = call[v]
        BY <2>1, <3>2 DEF Acts, Others
      <4>2. Naming(call[v]) \subseteq Ids(holds)
        BY DEF RefInv
      <4> QED
        BY <2>1, <4>1, <4>2
    <3> QED
      BY <3>1, <3>2
  <2> QED
    BY <2>4 DEF RefInv, Naming, Queue
<1> QED
  BY <1>1, <1>2, StepKinds

LEMMA RefHolds == Spec => []RefInv
<1>1. Init => RefInv
  BY DEF Init, RefInv, Naming, Queue, Idle, Sweeping
<1> QED
  BY <1>1, RefNext, InvHolds, PTL DEF Spec

------------------------------------------------------------------------------
(* The sweeps and conversion *)

\* What a handler is about to expire was not converted since it read it.
NotConverted(c) ==
  /\ \A h \in HoldsToExpire(c) \cap Ids(holds) : holds[h].status # "converted"
  /\ \A r \in RequestsToExpire(c) \cap Ids(requests) : requests[r].status # "converted"
ExpiryInv == \A w \in Workers : NotConverted(call[w])

\* What a step may not do to a converted row.
ConvertedKept ==
  /\ \A h \in Ids(holds) : holds[h].status = "converted" => holds'[h].status # "expired"
  /\ \A r \in Ids(requests) : requests[r].status = "converted" => requests'[r].status # "expired"

LEMMA ExpiryOfOthers ==
  ASSUME Inv, MarksApart, NEW w \in Workers, Begins(w) \/ Steps(w),
         NEW v \in Workers, v # w, NotConverted(call[v])
  PROVE  NotConverted(call[v])'
<1> USE OneStatement
<1>1. call'[v] = call[v]
  BY DEF Acts, Others
<1>2. ASSUME NEW h \in HoldsToExpire(call[v]), h \in Ids(holds)'
      PROVE  holds'[h].status # "converted"
  <2>1. CASE h \in Ids(holds)
    <3>1. h \in HoldsToExpire(call[v]) /\ holds[h].status # "converted"
      BY <1>2, <2>1 DEF NotConverted
    <3>2. ~ConvertMarkHold(w) \/ h # call[w].hold
      BY <3>1 DEF MarksApart, ConvertMarkHold
    <3> QED
      BY <2>1, <3>1, <3>2 DEF HoldAfter, Dead
  <2>2. CASE h \notin Ids(holds)
    BY <1>2, <2>2 DEF Live
  <2> QED
    BY <2>1, <2>2
<1>3. ASSUME NEW r \in RequestsToExpire(call[v]), r \in Ids(requests)'
      PROVE  requests'[r].status # "converted"
  <2>1. CASE r \in Ids(requests)
    BY <1>3, <2>1 DEF RequestAfter, NotConverted, MarksApart
  <2>2. CASE r \notin Ids(requests)
    BY <1>3, <2>2
  <2> QED
    BY <2>1, <2>2
<1>4. HoldsToExpire(call'[v]) = HoldsToExpire(call[v])
      /\ RequestsToExpire(call'[v]) = RequestsToExpire(call[v])
  BY <1>1
<1> HIDE OneStatement
<1>5. \A h \in HoldsToExpire(call'[v]) \cap Ids(holds)' : holds'[h].status # "converted"
  BY <1>2, <1>4
<1>6. \A r \in RequestsToExpire(call'[v]) \cap Ids(requests)' : requests'[r].status # "converted"
  BY <1>3, <1>4
<1> QED
  BY <1>5, <1>6 DEF NotConverted, HoldsToExpire, RequestsToExpire

LEMMA MarkingRequestGoesOn ==
  ASSUME NEW w \in Workers, CalendarWork(w), At(w, "convert_mark_request")
  PROVE  call'[w].at = "convert_mark_hold"
BY DEF CalendarWork, Passes, Drops, Frees, Reactivates, Issues, CreateInsertHold,
       CreateInsertBlock, ConvertMarkHold, ConvertSyncBlock, At, Owing, Releasing, Issuing

LEMMA ExpiryOfOwn ==
  ASSUME Inv, NEW w \in Workers, Begins(w) \/ Steps(w), NotConverted(call[w])
  PROVE  NotConverted(call[w])'
<1>1. ASSUME NEW h \in HoldsToExpire(call'[w]), h \in Ids(holds)'
      PROVE  holds'[h].status # "converted"
  <2>1. CASE h \in Ids(holds)
    <3>1. ~ConvertMarkHold(w)
      BY <1>1, MarkedConverted DEF HoldsToExpire, Lapsing, Sweeping
    <3>2. holds[h].status # "converted"
      BY <1>1, <2>1, OneStatement DEF Arrives, NotConverted, Live
    <3> QED
      BY <2>1, <3>1, <3>2, OneStatement DEF HoldAfter, Dead
  <2>2. CASE h \notin Ids(holds)
    BY <1>1, <2>2, OneStatement DEF Live
  <2> QED
    BY <2>1, <2>2
<1>2. ASSUME NEW r \in RequestsToExpire(call'[w]), r \in Ids(requests)'
      PROVE  requests'[r].status # "converted"
  <2>1. CASE r \in Ids(requests)
    <3>1. ~At(w, "convert_mark_request")
      BY <1>2, OneStatement, MarkingRequestGoesOn DEF RequestsToExpire
    <3>2. requests[r].status # "converted"
      BY <1>2, <2>1, OneStatement DEF Arrives, NotConverted
    <3> QED
      BY <2>1, <3>1, <3>2, OneStatement DEF RequestAfter
  <2>2. CASE r \notin Ids(requests)
    BY <1>2, <2>2, OneStatement
  <2> QED
    BY <2>1, <2>2
<1> QED
  BY <1>1, <1>2 DEF NotConverted, HoldsToExpire, RequestsToExpire

LEMMA ExpiryNext ==
  ASSUME Inv, ExpiryInv, MarksApart, [Next]_vars
  PROVE  ExpiryInv' /\ ConvertedKept
<1>1. CASE Outside
  <2>1. /\ Ids(holds)' = Ids(holds) /\ Ids(requests)' = Ids(requests)
        /\ \A h \in Ids(holds) : holds'[h].status = holds[h].status
        /\ \A r \in Ids(requests) :
             requests'[r].status \in {requests[r].status, "under_review", "approved"}
        /\ \A v \in Workers : call'[v] = call[v] \/ call'[v] = Idle
    BY <1>1, OutsideWork DEF HoldsOnlyEnd
  <2>2. HoldsToExpire(Idle) = {} /\ RequestsToExpire(Idle) = {}
    BY DEF HoldsToExpire, RequestsToExpire, Idle, Lapsing, Sweeping
  <2>3. ASSUME NEW v \in Workers
        PROVE  /\ \A h \in HoldsToExpire(call'[v]) \cap Ids(holds)' : holds'[h].status # "converted"
               /\ \A r \in RequestsToExpire(call'[v]) \cap Ids(requests)' :
                    requests'[r].status # "converted"
    <3>1. CASE call'[v] = Idle
      BY <2>2, <3>1
    <3>2. CASE call'[v] = call[v]
      BY <2>1, <3>2 DEF ExpiryInv, NotConverted
    <3> QED
      BY <2>1, <3>1, <3>2
  <2> QED
    BY <2>1, <2>3 DEF ExpiryInv, NotConverted, HoldsToExpire, RequestsToExpire, ConvertedKept
<1>2. ASSUME NEW w \in Workers, Begins(w) \/ Steps(w) PROVE ExpiryInv' /\ ConvertedKept
  <2>1. ExpiryInv'
    BY <1>2, ExpiryOfOthers, ExpiryOfOwn DEF ExpiryInv
  <2>2. ConvertedKept
    BY <1>2, OneStatement DEF ConvertedKept, HoldAfter, RequestAfter, ExpiryInv, NotConverted
  <2> QED
    BY <2>1, <2>2
<1> QED
  BY <1>1, <1>2, StepKinds

\* No sweep, no lapsed submission and no expired deposit overwrites a converted
\* hold or request, if nothing is marked converted while it stands on the list
\* of another handler that is about to expire it (expiry.ts).
THEOREM ConvertedStays == Spec /\ []MarksApart => ConvertedNeverExpires
<1>1. Init => ExpiryInv
  BY DEF Init, ExpiryInv, NotConverted, Ids
<1>2. Inv /\ ExpiryInv /\ MarksApart /\ [Next]_vars
        => ExpiryInv' /\ [/\ \A h \in Ids(holds) : holds[h].status = "converted"
                                                     => holds'[h].status # "expired"
                          /\ \A r \in Ids(requests) : requests[r].status = "converted"
                                                     => requests'[r].status # "expired"]_vars
  BY ExpiryNext DEF ConvertedKept
<1> QED
  BY <1>1, <1>2, InvHolds, PTL DEF Spec, ConvertedNeverExpires

------------------------------------------------------------------------------
(* Conversion and abandoned holds *)

\* A conversion past the read of the hold is one of a hold that is not dead.
ConversionInv == \A w \in Workers : call[w].at \in HoldRead => ~Dead(call[w].hold)

\* What a step may not do to a dead hold.
DeadKept ==
  \A h \in Ids(holds) : Dead(h) =>
    /\ holds'[h].status \notin {"active", "converted"}
    /\ \A b \in Ids(bookings)' \ Ids(bookings) : BookingHold(b)' # h

LEMMA ConversionNext ==
  ASSUME Inv, ConversionInv, ConversionsApart, [Next]_vars
  PROVE  ConversionInv'
<1>0. Inv'
  BY InvNext
<1> USE DEF ConversionInv
<1>1. CASE Outside
  <2>1. /\ \A h \in Ids(holds) : holds'[h].status = holds[h].status
        /\ \A v \in Workers : call'[v] = call[v] \/ call'[v] = Idle
    BY <1>1, OutsideWork
  <2> QED
    BY <2>1, ConvertingHold DEF Dead, Idle, HoldRead, PastGate, Marking
<1>2. ASSUME NEW w \in Workers, Begins(w) \/ Steps(w) PROVE ConversionInv'
  <2>1. ASSUME NEW v \in Workers, v # w, call'[v].at \in HoldRead PROVE ~Dead(call[v].hold)'
    <3>1. call'[v] = call[v]
      BY <1>2, <2>1, OneStatement DEF Acts, Others
    <3>2. call[v].hold \in Ids(holds) /\ HoldAfter(w, call[v].hold)
      BY <1>2, <2>1, <3>1, ConvertingHold, OneStatement
    <3>3. ~Drops(w) \/ call'[w].hold # call[v].hold
      BY <2>1, <3>1 DEF Drops, ConversionsApart
    <3> QED
      BY <2>1, <3>1, <3>2, <3>3 DEF HoldAfter, Dead
  <2>2. ASSUME call'[w].at \in HoldRead PROVE ~Dead(call[w].hold)'
    <3>1. ~Drops(w)
      BY <2>2 DEF Drops, Releasing, Issuing, HoldRead, PastGate, Marking
    <3>2. CASE call'[w].hold \notin Ids(holds)
      <4>1. call'[w].hold \in Ids(holds)'
        <5>1. /\ call'[w].hold = requests'[call'[w].request].hold
              /\ call'[w].request \in Ids(requests)'
          BY <1>0, <2>2 DEF Inv, CallsOK, KnowsNow, Knows, Converting, Ids
        <5> QED
          BY <1>0, <5>1 DEF Inv, TablesOK, References, HoldOf
      <4> QED
        BY <1>2, <3>2, <4>1, OneStatement DEF Live, Dead
    <3>3. CASE call'[w].hold \in Ids(holds)
      <4>1. ~Dead(call'[w].hold)
        BY <1>2, <2>2, OneStatement DEF Arrives, Dead
      <4> QED
        BY <1>2, <3>1, <3>3, <4>1, OneStatement DEF HoldAfter, Dead
    <3> QED
      BY <3>2, <3>3
  <2> QED
    BY <2>1, <2>2 DEF Dead
<1> QED
  BY <1>1, <1>2, StepKinds

LEMMA DeadNext ==
  ASSUME Inv, ConversionInv, [Next]_vars
  PROVE  DeadKept
<1>1. CASE Outside
  <2>1. \A h \in Ids(holds) : holds'[h].status = holds[h].status
    BY <1>1, OutsideWork
  <2>2. UNCHANGED bookings
    BY <1>1, OutsideWork
  <2> QED
    BY <2>1, <2>2 DEF DeadKept, Dead, Ids
<1>2. ASSUME NEW w \in Workers, Begins(w) \/ Steps(w) PROVE DeadKept
  <2> SUFFICES ASSUME NEW h \in Ids(holds), Dead(h)
               PROVE  /\ holds'[h].status \notin {"active", "converted"}
                      /\ \A b \in Ids(bookings)' \ Ids(bookings) : BookingHold(b)' # h
    BY DEF DeadKept
  <2>1. ~ConvertMarkHold(w) \/ h # call[w].hold
    BY DEF ConversionInv, ConvertMarkHold, At, HoldRead, Marking
  <2>2. holds'[h].status \notin {"active", "converted"}
    BY <1>2, <2>1, OneStatement DEF HoldAfter, Dead
  <2>3. CASE UNCHANGED bookings
    BY <2>2, <2>3 DEF Ids
  <2>4. CASE Issues(w)
    <3>1. call[w].hold # h
      BY <2>4 DEF ConversionInv, Issues, HoldRead, PastGate
    <3> QED
      BY <2>2, <2>4, <3>1, BookingIssued
  <2> QED
    BY <1>2, <2>3, <2>4, OneStatement
<1> QED
  BY <1>1, <1>2, StepKinds

LEMMA ConversionsHold == Spec /\ []ConversionsApart => []ConversionInv
<1>1. Init => ConversionInv
  BY DEF Init, ConversionInv, Idle, HoldRead, PastGate, Marking
<1>2. Inv /\ ConversionInv /\ ConversionsApart /\ [Next]_vars => ConversionInv'
  BY ConversionNext
<1> QED
  BY <1>1, <1>2, InvHolds, PTL DEF Spec

\* No booking is issued from a hold that was abandoned and no abandoned hold is
\* marked converted, if no hold is ended between the statement with which a
\* conversion reads it and the one with which it marks it.
THEOREM DeadStaysDead == Spec /\ []ConversionsApart => DeadHoldStaysDead
<1>1. Inv /\ ConversionInv /\ [Next]_vars
        => [\A h \in Ids(holds) : Dead(h) =>
              /\ holds'[h].status \notin {"active", "converted"}
              /\ \A b \in Ids(bookings)' \ Ids(bookings) : BookingHold(b)' # h]_vars
  BY DeadNext DEF DeadKept
<1> QED
  BY <1>1, ConversionsHold, InvHolds, PTL DEF Spec, DeadHoldStaysDead

------------------------------------------------------------------------------
(* The blocks of live holds *)

\* What a statement does to the block of a hold.
BlockAfter(w, h) ==
  \/ holdBlock'[h] = holdBlock[h]
  \/ h = call[w].hold /\ Frees(w) /\ holdBlock'[h] = "released"
  \/ h = call[w].hold /\ (CreateInsertBlock(w) \/ Reactivates(w)) /\ holdBlock'[h] = "active"

LEMMA BlocksAfter ==
  ASSUME Inv, NEW w \in Workers, CalendarWork(w), NEW h \in Ids(holds)
  PROVE  BlockAfter(w, h)
<1>0. DOMAIN holdBlock = Ids(holds)
  BY Domains, LenProperties DEF Inv, TablesOK, Typed
<1>1. CASE Passes(w) \/ Drops(w) \/ Issues(w) \/ ConvertMarkHold(w) \/ ConvertSyncBlock(w)
  BY <1>1 DEF Passes, Drops, Issues, ConvertMarkHold, ConvertSyncBlock, OnlyHolds, BlockAfter
<1>2. CASE Frees(w)
  <2>1. CASE UNCHANGED holdBlock
    BY <2>1 DEF BlockAfter
  <2>2. CASE holdBlock' = [holdBlock EXCEPT ![call[w].hold] =
                             IF @ = "active" THEN "released" ELSE @]
    BY <1>0, <1>2, <2>2 DEF BlockAfter
  <2> QED
    BY <1>2, <2>1, <2>2 DEF Frees
<1>3. CASE CreateInsertHold(w)
  BY <1>3, HoldPlaced DEF BlockAfter
<1>4. CASE CreateInsertBlock(w) \/ Reactivates(w)
  <2>1. holdBlock' = [holdBlock EXCEPT ![call[w].hold] = "active"]
    BY <1>4 DEF CreateInsertBlock, ActivateHoldBlock, Reactivates
  <2> QED
    BY <1>0, <1>4, <2>1 DEF BlockAfter
<1> QED
  BY <1>1, <1>2, <1>3, <1>4 DEF CalendarWork

\* The statement that the step of an invocation admits.
LEMMA OwingWork ==
  ASSUME NEW w \in Workers, CalendarWork(w)
  PROVE  /\ At(w, "create_insert_block") => CreateInsertBlock(w)
         /\ call[w].at \in Releasing => Frees(w)
BY DEF CalendarWork, Passes, Drops, Frees, Reactivates, Issues, CreateInsertHold,
       CreateInsertBlock, ConvertMarkHold, ConvertSyncBlock, At, Owing, Releasing, Issuing

\* The positions of the rows begin at 1.
LEMMA NoHoldZero ==
  ASSUME Inv, NEW w \in Workers, Begins(w) \/ Steps(w)
  PROVE  0 \notin Ids(holds)'
<1>1. holds' \in Seq(HoldRow)
  BY InvNext DEF Next, Inv, TablesOK, Typed
<1> QED
  BY <1>1, LenProperties DEF Ids

\* A handler that releases a block does so for a hold that is over, and one that
\* inserts a block does so for the dates of its hold.
Ended(c) ==
  /\ c.at \in Releasing \cup {"admin_cancel_sync_release"} /\ c.hold \in Ids(holds)
       => ~Live(c.hold)
  /\ c.at = "create_insert_block" => c.stay = holds[c.hold].stay
EndedInv == \A w \in Workers : Ended(call[w])

LEMMA EndedOfOthers ==
  ASSUME Inv, RefInv, NEW w \in Workers, Begins(w) \/ Steps(w),
         NEW v \in Workers, v # w, Ended(call[v])
  PROVE  Ended(call[v])'
<1>1. call'[v] = call[v]
  BY OneStatement DEF Acts, Others
<1>2. ASSUME call[v].at \in Releasing \cup {"admin_cancel_sync_release"},
             call[v].hold \in Ids(holds)'
      PROVE  ~Live(call[v].hold)'
  <2>1. 0 \notin Ids(holds)'
    BY NoHoldZero
  <2>2. call[v].hold \in Ids(holds)
    BY <1>2, <2>1 DEF RefInv, Naming
  <2>3. ~Live(call[v].hold) /\ HoldAfter(w, call[v].hold)
    BY <1>2, <2>2, OneStatement DEF Ended
  <2> QED
    BY <1>1, <2>3 DEF HoldAfter, Live, Dead
<1>3. ASSUME call[v].at = "create_insert_block" PROVE call[v].stay = holds'[call[v].hold].stay
  <2>1. call[v].hold \in Ids(holds)
    BY <1>3 DEF Inv, CallsOK, KnowsNow, Knows, OnHold, Ids
  <2> QED
    BY <1>3, <2>1, OneStatement DEF HoldAfter, Ended
<1> QED
  BY <1>1, <1>2, <1>3 DEF Ended, Live

LEMMA EndedOfOwn ==
  ASSUME Inv, NEW w \in Workers, Begins(w) \/ Steps(w)
  PROVE  Ended(call[w])'
<1>1. ASSUME call'[w].at \in Releasing, call'[w].hold \in Ids(holds)' PROVE ~Live(call[w].hold)'
  <2>1. CASE Drops(w)
    BY <1>1, <2>1, HoldStatusWritten DEF Drops, HoldStatus, Live, Inv
  <2>2. CASE ConvertMarkHold(w)
    BY <2>2, MarkedConverted DEF Live
  <2> QED
    BY <1>1, <2>1, <2>2, OneStatement DEF Arrives
<1>2. ASSUME call'[w].at = "admin_cancel_sync_release" PROVE ~Live(call[w].hold)'
  BY <1>2, OneStatement DEF Arrives, tables, Live
<1>3. ASSUME call'[w].at = "create_insert_block" PROVE call'[w].stay = holds'[call'[w].hold].stay
  BY <1>3, HoldPlaced, OneStatement DEF Arrives
<1> QED
  BY <1>1, <1>2, <1>3 DEF Ended

LEMMA EndedNext == Inv /\ RefInv /\ EndedInv /\ [Next]_vars => EndedInv'
<1> SUFFICES ASSUME Inv, RefInv, EndedInv, [Next]_vars PROVE EndedInv'
  OBVIOUS
<1>1. CASE Outside
  <2>1. /\ Ids(holds)' = Ids(holds)
        /\ \A h \in Ids(holds) : /\ holds'[h].status = holds[h].status
                                 /\ holds'[h].stay = holds[h].stay
        /\ \A v \in Workers : call'[v] = call[v] \/ call'[v] = Idle
    BY <1>1, OutsideWork DEF HoldsOnlyEnd
  <2>2. ASSUME NEW v \in Workers PROVE Ended(call[v])'
    <3>1. CASE call'[v] = Idle
      BY <3>1 DEF Ended, Idle, Releasing
    <3>2. CASE call'[v] = call[v]
      <4>1. call[v].at = "create_insert_block" => call[v].hold \in Ids(holds)
        BY DEF Inv, CallsOK, KnowsNow, Knows, OnHold, Ids
      <4> QED
        BY <2>1, <3>2, <4>1 DEF EndedInv, Ended, Live
    <3> QED
      BY <2>1, <3>1, <3>2
  <2> QED
    BY <2>2 DEF EndedInv
<1>2. ASSUME NEW w \in Workers, Begins(w) \/ Steps(w) PROVE EndedInv'
  BY <1>2, EndedOfOthers, EndedOfOwn DEF EndedInv
<1> QED
  BY <1>1, <1>2, StepKinds

\* A live hold has its block, unless the handler that placed it is about to
\* insert it.
Blocked ==
  \A h \in Ids(holds) : Live(h) =>
    holdBlock[h] = "active" \/ \E w \in Workers : At(w, "create_insert_block") /\ call[w].hold = h

LEMMA BlockedNext ==
  ASSUME Inv, EndedInv, Blocked, [Next]_vars,
         NoneDiesAt({"create_insert_block"}) \/ UNCHANGED vars
  PROVE  Blocked'
<1> SUFFICES ASSUME NEW h \in Ids(holds)', Live(h)', holdBlock'[h] # "active"
             PROVE  \E v \in Workers : At(v, "create_insert_block")' /\ call'[v].hold = h
  BY DEF Blocked
<1>1. CASE Outside
  <2>1. h \in Ids(holds) /\ Live(h) /\ UNCHANGED holdBlock
    BY <1>1, OutsideWork DEF HoldsOnlyEnd
  <2>2. PICK v \in Workers : At(v, "create_insert_block") /\ call[v].hold = h
    BY <2>1 DEF Blocked
  <2>3. call'[v] = call[v]
    BY <1>1, <2>2, NotKilled DEF At
  <2> QED
    BY <2>2, <2>3 DEF At
<1>2. ASSUME NEW w \in Workers, Begins(w) \/ Steps(w)
      PROVE  \E v \in Workers : At(v, "create_insert_block")' /\ call'[v].hold = h
  <2>1. CASE h \notin Ids(holds)
    BY <1>2, <2>1, OneStatement, HoldPlaced DEF At
  <2>2. CASE h \in Ids(holds)
    <3>1. Live(h)
      BY <1>2, <2>2, OneStatement DEF HoldAfter, Live, Dead
    <3>2. BlockAfter(w, h)
      BY <1>2, <2>2, OneStatement, BlocksAfter
    <3>3. holdBlock'[h] = holdBlock[h]
      BY <2>2, <3>1, <3>2 DEF BlockAfter, Frees, EndedInv, Ended
    <3>4. PICK v \in Workers : At(v, "create_insert_block") /\ call[v].hold = h
      BY <2>2, <3>1, <3>3 DEF Blocked
    <3>5. v # w
      <4>1. CASE v = w
        <5>1. CreateInsertBlock(w)
          BY <1>2, <3>4, <4>1, OneStatement, OwingWork
        <5>2. holdBlock' = [holdBlock EXCEPT ![call[w].hold] = "active"]
          BY <5>1 DEF CreateInsertBlock, ActivateHoldBlock
        <5>3. h \in DOMAIN holdBlock
          BY <2>2, Domains, LenProperties DEF Inv, TablesOK, Typed
        <5> QED
          BY <3>4, <4>1, <5>2, <5>3
      <4> QED
        BY <4>1
    <3> QED
      BY <1>2, <3>4, <3>5, OneStatement DEF Acts, Others, At
  <2> QED
    BY <2>1, <2>2
<1> QED
  BY <1>1, <1>2, StepKinds

\* A booking is for the dates of the hold it was issued from.
BookingStays == \A b \in Ids(bookings) : bookings[b].stay = holds[BookingHold(b)].stay

LEMMA StaysNext == Inv /\ BookingStays /\ [Next]_vars => BookingStays'
<1> SUFFICES ASSUME Inv, BookingStays, [Next]_vars PROVE BookingStays'
  OBVIOUS
<1>0. \A b \in Ids(bookings) : BookingHold(b) \in Ids(holds)
  BY DEF Inv, TablesOK, References, BookingHold
<1>1. ASSUME UNCHANGED bookings, RequestsKeepHolds,
             \A h \in Ids(holds) : holds'[h].stay = holds[h].stay
      PROVE  BookingStays'
  BY <1>0, <1>1, BookingsKeepHolds DEF BookingStays
<1>2. ASSUME NEW w \in Workers, Issues(w) PROVE BookingStays'
  <2>1. PICK n :
          /\ Ids(bookings)' = Ids(bookings) \cup {n}
          /\ \A b \in Ids(bookings) : /\ bookings'[b] = bookings[b]
                                      /\ BookingHold(b)' = BookingHold(b)
          /\ BookingHold(n)' = call[w].hold /\ bookings'[n].stay = holds[call[w].hold].stay
    BY <1>2, BookingIssued
  <2>2. UNCHANGED holds
    BY <1>2 DEF Issues
  <2>3. \A b \in Ids(bookings)' : bookings'[b].stay = holds'[BookingHold(b)'].stay
    BY <2>1, <2>2 DEF BookingStays
  <2> QED
    BY <2>3 DEF BookingStays
<1> QED
  BY <1>1, <1>2, StepKinds, OutsideWork, OneStatement DEF HoldsOnlyEnd, HoldAfter

BlocksInv == RefInv /\ EndedInv /\ Blocked /\ BookingStays

LEMMA BlocksHold == Spec /\ Unbroken({"create_insert_block"}) => []BlocksInv
<1>1. Init => BlocksInv
  <2>1. Init => RefInv
    BY DEF Init, RefInv, Naming, Queue, Idle, Sweeping
  <2>2. Init => EndedInv
    BY DEF Init, EndedInv, Ended, Ids, Idle, Releasing
  <2> QED
    BY <2>1, <2>2 DEF Init, BlocksInv, Blocked, BookingStays, Ids
<1>2. Inv /\ BlocksInv /\ [Next]_vars /\ [NoneDiesAt({"create_insert_block"})]_vars => BlocksInv'
  BY RefNext, EndedNext, BlockedNext, StaysNext DEF BlocksInv
<1> QED
  BY <1>1, <1>2, InvHolds, PTL DEF Spec, Unbroken

------------------------------------------------------------------------------
(* Held dates are exclusive *)

\* The dates a creation has checked are free of bookings, and once it has seen
\* the blocks, of live holds.
Checked(c) ==
  /\ c.at \in OnStay => ~BookingConflict(c.stay)
  /\ c.at = "create_insert_hold" =>
       \A h \in Ids(holds) : Live(h) => ~Overlap(holds[h].stay, c.stay)
CheckedInv == \A w \in Workers : Checked(call[w])

\* A hold that is being converted is live, or has a booking for its dates.
LEMMA ConvertingLive ==
  ASSUME Inv, ConversionInv, NEW w \in Workers, call[w].at \in HoldRead
  PROVE  \/ Live(call[w].hold)
         \/ \E b \in Ids(bookings) : /\ BookingHold(b) = call[w].hold
                                     /\ bookings[b].stay = holds[call[w].hold].stay
<1> DEFINE h == call[w].hold
<1>1. h \in Ids(holds) /\ ~Dead(h)
  BY ConvertingHold DEF ConversionInv
<1>2. holds[h].status \in HoldStatus
  BY <1>1, Domains DEF Inv, TablesOK, HoldRow
<1> HIDE DEF h
<1>3. CASE holds[h].status = "converted"
  BY <1>1, <1>3 DEF Inv, TablesOK, ConversionLinks, BookingHold, h
<1> QED
  BY <1>1, <1>2, <1>3 DEF HoldStatus, Dead, Live, h

LEMMA CheckedOfOthers ==
  ASSUME Inv, ConversionInv, CheckedInv, CreationsApart, ChecksApart,
         NEW w \in Workers, Begins(w) \/ Steps(w), NEW v \in Workers, v # w
  PROVE  Checked(call[v])'
<1> DEFINE s == call[v].stay
<1>0. call'[v] = call[v]
  BY OneStatement DEF Acts, Others
<1>1. ASSUME call[v].at \in OnStay
      PROVE  \A b \in Ids(bookings)' :
               ~(bookings'[b].stay.out > s.in /\ bookings'[b].stay.in < s.out)
  <2>1. ~BookingConflict(s) /\ s \in Stays
    BY <1>1 DEF CheckedInv, Checked, Inv, CallsOK, KnowsNow, Knows
  <2>2. CASE UNCHANGED bookings
    BY <2>1, <2>2 DEF BookingConflict, Ids
  <2>3. CASE Issues(w)
    <3>1. PICK n : /\ Ids(bookings)' = Ids(bookings) \cup {n}
                   /\ \A b \in Ids(bookings) : bookings'[b] = bookings[b]
                   /\ bookings'[n].stay = holds[call[w].hold].stay
      BY <2>3, BookingIssued
    <3>2. /\ call[w].at = "convert_insert_booking" /\ call[w].at \in HoldRead
          /\ call[w].hold \in Ids(holds) /\ call[w].stay = holds[call[w].hold].stay
      BY <2>3, ConvertingHold DEF Issues, HoldRead, PastGate
    <3>3. ~Overlap(s, call[w].stay)
      <4>1. CASE call[v].at = "create_check_blocks"
        BY <3>2, <4>1 DEF ChecksApart, At
      <4>2. CASE call[v].at = "create_insert_hold"
        <5>1. CASE Live(call[w].hold)
          <6>1. ~Overlap(call[w].stay, s)
            BY <3>2, <4>2, <5>1 DEF CheckedInv, Checked
          <6> QED
            BY <2>1, <3>2, <6>1, StaysOnRecord, Overlapping
        <5>2. ASSUME NEW b \in Ids(bookings), bookings[b].stay = call[w].stay
              PROVE  ~Overlap(s, call[w].stay)
          BY <2>1, <5>2, StaysOnRecord, Overlapping DEF BookingConflict
        <5> QED
          BY <3>2, <5>1, <5>2, ConvertingLive
      <4> QED
        BY <1>1, <4>1, <4>2 DEF OnStay
    <3>4. ~(call[w].stay.out > s.in /\ call[w].stay.in < s.out)
      BY <2>1, <3>2, <3>3, StaysOnRecord, Overlapping
    <3> QED
      BY <2>1, <3>1, <3>2, <3>4 DEF BookingConflict
  <2> QED
    BY <2>2, <2>3, OneStatement
<1>2. ASSUME call[v].at = "create_insert_hold", NEW h \in Ids(holds)', Live(h)'
      PROVE  ~Overlap(holds'[h].stay, s)
  <2>1. CASE h \in Ids(holds)
    <3>1. HoldAfter(w, h)
      BY <2>1, OneStatement
    <3>2. Live(h) /\ holds'[h].stay = holds[h].stay
      BY <1>2, <3>1 DEF HoldAfter, Live, Dead
    <3> QED
      BY <1>2, <2>1, <3>2 DEF CheckedInv, Checked
  <2>2. CASE h \notin Ids(holds)
    <3>1. CreateInsertHold(w)
      BY <2>2, OneStatement
    <3>2. holds'[h].stay = call[w].stay
      BY <2>2, <3>1, HoldPlaced
    <3>3. call[w].at = "create_insert_hold"
      BY <3>1 DEF CreateInsertHold, At
    <3>4. ~Overlap(call[w].stay, call[v].stay)
      BY <1>2, <3>3 DEF CreationsApart, At
    <3> QED
      BY <3>2, <3>4
  <2> QED
    BY <2>1, <2>2
<1> QED
  BY <1>0, <1>1, <1>2 DEF Checked, BookingConflict

LEMMA CheckedOfOwn ==
  ASSUME Inv, BlocksInv, CheckedInv, CreationsApart, NEW w \in Workers, Begins(w) \/ Steps(w)
  PROVE  Checked(call[w])'
<1> DEFINE s == call[w].stay
<1>1. CASE call'[w].at = "create_check_blocks"
  <2>1. ~BookingConflict(call'[w].stay) /\ UNCHANGED tables
    BY <1>1, OneStatement DEF Arrives
  <2> QED
    BY <1>1, <2>1 DEF Checked, BookingConflict, tables, Ids
<1>2. CASE call'[w].at = "create_insert_hold"
  <2>1. /\ call[w].at = "create_check_blocks" /\ ~BlockConflict(s)
        /\ call'[w].stay = s /\ UNCHANGED tables
    BY <1>2, OneStatement DEF Arrives, At
  <2>2. ~BookingConflict(s) /\ s \in Stays
    BY <2>1 DEF CheckedInv, Checked, OnStay, Inv, CallsOK, KnowsNow, Knows
  <2>3. ASSUME NEW h \in Ids(holds), Live(h) PROVE ~Overlap(holds[h].stay, s)
    <3>1. CASE holdBlock[h] = "active"
      <4>1. ~Touches(holds[h].stay, s)
        BY <2>1, <3>1 DEF BlockConflict
      <4> QED
        BY <2>2, <4>1, StaysOnRecord, Overlapping
    <3>2. ASSUME NEW u \in Workers, At(u, "create_insert_block"), call[u].hold = h
          PROVE  ~Overlap(holds[h].stay, s)
      <4>1. call[u].stay = holds[h].stay /\ u # w
        BY <2>1, <3>2 DEF BlocksInv, EndedInv, Ended, At
      <4>2. ~Overlap(s, holds[h].stay)
        BY <2>1, <3>2, <4>1 DEF CreationsApart, At
      <4> QED
        BY <2>2, <4>2, StaysOnRecord, Overlapping
    <3> QED
      BY <2>3, <3>1, <3>2 DEF BlocksInv, Blocked
  <2> QED
    BY <2>1, <2>2, <2>3 DEF Checked, BookingConflict, tables, Ids, Live
<1> QED
  BY <1>1, <1>2 DEF Checked, OnStay

LEMMA CheckedNext ==
  ASSUME Inv, BlocksInv, ConversionInv, CheckedInv, CreationsApart, ChecksApart, [Next]_vars
  PROVE  CheckedInv'
<1>1. CASE Outside
  <2>1. /\ HoldsOnlyEnd /\ UNCHANGED bookings
        /\ \A v \in Workers : call'[v] = call[v] \/ call'[v] = Idle
    BY <1>1, OutsideWork
  <2>2. ASSUME NEW v \in Workers PROVE Checked(call[v])'
    <3>1. CASE call'[v] = Idle
      BY <3>1 DEF Checked, Idle, OnStay
    <3>2. CASE call'[v] = call[v]
      BY <2>1, <3>2 DEF CheckedInv, Checked, BookingConflict, HoldsOnlyEnd, Ids
    <3> QED
      BY <2>1, <3>1, <3>2
  <2> QED
    BY <2>2 DEF CheckedInv
<1>2. ASSUME NEW w \in Workers, Begins(w) \/ Steps(w) PROVE CheckedInv'
  BY <1>2, CheckedOfOthers, CheckedOfOwn DEF CheckedInv
<1> QED
  BY <1>1, <1>2, StepKinds

\* Neither a hold that ends nor a request that is written disturbs it.
LEMMA ExclusiveKept ==
  ASSUME Inv, HeldDatesExclusive, HoldsOnlyEnd, UNCHANGED bookings, RequestsKeepHolds
  PROVE  HeldDatesExclusive'
BY BookingsKeepHolds DEF HeldDatesExclusive, HoldsOnlyEnd

\* Nobody holds or has booked the dates of a hold about to be inserted.
LEMMA NewDatesFree ==
  ASSUME Inv, CheckedInv, NEW w \in Workers, CreateInsertHold(w)
  PROVE  LET s == call[w].stay IN
         /\ s \in Stays
         /\ \A h \in Ids(holds) : Live(h) => /\ ~Overlap(holds[h].stay, s)
                                             /\ ~Overlap(s, holds[h].stay)
         /\ \A b \in Ids(bookings) : ~Overlap(bookings[b].stay, s) /\ ~Overlap(s, bookings[b].stay)
<1> DEFINE s == call[w].stay
<1>1. s \in Stays
  BY HoldPlaced
<1>2. /\ ~BookingConflict(s)
      /\ \A h \in Ids(holds) : Live(h) => ~Overlap(holds[h].stay, s)
  BY DEF CreateInsertHold, At, CheckedInv, Checked, OnStay
<1>3. ASSUME NEW h \in Ids(holds), Live(h) PROVE ~Overlap(s, holds[h].stay)
  BY <1>1, <1>2, <1>3, StaysOnRecord, Overlapping
<1>4. ASSUME NEW b \in Ids(bookings)
      PROVE  ~Overlap(bookings[b].stay, s) /\ ~Overlap(s, bookings[b].stay)
  BY <1>1, <1>2, StaysOnRecord, Overlapping DEF BookingConflict
<1> QED
  BY <1>1, <1>2, <1>3, <1>4

LEMMA ExclusiveWhenPlaced ==
  ASSUME Inv, CheckedInv, HeldDatesExclusive, NEW w \in Workers, CreateInsertHold(w)
  PROVE  HeldDatesExclusive'
<1> DEFINE s == call[w].stay
<1>1. PICK n :
        /\ n \notin Ids(holds) /\ Ids(holds)' = Ids(holds) \cup {n}
        /\ \A h \in Ids(holds) : holds'[h] = holds[h]
        /\ holds'[n].stay = s
        /\ UNCHANGED <<requests, bookings>>
  BY HoldPlaced
<1>3. \A h \in Ids(holds) : Live(h) => ~Overlap(holds[h].stay, s) /\ ~Overlap(s, holds[h].stay)
  BY NewDatesFree
<1>4. \A b \in Ids(bookings) : ~Overlap(s, bookings[b].stay)
  BY NewDatesFree
<1>5. /\ Ids(bookings)' = Ids(bookings)
      /\ \A b \in Ids(bookings) : BookingHold(b)' = BookingHold(b) /\ bookings'[b] = bookings[b]
  BY <1>1 DEF BookingHold, HoldOf, Ids
<1>6. ASSUME NEW h \in Ids(holds)', NEW g \in Ids(holds)', h # g, Live(h)', Live(g)'
      PROVE  ~Overlap(holds[h].stay, holds[g].stay)'
  BY <1>1, <1>3, <1>6 DEF HeldDatesExclusive, Live, Overlap
<1>7. ASSUME NEW b \in Ids(bookings)', NEW h \in Ids(holds)', Live(h)',
             Overlap(holds[h].stay, bookings[b].stay)'
      PROVE  BookingHold(b)' = h
  BY <1>1, <1>4, <1>5, <1>7 DEF HeldDatesExclusive, Live, Overlap
<1>8. ASSUME NEW b \in Ids(bookings)', NEW c \in Ids(bookings)',
             Overlap(bookings[b].stay, bookings[c].stay)'
      PROVE  BookingHold(b)' = BookingHold(c)'
  BY <1>5, <1>8 DEF HeldDatesExclusive, Overlap
<1> QED
  BY <1>6, <1>7, <1>8 DEF HeldDatesExclusive

\* A booking takes the dates of a hold that is live, or that was converted
\* and shares them with the booking it points at.
LEMMA ExclusiveWhenIssued ==
  ASSUME Inv, ConversionInv, HeldDatesExclusive, NEW w \in Workers, Issues(w)
  PROVE  HeldDatesExclusive'
<1> DEFINE k == call[w].hold
           s == holds[k].stay
<1>1. PICK n :
        /\ Ids(bookings)' = Ids(bookings) \cup {n} /\ n \notin Ids(bookings)
        /\ \A b \in Ids(bookings) : bookings'[b] = bookings[b] /\ BookingHold(b)' = BookingHold(b)
        /\ BookingHold(n)' = k /\ k \in Ids(holds) /\ bookings'[n].stay = s
  BY BookingIssued
<1>2. UNCHANGED holds
  BY DEF Issues
<1>3. /\ \A h \in Ids(holds) : Live(h) /\ Overlap(holds[h].stay, s) => h = k
      /\ \A b \in Ids(bookings) : Overlap(bookings[b].stay, s) => BookingHold(b) = k
  <2>1. CASE Live(k)
    <3>1. \A h \in Ids(holds) : Live(h) /\ Overlap(holds[h].stay, s) => h = k
      BY <1>1, <2>1 DEF HeldDatesExclusive
    <3>2. ASSUME NEW b \in Ids(bookings), Overlap(bookings[b].stay, s) PROVE BookingHold(b) = k
      BY <1>1, <2>1, <3>2, StaysOnRecord, Overlapping DEF HeldDatesExclusive
    <3> QED
      BY <3>1, <3>2
  <2>2. ASSUME NEW c \in Ids(bookings), BookingHold(c) = k, bookings[c].stay = s
        PROVE  /\ \A h \in Ids(holds) : Live(h) /\ Overlap(holds[h].stay, s) => h = k
               /\ \A b \in Ids(bookings) : Overlap(bookings[b].stay, s) => BookingHold(b) = k
    BY <2>2 DEF HeldDatesExclusive
  <2>3. Live(k) \/ \E c \in Ids(bookings) : BookingHold(c) = k /\ bookings[c].stay = s
    BY ConvertingLive DEF Issues, HoldRead, PastGate
  <2> QED
    BY <2>1, <2>2, <2>3
<1>4. /\ Ids(holds)' = Ids(holds)
      /\ \A h \in Ids(holds) : holds'[h].stay = holds[h].stay /\ Live(h)' = Live(h)
  BY <1>2 DEF Ids, Live
<1>5. ASSUME NEW b \in Ids(bookings) PROVE Overlap(s, bookings[b].stay) => BookingHold(b) = k
  BY <1>1, <1>3, StaysOnRecord, Overlapping
<1> HIDE DEF k, s
<1>6. ASSUME NEW h \in Ids(holds)', NEW g \in Ids(holds)', h # g, Live(h)', Live(g)'
      PROVE  ~Overlap(holds[h].stay, holds[g].stay)'
  BY <1>4, <1>6 DEF HeldDatesExclusive, Overlap
<1>7. ASSUME NEW b \in Ids(bookings)', NEW h \in Ids(holds)', Live(h)',
             Overlap(holds[h].stay, bookings[b].stay)'
      PROVE  BookingHold(b)' = h
  BY <1>1, <1>3, <1>4, <1>7 DEF HeldDatesExclusive, Overlap
<1>8. ASSUME NEW b \in Ids(bookings)', NEW c \in Ids(bookings)',
             Overlap(bookings[b].stay, bookings[c].stay)'
      PROVE  BookingHold(b)' = BookingHold(c)'
  BY <1>1, <1>3, <1>5, <1>8 DEF HeldDatesExclusive, Overlap
<1> QED
  BY <1>6, <1>7, <1>8 DEF HeldDatesExclusive

LEMMA ExclusiveNext ==
  ASSUME Inv, CheckedInv, ConversionInv, HeldDatesExclusive, [Next]_vars
  PROVE  HeldDatesExclusive'
<1>1. CASE Outside
  BY <1>1, OutsideWork, ExclusiveKept
<1>2. ASSUME NEW w \in Workers, Begins(w) \/ Steps(w), ~CreateInsertHold(w), ~Issues(w)
      PROVE  HeldDatesExclusive'
  <2>1. UNCHANGED holds \/ Drops(w) \/ ConvertMarkHold(w)
    BY <1>2, OneStatement DEF CalendarWork, Passes, Frees, Reactivates, CreateInsertBlock,
                              ConvertSyncBlock, OnlyHoldBlock
  <2> QED
    BY <1>2, <2>1, OneStatement, HoldsEnding, ExclusiveKept
<1> QED
  BY <1>1, <1>2, StepKinds, ExclusiveWhenPlaced, ExclusiveWhenIssued

\* What the exclusiveness of held dates asks of the overlaps.
DatesApart == CreationsApart /\ ChecksApart /\ ConversionsApart
DatesInv   == BlocksInv /\ ConversionInv /\ CheckedInv /\ HeldDatesExclusive

LEMMA DatesHold == Spec /\ []DatesApart /\ Unbroken({"create_insert_block"}) => []DatesInv
<1>1. Init => CheckedInv /\ HeldDatesExclusive
  BY DEF Init, CheckedInv, Checked, Idle, OnStay, HeldDatesExclusive, Ids
<1>2. Inv /\ BlocksInv /\ ConversionInv /\ CheckedInv /\ HeldDatesExclusive /\ DatesApart
        /\ [Next]_vars => CheckedInv' /\ HeldDatesExclusive'
  BY CheckedNext, ExclusiveNext DEF DatesApart
<1>3. DatesApart => ConversionsApart
  BY DEF DatesApart
<1> QED
  BY <1>1, <1>2, <1>3, InvHolds, BlocksHold, ConversionsHold, PTL DEF Spec, DatesInv

\* assertHoldDatesStillAvailable does its job and no night is promised twice, if
\* nobody looks for blocks while another hold on the dates still lacks its own,
\* no two holds on the dates are inserted at once, no booking is issued between
\* the two queries, no hold is ended under a conversion, and no handler dies
\* between a hold and its block: such a hold is invisible to the check.
THEOREM HeldDatesAreExclusive ==
  Spec /\ []DatesApart /\ Unbroken({"create_insert_block"}) => []HeldDatesExclusive
<1>1. DatesInv => HeldDatesExclusive
  BY DEF DatesInv
<1> QED
  BY <1>1, DatesHold, PTL

------------------------------------------------------------------------------
(* Live holds and bookings are blocked *)

\* A booking has its active block, unless its conversion is still under way.
BookingsBlocked ==
  \A b \in Ids(bookings) :
    bookingBlock[b] = "active" \/ \E w \in Workers : call[w].at \in Issuing /\ call[w].booking = b

\* A conversion goes on until it has blocked its booking.
LEMMA IssuingGoesOn ==
  ASSUME Inv, Admits, NEW w \in Workers, CalendarWork(w), call[w].at \in Issuing
  PROVE  \/ call'[w].at \in Issuing /\ call'[w].booking = call[w].booking
         \/ ConvertSyncBlock(w)
<1>1. CASE Passes(w)
  BY <1>1 DEF Passes, Owing, Issuing
<1>2. CASE Frees(w)
  BY <1>2 DEF Frees, ReleaseRaises, Admits, Issuing
<1>3. CASE ConvertMarkHold(w)
  BY <1>3, MarkedConverted DEF Issuing
<1>4. ~Drops(w) /\ ~Reactivates(w) /\ ~Issues(w) /\ ~CreateInsertHold(w) /\ ~CreateInsertBlock(w)
  BY DEF Drops, Reactivates, Issues, CreateInsertHold, CreateInsertBlock, At, Owing, Issuing
<1> QED
  BY <1>1, <1>2, <1>3, <1>4 DEF CalendarWork

LEMMA BookingsBlockedNext ==
  ASSUME Inv, Admits, BookingsBlocked, [Next]_vars, NoneDiesAt(Issuing) \/ UNCHANGED vars
  PROVE  BookingsBlocked'
<1> SUFFICES ASSUME NEW b \in Ids(bookings)', bookingBlock'[b] # "active"
             PROVE  \E v \in Workers : call'[v].at \in Issuing /\ call'[v].booking = b
  BY DEF BookingsBlocked
<1>1. CASE Outside
  <2>1. b \in Ids(bookings) /\ bookingBlock[b] # "active"
    BY <1>1, OutsideWork DEF Ids
  <2>2. PICK v \in Workers : call[v].at \in Issuing /\ call[v].booking = b
    BY <2>1 DEF BookingsBlocked
  <2>3. call'[v] = call[v]
    BY <1>1, <2>2, NotKilled
  <2> QED
    BY <2>2, <2>3
<1>2. ASSUME NEW w \in Workers, Begins(w) \/ Steps(w)
      PROVE  \E v \in Workers : call'[v].at \in Issuing /\ call'[v].booking = b
  <2>1. CalendarWork(w) /\ Acts(w)
    BY <1>2, OneStatement
  <2>2. CASE b \notin Ids(bookings)
    <3>1. Issues(w)
      BY <1>2, <2>2, OneStatement DEF Ids
    <3>2. call'[w].at = "convert_mark_request" /\ call'[w].booking = b
      BY <2>2, <3>1, BookingIssued
    <3> QED
      BY <3>2 DEF Issuing
  <2>3. CASE b \in Ids(bookings)
    <3>1. bookingBlock[b] # "active"
      <4>1. CASE Issues(w)
        BY <2>3, <4>1, BookingIssued
      <4>2. CASE ConvertSyncBlock(w)
        <5>1. DOMAIN bookingBlock = Ids(bookings)
          BY Domains, LenProperties DEF Inv, TablesOK, Typed
        <5> QED
          BY <2>3, <4>2, <5>1 DEF ConvertSyncBlock
      <4>3. CASE UNCHANGED bookingBlock
        BY <4>3
      <4> QED
        BY <2>1, <4>1, <4>2, <4>3 DEF CalendarWork, Passes, Drops, Frees, Reactivates,
           CreateInsertHold, CreateInsertBlock, ConvertMarkHold, OnlyHolds, OnlyHoldBlock
    <3>2. PICK v \in Workers : call[v].at \in Issuing /\ call[v].booking = b
      BY <2>3, <3>1 DEF BookingsBlocked
    <3>3. CASE v # w
      BY <2>1, <3>2, <3>3 DEF Acts, Others
    <3>4. CASE v = w
      <4>1. ~ConvertSyncBlock(w)
        <5>1. DOMAIN bookingBlock = Ids(bookings)
          BY Domains, LenProperties DEF Inv, TablesOK, Typed
        <5> QED
          BY <2>3, <3>2, <3>4, <5>1 DEF ConvertSyncBlock
      <4> QED
        BY <2>1, <3>2, <3>4, <4>1, IssuingGoesOn
    <3> QED
      BY <3>3, <3>4
  <2> QED
    BY <2>2, <2>3
<1> QED
  BY <1>1, <1>2, StepKinds

\* Between invocations a live hold and a booking have their active block,
\* whatever overlapped, provided no handler dies between the row and its block
\* and the table admits "released": otherwise a conversion stops where it
\* releases the hold, before it blocks the booking.
THEOREM LiveHoldsStayBlocked ==
  ASSUME Admits
  PROVE  Spec /\ Unbroken({"create_insert_block"}) /\ Unbroken(Issuing) => []LiveHoldsAreBlocked
<1>1. Init => BookingsBlocked
  BY DEF Init, BookingsBlocked, Ids
<1>2. Inv /\ BookingsBlocked /\ [Next]_vars /\ [NoneDiesAt(Issuing)]_vars => BookingsBlocked'
  BY BookingsBlockedNext
<1>3. BlocksInv /\ BookingsBlocked => LiveHoldsAreBlocked
  BY DEF BlocksInv, Blocked, BookingsBlocked, LiveHoldsAreBlocked, Quiet, At, Idle, Issuing
<1> QED
  BY <1>1, <1>2, <1>3, InvHolds, BlocksHold, PTL DEF Spec, Unbroken

------------------------------------------------------------------------------
(* Holds that are over block nothing *)

\* Nobody but the handler that places it can name a hold without a block.
Placed(v) ==
  At(v, "create_insert_block") =>
    LET h == call[v].hold IN
    /\ Live(h) /\ ~holds[h].late /\ holdBlock[h] = "absent"
    /\ \A r \in Ids(requests) : HoldOf(r) # h
    /\ \A u \in Others(v) : h \notin Naming(call[u])
PlacedInv == \A v \in Workers : Placed(v)

\* An administrator who cancels a hold finds it ended when the calendar is
\* brought in line with it.
Synced(c) ==
  c.hold \in Ids(holds) =>
    /\ c.at \in Syncing => holds[c.hold].status \notin {"active", "converted"}
    /\ c.at # "admin_cancel_sync_activate"
SyncedInv == \A w \in Workers : Synced(call[w])

\* A hold that is not live has no active block, unless a handler is about to
\* release it.
Freed ==
  \A h \in Ids(holds) : ~Live(h) =>
    holdBlock[h] # "active" \/ \E w \in Workers : call[w].at \in Releasing /\ call[w].hold = h

\* A statement leaves alone the holds that its invocation does not name.
LEMMA HoldUntouched ==
  ASSUME Inv, NEW w \in Workers, CalendarWork(w), NEW h \in Ids(holds), h \notin Naming(call[w])
  PROVE  holds'[h] = holds[h] /\ holdBlock'[h] = holdBlock[h]
<1>0. h # 0
  BY Domains DEF Inv, TablesOK
<1>1. call[w].hold # h
  BY <1>0 DEF Naming
<1>2. holdBlock'[h] = holdBlock[h]
  BY <1>1, BlocksAfter DEF BlockAfter
<1>3. CASE UNCHANGED holds
  BY <1>2, <1>3
<1>4. CASE Drops(w)
  <2>1. call'[w].hold # h
    BY <1>0, <1>4 DEF Drops, Ending, Naming, Queue, Sweeping
  <2>2. holds'[h] = holds[h]
    BY <1>4, <2>1 DEF Drops, SetHoldStatus, Ids
  <2> QED
    BY <1>2, <2>2
<1>5. CASE ConvertMarkHold(w)
  BY <1>1, <1>2, <1>5, MarkedConverted
<1>6. CASE CreateInsertHold(w)
  BY <1>2, <1>6, HoldPlaced
<1> QED
  BY <1>3, <1>4, <1>5, <1>6 DEF CalendarWork, Passes, Frees, Reactivates, Issues,
     CreateInsertBlock, ConvertSyncBlock, OnlyHoldBlock

LEMMA PlacedOfOthers ==
  ASSUME Inv, PlacedInv, CancellationsApart', NEW w \in Workers, Begins(w) \/ Steps(w),
         NEW v \in Workers, v # w
  PROVE  Placed(v)'
<1> SUFFICES ASSUME At(v, "create_insert_block")'
             PROVE  LET h == call'[v].hold IN
                    /\ holds'[h].status = "active" /\ ~holds'[h].late /\ holdBlock'[h] = "absent"
                    /\ \A r \in Ids(requests)' : requests'[r].hold # h
                    /\ \A u \in Others(v) : h \notin Naming(call'[u])
  BY DEF Placed, HoldOf, Live, Naming, Queue
<1> DEFINE h == call[v].hold
<1>1. call'[v] = call[v] /\ At(v, "create_insert_block")
  BY OneStatement DEF Acts, Others, At
<1>2. /\ Live(h) /\ ~holds[h].late /\ holdBlock[h] = "absent"
      /\ \A r \in Ids(requests) : HoldOf(r) # h
      /\ \A u \in Others(v) : h \notin Naming(call[u])
  BY <1>1 DEF PlacedInv, Placed
<1>3. h \in Ids(holds) /\ h # 0
  BY <1>1, Domains DEF At, Inv, CallsOK, KnowsNow, Knows, OnHold, Ids, TablesOK
<1>4. h \notin Naming(call[w]) /\ call[w].hold # h
  BY <1>2, <1>3 DEF Others, Naming
<1>5. holds'[h] = holds[h] /\ holdBlock'[h] = holdBlock[h]
  BY <1>3, <1>4, OneStatement, HoldUntouched
<1>6. ASSUME NEW r \in Ids(requests)' PROVE requests'[r].hold # h
  BY <1>2, <1>4, OneStatement DEF RequestAfter, HoldOf
<1>7. h \notin Naming(call'[w])
  <2>1. h \notin Findable
    BY <1>2 DEF Findable, TokenIssued, OverdueHolds
  <2>2. CASE Naming(call'[w]) \subseteq Naming(call[w]) \cup Findable
    BY <1>4, <2>1, <2>2
  <2>3. CASE call'[w].at = "admin_cancel_write_hold"
    <3>1. call'[w].hold # h
      BY <1>1, <2>3 DEF CancellationsApart, At
    <3> QED
      BY <2>3, <3>1 DEF Naming, Queue, Sweeping
  <2>4. CASE CreateInsertHold(w)
    <3>1. call'[w].at = "create_insert_block" /\ call'[w].hold \notin Ids(holds)
      BY <2>4, HoldPlaced
    <3> QED
      BY <1>3, <3>1 DEF Naming, Queue, Sweeping
  <2> QED
    BY <2>2, <2>3, <2>4, OneStatement DEF Names
<1>8. ASSUME NEW u \in Others(v) PROVE h \notin Naming(call'[u])
  <2>1. CASE u = w
    BY <1>7, <2>1
  <2>2. CASE u # w
    <3>1. call'[u] = call[u]
      BY <2>2, OneStatement DEF Acts, Others
    <3> QED
      BY <1>2, <3>1
  <2> QED
    BY <2>1, <2>2
<1> QED
  BY <1>1, <1>2, <1>5, <1>6, <1>8 DEF Live

LEMMA PlacedOfOwn ==
  ASSUME Inv, RefInv, NEW v \in Workers, Begins(v) \/ Steps(v)
  PROVE  Placed(v)'
<1> SUFFICES ASSUME At(v, "create_insert_block")'
             PROVE  LET h == call'[v].hold IN
                    /\ holds'[h].status = "active" /\ ~holds'[h].late /\ holdBlock'[h] = "absent"
                    /\ \A r \in Ids(requests)' : requests'[r].hold # h
                    /\ \A u \in Others(v) : h \notin Naming(call'[u])
  BY DEF Placed, HoldOf, Live, Naming, Queue
<1> DEFINE h == call'[v].hold
<1>1. CreateInsertHold(v) /\ Acts(v)
  BY OneStatement DEF Arrives, At
<1>2. /\ h \notin Ids(holds) /\ UNCHANGED requests
      /\ holds'[h].status = "active" /\ ~holds'[h].late /\ holdBlock'[h] = "absent"
  BY <1>1, HoldPlaced
<1> HIDE DEF h
<1>3. \A r \in Ids(requests)' : requests'[r].hold # h
  BY <1>2 DEF Inv, TablesOK, References, HoldOf, Ids
<1>4. ASSUME NEW u \in Others(v) PROVE h \notin Naming(call'[u])
  <2>1. call'[u] = call[u] /\ Naming(call[u]) \subseteq Ids(holds)
    BY <1>1 DEF Acts, Others, RefInv
  <2> QED
    BY <1>2, <2>1
<1> QED
  BY <1>2, <1>3, <1>4 DEF Live, h

LEMMA PlacedNext ==
  ASSUME Inv, RefInv, PlacedInv, CancellationsApart', [Next]_vars
  PROVE  PlacedInv'
<1>1. CASE Outside
  <2> SUFFICES ASSUME NEW v \in Workers, At(v, "create_insert_block")'
               PROVE  LET h == call'[v].hold IN
                      /\ holds'[h].status = "active" /\ ~holds'[h].late /\ holdBlock'[h] = "absent"
                      /\ \A r \in Ids(requests)' : requests'[r].hold # h
                      /\ \A u \in Others(v) : h \notin Naming(call'[u])
    BY DEF PlacedInv, Placed, HoldOf, Live, Naming, Queue
  <2>1. call'[v] = call[v] /\ At(v, "create_insert_block")
    BY <1>1, OutsideWork DEF At, Idle
  <2>2. call[v].hold \in Ids(holds)
    BY <2>1 DEF At, Inv, CallsOK, KnowsNow, Knows, OnHold, Ids
  <2>3. ~HoldDeadlinePasses(call[v].hold)
    BY <2>1 DEF HoldDeadlinePasses, AtOneOf, At
  <2>4. Naming(Idle) = {}
    BY DEF Naming, Queue, Idle, Sweeping
  <2>5. \A u \in Others(v) : call[v].hold \notin Naming(call'[u])
    <3>1. \A u \in Others(v) : call'[u] = call[u] \/ call'[u] = Idle
      BY <1>1, OutsideWork DEF Others
    <3> QED
      BY <2>1, <2>4, <3>1 DEF PlacedInv, Placed
  <2> QED
    BY <1>1, <2>1, <2>2, <2>3, <2>5, OutsideWork
    DEF PlacedInv, Placed, Live, HoldOf, RequestsKeepHolds
<1>2. ASSUME NEW w \in Workers, Begins(w) \/ Steps(w) PROVE PlacedInv'
  BY <1>2, PlacedOfOthers, PlacedOfOwn DEF PlacedInv
<1> QED
  BY <1>1, <1>2, StepKinds

LEMMA SyncedOfOthers ==
  ASSUME Inv, RefInv, SyncedInv, CancellationsApart, NEW w \in Workers, Begins(w) \/ Steps(w),
         NEW v \in Workers, v # w
  PROVE  Synced(call[v])'
<1>1. call'[v] = call[v]
  BY OneStatement DEF Acts, Others
<1> SUFFICES ASSUME call[v].hold \in Ids(holds)'
             PROVE  /\ call[v].at \in Syncing
                         => holds'[call[v].hold].status \notin {"active", "converted"}
                    /\ call[v].at # "admin_cancel_sync_activate"
  BY <1>1 DEF Synced
<1>2. call[v].hold \in Ids(holds)
  BY NoHoldZero DEF RefInv, Naming
<1>3. Synced(call[v]) /\ HoldAfter(w, call[v].hold)
  BY <1>2, OneStatement DEF SyncedInv
<1>4. call[v].at \in Syncing => ~ConvertMarkHold(w) \/ call[w].hold # call[v].hold
  BY DEF CancellationsApart, ConvertMarkHold
<1> QED
  BY <1>2, <1>3, <1>4 DEF Synced, HoldAfter, Dead

LEMMA SyncedOfOwn ==
  ASSUME Inv, SyncedInv, NEW w \in Workers, Begins(w) \/ Steps(w)
  PROVE  Synced(call[w])'
<1> SUFFICES ASSUME call'[w].hold \in Ids(holds)'
             PROVE  /\ call'[w].at \in Syncing
                         => holds'[call'[w].hold].status \notin {"active", "converted"}
                    /\ call'[w].at # "admin_cancel_sync_activate"
  BY DEF Synced
<1>1. ASSUME call'[w].at = "admin_cancel_release"
      PROVE  holds'[call'[w].hold].status \notin {"active", "converted"}
  <2>1. Drops(w)
    BY <1>1, OneStatement, MarkedConverted DEF Arrives, Releasing
  <2> QED
    BY <2>1, HoldStatusWritten DEF Drops, HoldStatus, Inv
<1>2. ASSUME call'[w].at = "admin_cancel_sync_read"
      PROVE  holds'[call'[w].hold].status \notin {"active", "converted"}
  <2>1. AdminCancelRelease(w) /\ call'[w].hold = call[w].hold
    BY <1>2, OneStatement DEF Arrives
  <2>2. UNCHANGED holds /\ call[w].at = "admin_cancel_release"
    BY <2>1 DEF AdminCancelRelease, At, OnlyHoldBlock
  <2> QED
    BY <2>1, <2>2 DEF SyncedInv, Synced, Syncing, Ids
<1>3. call'[w].at # "admin_cancel_sync_activate"
  <2>1. ASSUME call'[w].at = "admin_cancel_sync_activate" PROVE FALSE
    <3>1. /\ call[w].at = "admin_cancel_sync_read" /\ UNCHANGED holds
          /\ call'[w].hold = call[w].hold
          /\ holds[call[w].hold].status \in {"active", "converted"}
      BY <2>1, OneStatement DEF Arrives, At, tables
    <3> QED
      BY <3>1 DEF SyncedInv, Synced, Syncing, Ids
  <2> QED
    BY <2>1
<1> QED
  BY <1>1, <1>2, <1>3 DEF Syncing

LEMMA SyncedNext ==
  ASSUME Inv, RefInv, SyncedInv, CancellationsApart, [Next]_vars
  PROVE  SyncedInv'
<1>1. CASE Outside
  <2>1. /\ Ids(holds)' = Ids(holds)
        /\ \A h \in Ids(holds) : holds'[h].status = holds[h].status
        /\ \A v \in Workers : call'[v] = call[v] \/ call'[v] = Idle
    BY <1>1, OutsideWork DEF HoldsOnlyEnd
  <2>2. 0 \notin Ids(holds)
    BY Domains DEF Inv, TablesOK
  <2> QED
    BY <2>1, <2>2 DEF SyncedInv, Synced, Idle
<1>2. ASSUME NEW w \in Workers, Begins(w) \/ Steps(w) PROVE SyncedInv'
  BY <1>2, SyncedOfOthers, SyncedOfOwn DEF SyncedInv
<1> QED
  BY <1>1, <1>2, StepKinds

LEMMA FreedNext ==
  ASSUME Inv, PlacedInv, SyncedInv, Admits, Freed, [Next]_vars,
         NoneDiesAt(Releasing) \/ UNCHANGED vars
  PROVE  Freed'
<1> SUFFICES ASSUME NEW h \in Ids(holds)', ~Live(h)', holdBlock'[h] = "active"
             PROVE  \E v \in Workers : call'[v].at \in Releasing /\ call'[v].hold = h
  BY DEF Freed
<1>1. CASE Outside
  <2>1. h \in Ids(holds) /\ ~Live(h) /\ holdBlock[h] = "active"
    BY <1>1, OutsideWork DEF HoldsOnlyEnd, Live
  <2>2. PICK v \in Workers : call[v].at \in Releasing /\ call[v].hold = h
    BY <2>1 DEF Freed
  <2>3. call'[v] = call[v]
    BY <1>1, <2>2, NotKilled
  <2> QED
    BY <2>2, <2>3
<1>2. ASSUME NEW w \in Workers, Begins(w) \/ Steps(w)
      PROVE  \E v \in Workers : call'[v].at \in Releasing /\ call'[v].hold = h
  <2>1. /\ h \in Ids(holds) /\ CalendarWork(w) /\ Acts(w) /\ HoldAfter(w, h)
        /\ BlockAfter(w, h)
    BY <1>2, OneStatement, BlocksAfter
  <2>2. CASE Live(h)
    <3>1. CASE Drops(w) /\ h = call'[w].hold
      BY <3>1 DEF Drops
    <3>2. CASE ConvertMarkHold(w) /\ h = call[w].hold
      BY <3>2, MarkedConverted DEF Releasing
    <3> QED
      BY <2>1, <2>2, <3>1, <3>2 DEF HoldAfter, Live
  <2>3. CASE ~Live(h)
    <3>1. holdBlock[h] = "active"
      <4>1. ~(h = call[w].hold /\ CreateInsertBlock(w))
        BY <2>3 DEF PlacedInv, Placed, CreateInsertBlock
      <4>2. ~(h = call[w].hold /\ Reactivates(w))
        BY <2>1 DEF SyncedInv, Synced, Reactivates
      <4> QED
        BY <2>1, <4>1, <4>2 DEF BlockAfter
    <3>2. PICK v \in Workers : call[v].at \in Releasing /\ call[v].hold = h
      BY <2>1, <2>3, <3>1 DEF Freed
    <3>3. v # w
      <4>1. CASE v = w
        <5>1. Frees(w) /\ DOMAIN holdBlock = Ids(holds)
          BY <2>1, <3>2, <4>1, OwingWork, Domains, LenProperties DEF Inv, TablesOK, Typed
        <5>2. ~ReleaseRaises(call[w].hold)
          BY DEF ReleaseRaises, Admits
        <5> QED
          BY <2>1, <3>2, <4>1, <5>1, <5>2 DEF Frees
      <4> QED
        BY <4>1
    <3> QED
      BY <2>1, <3>2, <3>3 DEF Acts, Others
  <2> QED
    BY <2>2, <2>3
<1> QED
  BY <1>1, <1>2, StepKinds

\* Between invocations a hold that is over blocks nothing, provided no handler
\* dies between ending the hold and releasing its block, the table admits
\* "released", and no administrator cancels a hold before it has its block or
\* while it is being marked converted.
THEOREM DeadHoldsAreFreed ==
  ASSUME Admits
  PROVE  Spec /\ []CancellationsApart /\ Unbroken(Releasing) => []DeadHoldFreesDates
<1>1. Init => PlacedInv /\ SyncedInv /\ Freed
  BY DEF Init, PlacedInv, Placed, SyncedInv, Synced, Freed, Ids, At, Idle
<1>2. Inv /\ RefInv /\ PlacedInv /\ SyncedInv /\ Freed /\ CancellationsApart /\ CancellationsApart'
        /\ [Next]_vars /\ [NoneDiesAt(Releasing)]_vars => PlacedInv' /\ SyncedInv' /\ Freed'
  BY PlacedNext, SyncedNext, FreedNext
<1>3. Freed => DeadHoldFreesDates
  BY DEF Freed, DeadHoldFreesDates, Quiet, Idle, Releasing
<1> QED
  BY <1>1, <1>2, <1>3, InvHolds, RefHolds, PTL DEF Spec, Unbroken

------------------------------------------------------------------------------
(* The tables implement StayInventory *)

\* Is a booking issued from the hold?
Sold(h) == \E b \in Ids(bookings) : BookingHold(b) = h

LEMMA Fates ==
  ASSUME NEW h
  PROVE  /\ Fate(h) = IF Sold(h) THEN "booked" ELSE IF Live(h) THEN "held" ELSE "free"
         /\ Fate(h)' = IF Sold(h)' THEN "booked" ELSE IF Live(h)' THEN "held" ELSE "free"
BY DEF Fate, Sold

\* What is seen of a hold: it may end without a booking, or not change.
SeenAlike(h) == (Sold(h)' <=> Sold(h)) /\ (Sold(h) \/ (Live(h)' <=> Live(h)))

LEMMA SeenUnchanged ==
  ASSUME HoldsOnlyEnd, \A h \in Ids(holds) : SeenAlike(h)
  PROVE  HeldStays' = HeldStays
<1>1. \A h \in Ids(holds) : Fate(h)' = Fate(h) /\ holds'[h].stay = holds[h].stay
  BY Fates DEF HoldsOnlyEnd, SeenAlike
<1> QED
  BY <1>1 DEF HeldStays, HoldsOnlyEnd

\* Only the fate of hold k changes.
LEMMA SeenChanged ==
  ASSUME HoldsOnlyEnd, NEW k \in Ids(holds), \A h \in Ids(holds) \ {k} : SeenAlike(h)
  PROVE  HeldStays' = [HeldStays EXCEPT ![k].now = Fate(k)']
<1>1. \A h \in Ids(holds) \ {k} : Fate(h)' = Fate(h)
  BY Fates DEF SeenAlike
<1>2. /\ Ids(holds)' = Ids(holds)
      /\ \A h \in Ids(holds) : holds'[h].stay = holds[h].stay
  BY DEF HoldsOnlyEnd
<1> DEFINE f == [HeldStays EXCEPT ![k].now = Fate(k)']
<1>3. /\ f = [h \in Ids(holds) |-> f[h]]
      /\ \A h \in Ids(holds) : f[h] = [stay |-> holds'[h].stay, now |-> Fate(h)']
  BY <1>1, <1>2 DEF HeldStays
<1>4. HeldStays' = [h \in Ids(holds) |-> [stay |-> holds'[h].stay, now |-> Fate(h)']]
  BY <1>2 DEF HeldStays
<1> QED
  BY <1>3, <1>4

LEMMA SoldKept ==
  ASSUME Inv, UNCHANGED bookings, RequestsKeepHolds
  PROVE  \A h : Sold(h)' <=> Sold(h)
BY BookingsKeepHolds DEF Sold

\* Placing a hold is Hold.
LEMMA PlacingHolds ==
  ASSUME Inv, BookingStays, CheckedInv, NEW w \in Workers, CreateInsertHold(w)
  PROVE  Inventory!Hold(call[w].stay)
<1> DEFINE s == call[w].stay
<1>1. PICK n :
        /\ n \notin Ids(holds) /\ Ids(holds)' = Ids(holds) \cup {n}
        /\ \A h \in Ids(holds) : holds'[h] = holds[h]
        /\ holds'[n].stay = s /\ holds'[n].status = "active"
        /\ UNCHANGED <<requests, bookings>>
  BY HoldPlaced
<1>2. \A h : Sold(h)' <=> Sold(h)
  BY <1>1 DEF Sold, BookingHold, HoldOf, Ids
<1>3. ~Sold(n)
  BY <1>1 DEF Inv, TablesOK, References, BookingHold, Sold
<1>4. ~Inventory!Taken(s)
  <2>1. ASSUME NEW h \in Ids(holds), Fate(h) # "free" PROVE ~Overlap(holds[h].stay, s)
    <3>1. CASE Live(h)
      BY <3>1, NewDatesFree
    <3>2. CASE Sold(h)
      BY <3>2, NewDatesFree DEF Sold, BookingStays
    <3> QED
      BY <2>1, <3>1, <3>2, Fates
  <2> QED
    BY <2>1 DEF Inventory!Taken, Inventory!Overlap, Overlap, HeldStays
<1>5. HeldStays' = Append(HeldStays, [stay |-> s, now |-> "held"])
  <2>1. \A h \in Ids(holds) : Fate(h)' = Fate(h)
    BY <1>1, <1>2, Fates DEF Live
  <2>2. Fate(n)' = "held"
    BY <1>1, <1>2, <1>3, Fates DEF Live
  <2>3. /\ Ids(holds) = 1..Len(holds) /\ Len(holds) \in Nat /\ Ids(holds)' = 1..(Len(holds) + 1)
        /\ n = Len(holds) + 1
    <3>1. holds' = Append(holds, [stay |-> call[w].stay, status |-> "active",
                                  late |-> FALSE, booking |-> 0])
      BY DEF CreateInsertHold
    <3>2. Ids(holds) = 1..Len(holds) /\ Len(holds) \in Nat /\ Ids(holds)' = 1..(Len(holds) + 1)
      BY <3>1, LenProperties DEF Inv, TablesOK, Typed, Ids
    <3> QED
      BY <1>1, <3>2
  <2>4. HeldStays' = [h \in 1..(Len(holds) + 1) |->
                        IF h = n THEN [stay |-> s, now |-> "held"]
                        ELSE [stay |-> holds[h].stay, now |-> Fate(h)]]
    BY <1>1, <2>1, <2>2, <2>3 DEF HeldStays
  <2>5. HeldStays = [h \in 1..Len(holds) |-> [stay |-> holds[h].stay, now |-> Fate(h)]]
    BY <2>3 DEF HeldStays
  <2>6. Len(HeldStays) = Len(holds)
    BY <2>3, <2>5
  <2> QED
    BY <2>3, <2>4, <2>5, <2>6
<1> QED
  BY <1>4, <1>5 DEF Inventory!Hold

\* The first booking of a live hold is Book; another one of a hold that was
\* converted changes nothing that is seen.
LEMMA BookingBooks ==
  ASSUME Inv, ConversionInv, NEW w \in Workers, Issues(w)
  PROVE  \/ HeldStays' = HeldStays
         \/ \E h \in DOMAIN HeldStays : Inventory!Book(h)
<1>0. PICK k : k = call[w].hold
  OBVIOUS
<1>1. PICK n :
        /\ Ids(bookings)' = Ids(bookings) \cup {n}
        /\ \A b \in Ids(bookings) : bookings'[b] = bookings[b] /\ BookingHold(b)' = BookingHold(b)
        /\ BookingHold(n)' = k /\ k \in Ids(holds)
  BY <1>0, BookingIssued
<1>2. UNCHANGED holds
  BY DEF Issues
<1>3. \A h \in Ids(holds) : (Live(h)' <=> Live(h)) /\ (Sold(h)' <=> Sold(h) \/ h = k)
  BY <1>1, <1>2 DEF Sold, Live
<1>4. HoldsOnlyEnd
  BY <1>2, HoldsEnding
<1>5. CASE Sold(k)
  BY <1>3, <1>4, <1>5, SeenUnchanged DEF SeenAlike
<1>6. CASE ~Sold(k)
  <2>2. Live(k)
    BY <1>0, <1>6, ConvertingLive DEF Issues, HoldRead, PastGate, Sold
  <2>3. Fate(k) = "held" /\ Fate(k)' = "booked"
    BY <1>1, <1>3, <1>6, <2>2, Fates
  <2>4. HeldStays' = [HeldStays EXCEPT ![k].now = "booked"]
    BY <1>1, <1>3, <1>4, <2>3, SeenChanged DEF SeenAlike
  <2>5. k \in DOMAIN HeldStays /\ HeldStays[k].now = "held"
    BY <1>1, <2>3 DEF HeldStays
  <2> QED
    BY <2>4, <2>5 DEF Inventory!Book
<1> QED
  BY <1>5, <1>6

\* Abandoning a live hold from which nothing was booked is Free.
LEMMA DroppingFrees ==
  ASSUME Inv, NEW w \in Workers, Drops(w)
  PROVE  \/ HeldStays' = HeldStays
         \/ \E h \in DOMAIN HeldStays : Inventory!Free(h)
<1>0. PICK k : k = call'[w].hold
  OBVIOUS
<1>1. PICK s \in {"expired", "cancelled", "rejected"} : SetHoldStatus(k, s)
  BY <1>0 DEF Drops
<1>2. /\ Ids(holds)' = Ids(holds)
      /\ \A h \in Ids(holds) : holds'[h].status = IF h = k THEN s ELSE holds[h].status
  BY <1>1, HoldStatusWritten DEF HoldStatus, Inv
<1>3. HoldsOnlyEnd /\ UNCHANGED <<requests, bookings>>
  BY HoldsEnding DEF Drops
<1>4. \A h : Sold(h)' <=> Sold(h)
  BY <1>3, HoldsOfRequestsKept, SoldKept
<1>5. \A h \in Ids(holds) \ {k} : SeenAlike(h)
  BY <1>2, <1>4 DEF SeenAlike, Live
<1>6. k \in Ids(holds) => ~Live(k)'
  BY <1>2 DEF Live
<1>7. CASE k \in Ids(holds) /\ Live(k) /\ ~Sold(k)
  <2>1. Fate(k) = "held" /\ Fate(k)' = "free"
    BY <1>4, <1>6, <1>7, Fates
  <2>2. HeldStays' = [HeldStays EXCEPT ![k].now = "free"]
    BY <1>3, <1>5, <1>7, <2>1, SeenChanged
  <2>3. k \in DOMAIN HeldStays /\ HeldStays[k].now = "held"
    BY <1>7, <2>1 DEF HeldStays
  <2> QED
    BY <2>2, <2>3 DEF Inventory!Free
<1>8. CASE ~(k \in Ids(holds) /\ Live(k) /\ ~Sold(k))
  <2>1. \A h \in Ids(holds) : SeenAlike(h)
    BY <1>4, <1>5, <1>6, <1>8 DEF SeenAlike
  <2> QED
    BY <1>3, <2>1, SeenUnchanged
<1> QED
  BY <1>7, <1>8

\* A hold is marked converted when it is booked already.
LEMMA MarkingUnseen ==
  ASSUME Inv, NEW w \in Workers, ConvertMarkHold(w)
  PROVE  HeldStays' = HeldStays
<1> DEFINE k == call[w].hold
<1>1. /\ k \in Ids(holds) /\ k = HoldOf(call[w].request)
      /\ call[w].booking \in Ids(bookings) /\ bookings[call[w].booking].request = call[w].request
  <2>1. call[w].at \in Marking
    BY DEF ConvertMarkHold, At, Marking
  <2>2. call[w].at \in HoldRead
    BY <2>1 DEF HoldRead
  <2> QED
    BY <2>1, <2>2, ConvertingHold DEF Inv, CallsOK, KnowsNow, Knows, Ids
<1>2. Sold(k)
  BY <1>1 DEF Sold, BookingHold
<1>3. HoldsOnlyEnd /\ UNCHANGED <<requests, bookings>>
  BY HoldsEnding DEF ConvertMarkHold, OnlyHolds
<1>4. \A h : Sold(h)' <=> Sold(h)
  BY <1>3, HoldsOfRequestsKept, SoldKept
<1>5. \A h \in Ids(holds) : h = k \/ holds'[h] = holds[h]
  BY DEF ConvertMarkHold, Ids
<1> HIDE DEF k
<1>6. \A h \in Ids(holds) : SeenAlike(h)
  BY <1>2, <1>4, <1>5 DEF SeenAlike, Live
<1> QED
  BY <1>3, <1>6, SeenUnchanged

LEMMA SeenStutters ==
  ASSUME Inv, HoldsOnlyEnd, RequestsKeepHolds, UNCHANGED bookings,
         \A h \in Ids(holds) : holds'[h].status = holds[h].status
  PROVE  HeldStays' = HeldStays
BY SoldKept, SeenUnchanged DEF SeenAlike, Live

LEMMA InventoryStep ==
  ASSUME Inv, DatesInv, [Next]_vars
  PROVE  [Inventory!Next]_HeldStays
<1>0. CheckedInv /\ ConversionInv /\ BookingStays
  BY DEF DatesInv, BlocksInv
<1>1. ASSUME NEW w \in Workers, Begins(w) \/ Steps(w)
      PROVE  [Inventory!Next]_HeldStays
  <2>1. CalendarWork(w) /\ RequestsKeepHolds
    BY <1>1, OneStatement
  <2>2. CASE CreateInsertHold(w)
    <3>1. Inventory!Hold(call[w].stay)
      BY <1>0, <2>2, PlacingHolds
    <3>2. call[w].stay \in Stays
      BY <2>2, HoldPlaced
    <3> QED
      BY <3>1, <3>2 DEF Inventory!Next
  <2>3. CASE Issues(w)
    BY <1>0, <2>3, BookingBooks DEF Inventory!Next
  <2>4. CASE Drops(w)
    BY <2>4, DroppingFrees DEF Inventory!Next
  <2>5. CASE ConvertMarkHold(w)
    BY <2>5, MarkingUnseen
  <2>6. CASE Passes(w) \/ Frees(w) \/ Reactivates(w) \/ CreateInsertBlock(w) \/ ConvertSyncBlock(w)
    <3>1. UNCHANGED <<holds, bookings>>
      BY <2>6 DEF Passes, Frees, Reactivates, CreateInsertBlock, ConvertSyncBlock, OnlyHoldBlock
    <3> QED
      BY <2>1, <3>1, HoldsEnding, SeenStutters
  <2> QED
    BY <2>1, <2>2, <2>3, <2>4, <2>5, <2>6 DEF CalendarWork
<1>2. CASE Outside
  BY <1>2, OutsideWork, SeenStutters
<1> QED
  BY <1>1, <1>2, StepKinds

\* Under the premises that keep held dates exclusive, six tables written by some
\* sixty statements are seen from outside as StayInventory: nights are held only
\* if nobody holds or has booked them, and held nights are booked or given back,
\* for good.
THEOREM TablesImplementInventory ==
  Spec /\ []DatesApart /\ Unbroken({"create_insert_block"}) => InventorySpec
<1>1. Init => Inventory!Init
  BY DEF Init, Inventory!Init, HeldStays, Ids
<1>2. Inv /\ DatesInv /\ [Next]_vars => [Inventory!Next]_HeldStays
  BY InventoryStep
<1> QED
  BY <1>1, <1>2, InvHolds, DatesHold, PTL
  DEF Spec, InventorySpec, Inventory!Spec

------------------------------------------------------------------------------
(* Invocations that do not overlap *)

TakingTurns == \A v, w \in Workers : call[v].at # "idle" /\ call[w].at # "idle" => v = w

\* While no two invocations overlap, every premise above about overlaps is met.
LEMMA TurnsSuffice ==
  ASSUME TakingTurns
  PROVE  /\ PaymentsApart /\ OpeningsApart /\ MarksApart
         /\ DatesApart /\ CancellationsApart
<1> USE DEF TakingTurns, At
<1>1. PaymentsApart
  BY DEF PaymentsApart, Overwriting
<1>2. OpeningsApart
  BY DEF OpeningsApart, Opening
<1>3. MarksApart
  BY DEF MarksApart, HoldsToExpire, RequestsToExpire, Lapsing, Sweeping
<1>4. ConversionsApart
  BY DEF ConversionsApart, HoldRead, PastGate, Marking, Ending, EndingOne, Lapsing
<1>5. CreationsApart
  BY DEF CreationsApart
<1>6. ChecksApart
  BY DEF ChecksApart
<1>7. CancellationsApart
  BY DEF CancellationsApart, Syncing
<1> QED
  BY <1>1, <1>2, <1>3, <1>4, <1>5, <1>6, <1>7 DEF DatesApart
==============================================================================
