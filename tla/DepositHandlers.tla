--------------------------- MODULE DepositHandlers ---------------------------
(***************************************************************************)
(* The deposit of a request: opening it with the payment provider          *)
(* (features/direct-booking/deposits.ts) and the decisions staff take on   *)
(* it (deposit-actions.ts).  Each decision reads the row, checks its       *)
(* status, and in a second statement writes the new one.                   *)
(***************************************************************************)
EXTENDS DirectBookingDb

------------------------------------------------------------------------------
(* Slips these handlers could plausibly contain; none is part of the       *)
(* specification.  They show that the properties would notice.             *)

\* The deposit is stored under the id of the hold.
EnsureInsertUnderHold(w) ==
  /\ At(w, "ensure_insert")
  /\ deposits' = Append(deposits, [request |-> call[w].hold, status |-> "pending",
                                   open |-> FALSE, late |-> FALSE, paidAt |-> FALSE])
  /\ Continue(w, [call[w] EXCEPT !.at = "ensure_session", !.deposit = Len(deposits) + 1])
  /\ OnlyDeposits

\* Any deposit that is not settled is taken for an absent one, and recreating
\* leaves an open session alone.
RecreateReadDepositLeavesOpen(w) ==
  /\ At(w, "recreate_read_deposit")
  /\ Goto(w, "ensure_insert")
  /\ NoTables

\* Cancelling does not look whether the deposit is paid.
CancelDepositReadAny(w, d) ==
  /\ "cancel_deposit" \in Endpoints
  /\ Begin(w, [Idle EXCEPT !.at = "cancel_deposit_write", !.deposit = d])
  /\ NoTables

SettledStatuses == PaidStatuses \cup {"refunded"}

------------------------------------------------------------------------------
(* ensureDepositForRequest *)

EnsureRead(w) ==
  /\ At(w, "ensure_read")
  /\ LET d == LatestDeposit(call[w].request) IN
     IF d # 0 /\ deposits[d].status \notin {"cancelled", "failed"}
     THEN Return(w) ELSE Goto(w, "ensure_insert")
  /\ NoTables

EnsureInsert(w) ==
  /\ At(w, "ensure_insert")
  /\ deposits' = Append(deposits, [request |-> call[w].request, status |-> "pending",
                                   open |-> FALSE, late |-> FALSE, paidAt |-> FALSE])
  /\ Continue(w, [call[w] EXCEPT !.at = "ensure_session", !.deposit = Len(deposits) + 1])
  /\ OnlyDeposits

\* The provider opened a session: its url and expires_at are stored, and the
\* status is written once more, whatever it has become.
EnsureStoreSession(w) ==
  /\ At(w, "ensure_session")
  /\ deposits' = [deposits EXCEPT ![call[w].deposit].status = "pending",
                                  ![call[w].deposit].open   = TRUE]
  /\ Return(w)
  /\ OnlyDeposits

\* The provider refused.
EnsureSessionFailed(w) ==
  /\ At(w, "ensure_session")
  /\ "provider_failure" \in Endpoints
  /\ SetDepositStatus(call[w].deposit, "failed")
  /\ Return(w)
  /\ OnlyDeposits

------------------------------------------------------------------------------
(* createOrRecreateDepositSessionAction *)

RecreateReadRequest(w, r) ==
  /\ "recreate" \in Endpoints
  /\ Room(deposits, MaxDeposits, InsertingDeposit)
  /\ Begin(w, [Idle EXCEPT !.at = "recreate_read_deposit", !.request = r])
  /\ NoTables

RecreateReadDeposit(w) ==
  /\ At(w, "recreate_read_deposit")
  /\ LET d == LatestDeposit(call[w].request) IN
     IF d # 0 /\ deposits[d].status \notin SettledStatuses
     THEN Continue(w, [call[w] EXCEPT !.at = "recreate_cancel", !.deposit = d])
     ELSE Goto(w, "ensure_read")
  /\ NoTables

RecreateCancel(w) ==
  /\ At(w, "recreate_cancel")
  /\ SetDepositStatus(call[w].deposit, "cancelled")
  /\ Goto(w, "ensure_read")
  /\ OnlyDeposits

------------------------------------------------------------------------------
(* markDepositManuallyPaidAction, markDepositFailedAction,                 *)
(* cancelDepositAction, refundDepositPlaceholderAction                     *)

Decide(w, d, endpoint, step) ==
  /\ endpoint \in Endpoints
  /\ Begin(w, [Idle EXCEPT !.at = step, !.deposit = d])
  /\ NoTables

MarkPaidRead(w, d) ==
  deposits[d].status \notin PaidStatuses /\ Decide(w, d, "mark_paid", "mark_paid_write")
MarkFailedRead(w, d) ==
  deposits[d].status \notin PaidStatuses /\ Decide(w, d, "mark_failed", "mark_failed_write")
CancelDepositRead(w, d) ==
  deposits[d].status \notin PaidStatuses /\ Decide(w, d, "cancel_deposit", "cancel_deposit_write")
RefundRead(w, d) ==
  deposits[d].status \in PaidStatuses /\ Decide(w, d, "refund", "refund_write")

MarkPaidWrite(w) ==
  /\ At(w, "mark_paid_write")
  /\ deposits' = [deposits EXCEPT ![call[w].deposit].status = "manually_marked_paid",
                                  ![call[w].deposit].paidAt = TRUE]
  /\ Return(w)
  /\ OnlyDeposits

MarkFailedWrite(w) ==
  /\ At(w, "mark_failed_write")
  /\ SetDepositStatus(call[w].deposit, "failed")
  /\ Return(w)
  /\ OnlyDeposits

CancelDepositWrite(w) ==
  /\ At(w, "cancel_deposit_write")
  /\ SetDepositStatus(call[w].deposit, "cancelled")
  /\ Return(w)
  /\ OnlyDeposits

RefundWrite(w) ==
  /\ At(w, "refund_write")
  /\ SetDepositStatus(call[w].deposit, "refunded")
  /\ Return(w)
  /\ OnlyDeposits

------------------------------------------------------------------------------
(* The clock passes a session's expires_at.  A session outlives a hold (24 *)
(* hours against 15 minutes), so the hold's deadline passes first.  Only   *)
(* reads of a pending deposit ask for it.                                  *)
DepositDeadlinePasses(d) ==
  /\ "sweep_deposits" \in Endpoints
  /\ deposits[d].open /\ ~deposits[d].late /\ deposits[d].status = "pending"
  /\ LET h == HoldOf(deposits[d].request) IN holds[h].status = "active" => holds[h].late
  /\ deposits' = [deposits EXCEPT ![d].late = TRUE]
  /\ OnlyDeposits /\ UNCHANGED call

DepositBegins(w) ==
  \/ \E r \in Ids(requests) : RecreateReadRequest(w, r)
  \/ \E d \in Ids(deposits) : \/ MarkPaidRead(w, d) \/ MarkFailedRead(w, d)
                              \/ CancelDepositRead(w, d) \/ RefundRead(w, d)

DepositSteps(w) ==
  \/ EnsureRead(w) \/ EnsureInsert(w) \/ EnsureStoreSession(w) \/ EnsureSessionFailed(w)
  \/ RecreateReadDeposit(w) \/ RecreateCancel(w)
  \/ MarkPaidWrite(w) \/ MarkFailedWrite(w) \/ CancelDepositWrite(w) \/ RefundWrite(w)

==============================================================================
