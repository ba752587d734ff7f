--------------------------- MODULE DirectBookingDb ---------------------------
(***************************************************************************)
(* The tables behind the direct-booking feature, the rows in them, and the *)
(* single SQL statements the request handlers are built from.              *)
(*                                                                         *)
(* No handler of src/features/direct-booking opens a transaction: every    *)
(* awaited statement commits on its own.  A handler in flight is therefore *)
(* a record in `call' holding the step it will run next and what it has    *)
(* read so far; the handler modules define one action per statement.       *)
(*                                                                         *)
(* A table is the sequence of its rows in creation order, a row is named   *)
(* by its position, and position 0 stands for NULL in a reference.         *)
(***************************************************************************)
EXTENDS Naturals, Sequences, FiniteSets

CONSTANTS
  Workers,        \* concurrent server invocations (requests, actions, jobs)
  Stays,          \* the [in, out) date windows a guest may ask for
  Endpoints,      \* the entry points exercised
  BlockStatuses,  \* statuses villa_calendar_blocks_status_check admits
  MaxHolds, MaxRequests, MaxDeposits, MaxBookings,   \* bounds on the tables
  MaxCrashes      \* bound on invocations that die half-way

ASSUME StaysAssumption ==
  Stays \subseteq [in : Nat, out : Nat] /\ \A s \in Stays : s.in < s.out

ASSUME BoundsAssumption ==
  {MaxHolds, MaxRequests, MaxDeposits, MaxBookings, MaxCrashes} \subseteq Nat

VARIABLES
  holds,          \* direct_booking_holds
  holdBlock,      \* per hold, the status of its internal_hold calendar block
  requests,       \* direct_booking_requests
  deposits,       \* direct_booking_deposits
  bookings,       \* bookings issued by this feature
  bookingBlock,   \* per booking, the status of its guest_booking block
  call,           \* what each worker is doing
  crashes         \* how many invocations have died so far

tables == <<holds, holdBlock, requests, deposits, bookings, bookingBlock>>
vars   == <<tables, call, crashes>>

------------------------------------------------------------------------------
(* Rows *)

HoldStatus    == {"active", "converted", "expired", "cancelled", "rejected"}
RequestStatus == {"submitted", "under_review", "approved", "rejected",
                  "expired", "cancelled", "converted"}
DepositStatus == {"draft", "pending", "requires_action", "paid", "failed",
                  "expired", "cancelled", "refunded", "manually_marked_paid"}
BookingStatus == {"tentative", "confirmed"}
BlockState    == {"absent", "active", "released"}

PaidStatuses  == {"paid", "manually_marked_paid"}

\* `late': the row's expires_at lies in the past.
HoldRow    == [stay : Stays, status : HoldStatus, late : BOOLEAN, booking : Nat]
RequestRow == [hold : Nat, status : RequestStatus, booking : Nat]
\* `open': a provider session, hence an expires_at, was stored.
\* `paidAt': the paid_at column is not NULL.
DepositRow == [request : Nat, status : DepositStatus, open : BOOLEAN,
               late : BOOLEAN, paidAt : BOOLEAN]
\* `suffixed': booking_code carries the random suffix of pickUniqueBookingCode.
BookingRow == [request : Nat, stay : Stays, status : BookingStatus,
               suffixed : BOOLEAN]

------------------------------------------------------------------------------
(* Handlers in flight *)

NoStay == [in |-> 0, out |-> 0]

Idle == [at |-> "idle", mode |-> "none", stay |-> NoStay, suffixed |-> FALSE,
         hold |-> 0, request |-> 0, deposit |-> 0, booking |-> 0,
         todo |-> {}, linked |-> {}]

At(w, step)    == call[w].at = step
Begin(w, c)    == call[w] = Idle /\ call' = [call EXCEPT ![w] = c]
Goto(w, step)  == call' = [call EXCEPT ![w].at = step]
Continue(w, c) == call' = [call EXCEPT ![w] = c]
Return(w)      == call' = [call EXCEPT ![w] = Idle]

\* Bounds, not code.  A handler starts only if its table has room for one
\* more row, counting the rows that handlers in flight are about to insert.
AtOneOf(steps)    == {w \in Workers : call[w].at \in steps}
InsertingHold     == AtOneOf({"create_check_blocks", "create_insert_hold"})
InsertingRequest  == AtOneOf({"submit_insert_request"})
                       \cup {w \in Workers : call[w].mode = "operator"}
InsertingDeposit  == AtOneOf({"submit_insert_request", "ensure_read", "ensure_insert",
                              "recreate_read_deposit", "recreate_cancel"})
InsertingBooking  == AtOneOf({"convert_read_hold", "convert_read_deposit",
                              "convert_pick_code", "convert_insert_booking"})
Room(table, max, inserting) == Len(table) + Cardinality(inserting) < max

------------------------------------------------------------------------------
(* Statements *)

Ids(table) == DOMAIN table

SetHoldStatus(h, s)    == holds'    = [holds    EXCEPT ![h].status = s]
SetRequestStatus(r, s) == requests' = [requests EXCEPT ![r].status = s]
SetDepositStatus(d, s) == deposits' = [deposits EXCEPT ![d].status = s]

\* getDepositForRequest: the most recently created deposit of the request.
LatestDeposit(r) ==
  LET mine == {d \in Ids(deposits) : deposits[d].request = r}
  IN  IF mine = {} THEN 0 ELSE CHOOSE d \in mine : \A e \in mine : e <= d

HoldOf(r) == requests[r].hold

\* The guest holds the hold's token: handleCreateHold answers after its last
\* insert, the calendar block, and a block row is never deleted.
TokenIssued(h) == holdBlock[h] # "absent"

\* The UPDATE of releaseInternalHoldBlockForDirectHold skips rows that are
\* already 'released'; on any other row it writes a status the table's CHECK
\* must admit, else the statement raises.
ReleaseRaises(h) == holdBlock[h] = "active" /\ "released" \notin BlockStatuses

\* Run that statement and, unless it raised, carry on as call record c.
ReleaseThen(w, h, c) ==
  IF ReleaseRaises(h)
  THEN Return(w) /\ UNCHANGED holdBlock
  ELSE /\ Continue(w, c)
       /\ holdBlock' = [holdBlock EXCEPT ![h] = IF @ = "active" THEN "released" ELSE @]

\* createInternalHoldBlockForDirectHold: insert, or set active again.
ActivateHoldBlock(h) == holdBlock' = [holdBlock EXCEPT ![h] = "active"]

\* What a step that writes one table, or none, leaves alone.
NoTables      == UNCHANGED <<tables, crashes>>
OnlyHolds     == UNCHANGED <<holdBlock, requests, deposits, bookings, bookingBlock, crashes>>
OnlyHoldBlock == UNCHANGED <<holds, requests, deposits, bookings, bookingBlock, crashes>>
OnlyRequests  == UNCHANGED <<holds, holdBlock, deposits, bookings, bookingBlock, crashes>>
OnlyDeposits  == UNCHANGED <<holds, holdBlock, requests, bookings, bookingBlock, crashes>>

InsertRequest(h) ==
  requests' = Append(requests, [hold |-> h, status |-> "submitted", booking |-> 0])

==============================================================================
