------------------------- MODULE DirectBookingProofs -------------------------
(***************************************************************************)
(* What the handlers keep in every interleaving, wherever they die, for    *)
(* any set of workers, stays and endpoints, any statuses of the calendar   *)
(* table and any size of the tables.                                       *)
(*                                                                         *)
(* The three invariants proved (types, the deposit gate and the conversion *)
(* links) rest on one strengthening: what each handler in flight has read  *)
(* (Knows) still holds when it acts on it, because of what no statement    *)
(* ever changes (RowsKept): a row, the request and the paid_at of a        *)
(* deposit, the hold of a request, the stay of a hold, a whole booking.    *)
(***************************************************************************)
EXTENDS DirectBooking, SequenceTheorems, FiniteSetTheorems, TLAPS

------------------------------------------------------------------------------
(* The inductive invariant *)

\* The steps at which a handler relies on a row it read or wrote.
OnHold     == {"create_insert_block", "create_insert_request", "submit_insert_request"}
OnStay     == {"create_check_blocks", "create_insert_hold"}
OnDeposit  == {"ensure_read", "ensure_insert", "recreate_read_deposit", "recreate_cancel"}
PastGate   == {"convert_pick_code", "convert_insert_booking"}
Marking    == {"convert_mark_request", "convert_mark_hold"}
HoldRead   == {"convert_read_deposit"} \cup PastGate \cup Marking
Converting == {"convert_read_hold"} \cup HoldRead

PaidIn(r, ds) == \E d \in DOMAIN ds : ds[d].request = r /\ ds[d].paidAt

\* What a handler with call record c may take for granted about the holds hs,
\* requests rs, deposits ds and bookings bs.
Knows(c, hs, rs, ds, bs) ==
  /\ c.at \in OnHold => c.hold \in DOMAIN hs
  /\ c.at \in OnStay => c.stay \in Stays
  /\ c.at \in OnDeposit => c.request \in DOMAIN rs
  /\ c.at = "expire_write" => c.deposit \in DOMAIN ds
  /\ c.at \in Converting => c.request \in DOMAIN rs /\ c.mode \in BookingStatus
  /\ c.at \in HoldRead => c.hold = rs[c.request].hold /\ c.stay = hs[c.hold].stay
  /\ c.at \in PastGate /\ c.mode = "confirmed" => PaidIn(c.request, ds)
  /\ c.at \in Marking => /\ c.booking \in DOMAIN bs
                         /\ bs[c.booking].request = c.request
                         /\ bs[c.booking].stay = c.stay
  /\ c.at = "convert_mark_hold" => rs[c.request].booking # 0

KnowsNow(c)  == Knows(c, holds, requests, deposits, bookings)
KnowsNext(c) == Knows(c, holds', requests', deposits', bookings')

Typed ==
  /\ holds \in Seq(HoldRow) /\ holdBlock \in Seq(BlockState)
  /\ requests \in Seq(RequestRow) /\ deposits \in Seq(DepositRow)
  /\ bookings \in Seq(BookingRow) /\ bookingBlock \in Seq(BlockState)
  /\ Len(holdBlock) = Len(holds) /\ Len(bookingBlock) = Len(bookings)

References ==
  /\ \A r \in Ids(requests) : HoldOf(r) \in Ids(holds)
  /\ \A d \in Ids(deposits) : deposits[d].request \in Ids(requests)
  /\ \A b \in Ids(bookings) : bookings[b].request \in Ids(requests)

PaidHasPaidAt == \A d \in Ids(deposits) : deposits[d].status \in PaidStatuses => deposits[d].paidAt

TablesOK ==
  Typed /\ References /\ PaidHasPaidAt /\ ConfirmedBookingHasPaidDeposit /\ ConversionLinks
CallsOK  == call \in [Workers -> CallRecord] /\ \A w \in Workers : KnowsNow(call[w])
Inv      == TablesOK /\ CallsOK /\ crashes \in Nat

\* What no statement changes.
RowsKept ==
  /\ \A h \in Ids(holds) : h \in Ids(holds') /\ holds'[h].stay = holds[h].stay
  /\ \A r \in Ids(requests) : /\ r \in Ids(requests') /\ requests'[r].hold = requests[r].hold
                              /\ requests[r].booking # 0 => requests'[r].booking # 0
  /\ \A d \in Ids(deposits) : /\ d \in Ids(deposits') /\ deposits'[d].request = deposits[d].request
                              /\ deposits[d].paidAt => deposits'[d].paidAt
  /\ \A b \in Ids(bookings) : b \in Ids(bookings') /\ bookings'[b] = bookings[b]

------------------------------------------------------------------------------
(* Sequences and numbers *)

\* An UPDATE by id keeps the table a table, also when no row has the id.
LEMMA RowWrite ==
  ASSUME NEW S, NEW t \in Seq(S), NEW i, NEW e, i \in DOMAIN t => e \in S
  PROVE  /\ [t EXCEPT ![i] = e] \in Seq(S)
         /\ Len([t EXCEPT ![i] = e]) = Len(t)
         /\ \A j \in 1..Len(t) : [t EXCEPT ![i] = e][j] = IF j = i THEN e ELSE t[j]
<1>1. t \in [1..Len(t) -> S] /\ DOMAIN t = 1..Len(t)
  BY LenProperties
<1>2. CASE i \in 1..Len(t)
  BY <1>1, <1>2, ExceptSeq
<1>3. CASE i \notin 1..Len(t)
  <2>1. [t EXCEPT ![i] = e] = t
    BY <1>1, <1>3
  <2> QED
    BY <2>1, <1>1, <1>3
<1> QED
  BY <1>2, <1>3

\* A nonempty set of numbers up to n has a greatest element.
LEMMA GreatestExists ==
  ASSUME NEW n \in Nat, NEW S \in SUBSET (0..n), S # {}
  PROVE  \E m \in S : \A k \in S : k <= m
<1> DEFINE T == {k..n : k \in S}
<1>1. T \subseteq FiniteSubsetsOf(Nat)
  <2>1. ASSUME NEW k \in S PROVE k..n \in SUBSET Nat /\ IsFiniteSet(k..n)
    BY FS_Interval
  <2> QED
    BY <2>1 DEF FiniteSubsetsOf
<1>2. T # {}
  OBVIOUS
<1>3. PICK x \in T : \A y \in T : <<y, x>> \notin StrictSubsetOrdering(Nat)
  <2> HIDE DEF T
  <2> QED
    BY <1>1, <1>2, FS_StrictSubsetOrderingWellFounded, WFMin
<1>4. PICK m \in S : x = m..n
  OBVIOUS
<1>5. ASSUME NEW k \in S, m < k PROVE FALSE
  <2>1. <<k..n, m..n>> \in StrictSubsetOrdering(Nat)
    BY <1>5 DEF StrictSubsetOrdering
  <2> QED
    BY <2>1, <1>3, <1>4
<1> QED
  BY <1>5

\* getDepositForRequest returns a deposit of the request, or none.
LEMMA LatestDepositIsOwn ==
  ASSUME deposits \in Seq(DepositRow), NEW r
  PROVE  /\ LatestDeposit(r) \in Nat
         /\ LatestDeposit(r) # 0 => /\ LatestDeposit(r) \in Ids(deposits)
                                    /\ deposits[LatestDeposit(r)].request = r
<1> DEFINE mine == {d \in Ids(deposits) : deposits[d].request = r}
<1>1. Len(deposits) \in Nat /\ DOMAIN deposits = 1..Len(deposits)
  BY LenProperties
<1>2. CASE mine = {}
  BY <1>2 DEF LatestDeposit
<1>3. CASE mine # {}
  <2>1. mine \in SUBSET (0..Len(deposits))
    BY <1>1 DEF Ids
  <2>2. \E m \in mine : \A k \in mine : k <= m
    BY <1>1, <1>3, <2>1, GreatestExists
  <2>3. LatestDeposit(r) \in mine
    BY <1>3, <2>2 DEF LatestDeposit
  <2> QED
    BY <1>1, <2>3 DEF Ids
<1> QED
  BY <1>2, <1>3

------------------------------------------------------------------------------
(* Handlers in flight *)

LEMMA IdleKnows ==
  /\ Idle \in CallRecord
  /\ \A hs, rs, ds, bs : Knows(Idle, hs, rs, ds, bs)
<1>1. Idle \in CallRecord
  BY DEF Idle, CallRecord, Step
<1>2. Idle.at = "idle"
  BY DEF Idle
<1>3. \A hs, rs, ds, bs : Knows(Idle, hs, rs, ds, bs)
  BY <1>2 DEF Knows, OnHold, OnStay, OnDeposit, PastGate, Marking, HoldRead, Converting
<1> QED
  BY <1>1, <1>3

\* What a handler knows outlasts any step of the others.
LEMMA KnowledgeLasts ==
  ASSUME TablesOK, TablesOK', RowsKept, NEW c \in CallRecord, KnowsNow(c)
  PROVE  KnowsNext(c)
<1> USE DEF Ids, OnHold, OnStay, OnDeposit, PastGate, Marking, HoldRead, Converting
<1>1. /\ c.at \in OnHold => c.hold \in DOMAIN holds'
      /\ c.at \in OnStay => c.stay \in Stays
      /\ c.at \in OnDeposit => c.request \in DOMAIN requests'
      /\ c.at = "expire_write" => c.deposit \in DOMAIN deposits'
      /\ c.at \in Converting => c.request \in DOMAIN requests' /\ c.mode \in BookingStatus
  BY DEF KnowsNow, Knows, RowsKept
<1>2. ASSUME c.at \in HoldRead
      PROVE  c.hold = requests'[c.request].hold /\ c.stay = holds'[c.hold].stay
  <2>1. c.request \in DOMAIN requests /\ c.hold = requests[c.request].hold
        /\ c.stay = holds[c.hold].stay
    BY <1>2 DEF KnowsNow, Knows
  <2>2. c.hold \in DOMAIN holds
    BY <2>1 DEF TablesOK, References, HoldOf
  <2> QED
    BY <2>1, <2>2 DEF RowsKept
<1>3. ASSUME c.at \in PastGate, c.mode = "confirmed" PROVE PaidIn(c.request, deposits')
  <2>1. PICK d \in DOMAIN deposits : deposits[d].request = c.request /\ deposits[d].paidAt
    BY <1>3 DEF KnowsNow, Knows, PaidIn
  <2> QED
    BY <2>1 DEF RowsKept, PaidIn
<1>4. ASSUME c.at \in Marking
      PROVE  /\ c.booking \in DOMAIN bookings'
             /\ bookings'[c.booking].request = c.request
             /\ bookings'[c.booking].stay = c.stay
  BY <1>4 DEF KnowsNow, Knows, RowsKept
<1>5. c.at = "convert_mark_hold" => requests'[c.request].booking # 0
  BY DEF KnowsNow, Knows, RowsKept
<1> QED
  BY <1>1, <1>2, <1>3, <1>4, <1>5 DEF KnowsNext, Knows

LEMMA CallStep ==
  ASSUME TablesOK, TablesOK', RowsKept, CallsOK,
         NEW w \in Workers, NEW c \in CallRecord, KnowsNext(c),
         call' = [call EXCEPT ![w] = c]
  PROVE  CallsOK'
<1>1. call' \in [Workers -> CallRecord]
  BY DEF CallsOK
<1>2. ASSUME NEW v \in Workers PROVE KnowsNext(call'[v])
  <2>1. CASE v = w
    BY <2>1 DEF CallsOK
  <2>2. CASE v # w
    <3>1. call'[v] = call[v] /\ call[v] \in CallRecord /\ KnowsNow(call[v])
      BY <2>2 DEF CallsOK
    <3> QED
      BY <3>1, KnowledgeLasts
  <2> QED
    BY <2>1, <2>2
<1> QED
  BY <1>1, <1>2 DEF CallsOK, KnowsNow, KnowsNext

LEMMA CallsStay ==
  ASSUME TablesOK, TablesOK', RowsKept, CallsOK, UNCHANGED call
  PROVE  CallsOK'
<1>1. ASSUME NEW v \in Workers PROVE KnowsNext(call[v])
  BY KnowledgeLasts DEF CallsOK
<1> QED
  BY <1>1 DEF CallsOK, KnowsNow, KnowsNext

LEMMA ReturnStep ==
  ASSUME TablesOK, TablesOK', RowsKept, CallsOK, NEW w \in Workers, Return(w)
  PROVE  CallsOK'
<1>1. Idle \in CallRecord /\ KnowsNext(Idle)
  BY IdleKnows DEF KnowsNext
<1> QED
  BY <1>1, CallStep DEF Return

\* The steps at which a handler takes something for granted.
Relying == OnHold \cup OnStay \cup OnDeposit \cup {"expire_write"} \cup Converting

LEMMA NothingToKnow ==
  ASSUME NEW c, c.at \notin Relying
  PROVE  KnowsNext(c)
  BY DEF KnowsNext, Knows, Relying, OnHold, OnStay, OnDeposit, PastGate, Marking, HoldRead,
         Converting

LEMMA GotoStep ==
  ASSUME TablesOK, TablesOK', RowsKept, CallsOK, NEW w \in Workers,
         NEW step \in Step \ Relying, Goto(w, step)
  PROVE  CallsOK'
<1> DEFINE c == [call[w] EXCEPT !.at = step]
<1>1. call[w] \in CallRecord
  BY DEF CallsOK
<1>2. c \in CallRecord /\ c.at = step
  BY <1>1 DEF CallRecord
<1>3. call' = [call EXCEPT ![w] = c]
  BY DEF Goto
<1> HIDE DEF c
<1>4. KnowsNext(c)
  BY <1>2, NothingToKnow
<1> QED
  BY <1>2, <1>3, <1>4, CallStep

------------------------------------------------------------------------------
(* Statements *)

\* Tables as functions on 1..Len.
LEMMA Domains ==
  ASSUME Typed
  PROVE  /\ Ids(holds) = 1..Len(holds) /\ Len(holds) \in Nat
         /\ Ids(requests) = 1..Len(requests) /\ Len(requests) \in Nat
         /\ Ids(deposits) = 1..Len(deposits) /\ Len(deposits) \in Nat
         /\ Ids(bookings) = 1..Len(bookings) /\ Len(bookings) \in Nat
         /\ \A h \in Ids(holds) : holds[h] \in HoldRow
         /\ \A r \in Ids(requests) : requests[r] \in RequestRow
         /\ \A d \in Ids(deposits) : deposits[d] \in DepositRow
         /\ \A b \in Ids(bookings) : bookings[b] \in BookingRow
  BY LenProperties DEF Typed, Ids

LEMMA NoTableStep ==
  ASSUME TablesOK, UNCHANGED tables
  PROVE  TablesOK' /\ RowsKept
<1>1. RowsKept
  BY DEF RowsKept, tables
<1>2. TablesOK'
  BY DEF tables, TablesOK, Typed, References, HoldOf, PaidHasPaidAt, Ids,
         ConfirmedBookingHasPaidDeposit, ConversionLinks
<1> QED
  BY <1>1, <1>2

\* Blocks: nothing but the calendar reads them.
LEMMA HoldBlockStep ==
  ASSUME TablesOK, OnlyHoldBlock, NEW h, NEW s,
         h \in DOMAIN holdBlock => s \in BlockState,
         holdBlock' = [holdBlock EXCEPT ![h] = s]
  PROVE  TablesOK' /\ RowsKept
<1>1. holdBlock' \in Seq(BlockState) /\ Len(holdBlock') = Len(holdBlock)
  BY RowWrite DEF TablesOK, Typed
<1>2. RowsKept
  BY DEF RowsKept, OnlyHoldBlock
<1>3. TablesOK'
  BY <1>1 DEF OnlyHoldBlock, TablesOK, Typed, References, HoldOf, PaidHasPaidAt, Ids,
              ConfirmedBookingHasPaidDeposit, ConversionLinks
<1> QED
  BY <1>2, <1>3

LEMMA ReleaseStep ==
  ASSUME TablesOK, CallsOK, NEW w \in Workers, NEW h, NEW c \in CallRecord,
         c.at \notin Relying, ReleaseThen(w, h, c), OnlyHoldBlock
  PROVE  TablesOK' /\ CallsOK'
<1>1. KnowsNext(c)
  BY NothingToKnow
<1>2. CASE ReleaseRaises(h)
  <2>1. Return(w) /\ UNCHANGED tables
    BY <1>2 DEF ReleaseThen, OnlyHoldBlock, tables
  <2>2. TablesOK' /\ RowsKept
    BY <2>1, NoTableStep
  <2> QED
    BY <2>1, <2>2, ReturnStep
<1>3. CASE ~ReleaseRaises(h)
  <2> DEFINE s == IF holdBlock[h] = "active" THEN "released" ELSE holdBlock[h]
  <2>1. call' = [call EXCEPT ![w] = c] /\ holdBlock' = [holdBlock EXCEPT ![h] = s]
    BY <1>3 DEF ReleaseThen, Continue
  <2>2. h \in DOMAIN holdBlock => s \in BlockState
    <3>1. \A i \in DOMAIN holdBlock : holdBlock[i] \in BlockState
      BY LenProperties DEF TablesOK, Typed
    <3> QED
      BY <3>1 DEF BlockState
  <2> HIDE DEF s
  <2>3. TablesOK' /\ RowsKept
    BY <2>1, <2>2, HoldBlockStep
  <2> QED
    BY <1>1, <2>1, <2>3, CallStep
<1> QED
  BY <1>2, <1>3

\* An UPDATE of holds that touches neither stay nor booking, and converts none.
LEMMA HoldsStep ==
  ASSUME TablesOK, OnlyHolds, holds' \in Seq(HoldRow), Len(holds') = Len(holds),
         \A h \in 1..Len(holds) : /\ holds'[h].stay = holds[h].stay
                                  /\ holds'[h].booking = holds[h].booking
                                  /\ holds'[h].status = "converted" => holds[h].status = "converted"
  PROVE  TablesOK' /\ RowsKept
<1>1. Ids(holds') = 1..Len(holds) /\ Ids(holds) = 1..Len(holds)
  BY LenProperties, Domains DEF Ids, TablesOK
<1>2. RowsKept
  BY <1>1 DEF RowsKept, OnlyHolds
<1>3. Typed' /\ References' /\ PaidHasPaidAt' /\ ConfirmedBookingHasPaidDeposit'
  BY <1>1 DEF OnlyHolds, TablesOK, Typed, References, HoldOf, PaidHasPaidAt, Ids,
              ConfirmedBookingHasPaidDeposit
<1>4. ConversionLinks'
  BY <1>1 DEF OnlyHolds, TablesOK, References, ConversionLinks, HoldOf, Ids
<1> QED
  BY <1>2, <1>3, <1>4 DEF TablesOK

LEMMA HoldStatusStep ==
  ASSUME TablesOK, OnlyHolds, NEW h, NEW s \in HoldStatus \ {"converted"}, SetHoldStatus(h, s)
  PROVE  TablesOK' /\ RowsKept
<1> DEFINE e == [holds[h] EXCEPT !.status = s]
<1>1. holds' = [holds EXCEPT ![h] = e]
  BY DEF SetHoldStatus
<1>2. h \in DOMAIN holds => e \in HoldRow
  BY Domains DEF TablesOK, HoldRow, Ids
<1>0. holds \in Seq(HoldRow)
  BY DEF TablesOK, Typed
<1>3. /\ holds' \in Seq(HoldRow) /\ Len(holds') = Len(holds)
      /\ \A j \in 1..Len(holds) : holds'[j] = IF j = h THEN e ELSE holds[j]
  <2> HIDE DEF e
  <2> QED
    BY <1>0, <1>1, <1>2, RowWrite
<1>4. \A j \in 1..Len(holds) : holds[j] \in HoldRow
  BY Domains DEF TablesOK
<1>5. \A j \in 1..Len(holds) : /\ holds'[j].stay = holds[j].stay
                               /\ holds'[j].booking = holds[j].booking
                               /\ holds'[j].status = "converted" => holds[j].status = "converted"
  BY <1>3, <1>4 DEF HoldRow
<1> QED
  BY <1>3, <1>5, HoldsStep

\* An UPDATE of a request's status that does not convert it.
LEMMA RequestStatusStep ==
  ASSUME TablesOK, OnlyRequests, NEW r, NEW s \in RequestStatus \ {"converted"},
         SetRequestStatus(r, s)
  PROVE  TablesOK' /\ RowsKept
<1> DEFINE e == [requests[r] EXCEPT !.status = s]
<1>1. requests' = [requests EXCEPT ![r] = e]
  BY DEF SetRequestStatus
<1>2. r \in DOMAIN requests => e \in RequestRow
  BY Domains DEF TablesOK, RequestRow, Ids
<1>0. requests \in Seq(RequestRow)
  BY DEF TablesOK, Typed
<1>3. /\ requests' \in Seq(RequestRow) /\ Len(requests') = Len(requests)
      /\ \A j \in 1..Len(requests) : requests'[j] = IF j = r THEN e ELSE requests[j]
  <2> HIDE DEF e
  <2> QED
    BY <1>0, <1>1, <1>2, RowWrite
<1>4. Ids(requests') = 1..Len(requests) /\ Ids(requests) = 1..Len(requests)
  BY <1>3, LenProperties, Domains DEF Ids, TablesOK
<1>5. \A j \in Ids(requests) :
         /\ requests'[j].hold = requests[j].hold /\ requests'[j].booking = requests[j].booking
         /\ requests'[j].status = "converted" => requests[j].status = "converted"
  <2>1. \A j \in Ids(requests) : requests[j] \in RequestRow
    BY Domains DEF TablesOK
  <2> QED
    BY <1>3, <1>4, <2>1 DEF RequestRow
<1>6. RowsKept
  BY <1>4, <1>5 DEF RowsKept, OnlyRequests
<1>7. Typed' /\ References' /\ PaidHasPaidAt' /\ ConfirmedBookingHasPaidDeposit'
  BY <1>3, <1>4, <1>5 DEF OnlyRequests, TablesOK, Typed, References, HoldOf, PaidHasPaidAt, Ids,
                          ConfirmedBookingHasPaidDeposit
<1>8. ConversionLinks'
  BY <1>4, <1>5 DEF OnlyRequests, TablesOK, References, ConversionLinks, HoldOf, Ids
<1> QED
  BY <1>6, <1>7, <1>8 DEF TablesOK

\* An UPDATE of deposits that keeps their request and paid_at, and dates what
\* it marks paid.
LEMMA DepositsStep ==
  ASSUME TablesOK, OnlyDeposits, deposits' \in Seq(DepositRow), Len(deposits') = Len(deposits),
         \A d \in 1..Len(deposits) :
           /\ deposits'[d].request = deposits[d].request
           /\ deposits[d].paidAt => deposits'[d].paidAt
           /\ deposits'[d].status \in PaidStatuses => deposits'[d].paidAt
  PROVE  TablesOK' /\ RowsKept
<1>1. Ids(deposits') = 1..Len(deposits) /\ Ids(deposits) = 1..Len(deposits)
  BY LenProperties, Domains DEF Ids, TablesOK
<1>2. RowsKept
  BY <1>1 DEF RowsKept, OnlyDeposits
<1>3. Typed' /\ References' /\ PaidHasPaidAt'
  BY <1>1 DEF OnlyDeposits, TablesOK, Typed, References, HoldOf, PaidHasPaidAt, Ids
<1>4. ConfirmedBookingHasPaidDeposit'
  BY <1>1 DEF OnlyDeposits, TablesOK, ConfirmedBookingHasPaidDeposit, Ids
<1>5. ConversionLinks'
  BY DEF OnlyDeposits, TablesOK, ConversionLinks, HoldOf, Ids
<1> QED
  BY <1>2, <1>3, <1>4, <1>5 DEF TablesOK

\* An UPDATE of one deposit, by id.
LEMMA DepositStep ==
  ASSUME TablesOK, OnlyDeposits, NEW d, NEW e, deposits' = [deposits EXCEPT ![d] = e],
         d \in Ids(deposits) =>
           /\ e \in DepositRow /\ e.request = deposits[d].request
           /\ deposits[d].paidAt => e.paidAt
           /\ e.status \in PaidStatuses => e.paidAt
  PROVE  TablesOK' /\ RowsKept
<1>0. deposits \in Seq(DepositRow)
  BY DEF TablesOK, Typed
<1>1. /\ deposits' \in Seq(DepositRow) /\ Len(deposits') = Len(deposits)
      /\ \A j \in 1..Len(deposits) : deposits'[j] = IF j = d THEN e ELSE deposits[j]
  BY <1>0, RowWrite DEF Ids
<1>2. Ids(deposits) = 1..Len(deposits)
  BY Domains DEF TablesOK
<1>3. \A j \in 1..Len(deposits) :
         /\ deposits'[j].request = deposits[j].request
         /\ deposits[j].paidAt => deposits'[j].paidAt
         /\ deposits'[j].status \in PaidStatuses => deposits'[j].paidAt
  BY <1>1, <1>2 DEF TablesOK, PaidHasPaidAt
<1> QED
  BY <1>1, <1>3, DepositsStep

LEMMA DepositStatusStep ==
  ASSUME TablesOK, OnlyDeposits, NEW d, NEW s \in DepositStatus \ PaidStatuses,
         SetDepositStatus(d, s)
  PROVE  TablesOK' /\ RowsKept
<1> DEFINE e == [deposits[d] EXCEPT !.status = s]
<1>1. deposits' = [deposits EXCEPT ![d] = e]
  BY DEF SetDepositStatus
<1>2. d \in Ids(deposits) =>
           /\ e \in DepositRow /\ e.request = deposits[d].request
           /\ deposits[d].paidAt => e.paidAt
           /\ e.status \in PaidStatuses => e.paidAt
  BY Domains DEF TablesOK, DepositRow
<1> HIDE DEF e
<1> QED
  BY <1>1, <1>2, DepositStep

------------------------------------------------------------------------------
(* Inserts *)

\* INSERT INTO direct_booking_holds; the block row follows in a later step.
LEMMA HoldInsertStep ==
  ASSUME TablesOK, NEW row \in HoldRow, row.status = "active", row.booking = 0,
         holds' = Append(holds, row), holdBlock' = Append(holdBlock, "absent"),
         UNCHANGED <<requests, deposits, bookings, bookingBlock>>
  PROVE  TablesOK' /\ RowsKept
<1>1. holds \in Seq(HoldRow) /\ holdBlock \in Seq(BlockState) /\ "absent" \in BlockState
  BY DEF TablesOK, Typed, BlockState
<1>2. /\ holds' \in Seq(HoldRow) /\ holdBlock' \in Seq(BlockState)
      /\ Len(holds') = Len(holds) + 1 /\ Len(holdBlock') = Len(holdBlock) + 1
      /\ \A h \in 1..Len(holds) : holds'[h] = holds[h]
      /\ holds'[Len(holds) + 1] = row
  BY <1>1, AppendProperties
<1>3. Ids(holds) = 1..Len(holds) /\ Ids(holds') = 1..(Len(holds) + 1) /\ Len(holds) \in Nat
  BY <1>1, <1>2, LenProperties DEF Ids
<1>4. RowsKept
  BY <1>2, <1>3 DEF RowsKept
<1>5. Typed' /\ References' /\ PaidHasPaidAt' /\ ConfirmedBookingHasPaidDeposit'
  BY <1>2, <1>3 DEF TablesOK, Typed, References, HoldOf, PaidHasPaidAt, Ids,
                    ConfirmedBookingHasPaidDeposit
<1>6. ConversionLinks'
  BY <1>2, <1>3 DEF TablesOK, ConversionLinks, HoldOf, Ids
<1> QED
  BY <1>4, <1>5, <1>6 DEF TablesOK

\* INSERT INTO direct_booking_requests.
LEMMA RequestInsertStep ==
  ASSUME TablesOK, OnlyRequests, NEW h \in Ids(holds), InsertRequest(h)
  PROVE  TablesOK' /\ RowsKept /\ Len(requests) + 1 \in Ids(requests')
<1> DEFINE row == [hold |-> h, status |-> "submitted", booking |-> 0]
<1>1. requests \in Seq(RequestRow) /\ row \in RequestRow
  BY Domains DEF TablesOK, Typed, RequestRow, RequestStatus
<1>2. requests' = Append(requests, row)
  BY DEF InsertRequest
<1>3. row.hold = h /\ row.booking = 0 /\ row.status # "converted"
  OBVIOUS
<1> HIDE DEF row
<1>4. /\ requests' \in Seq(RequestRow) /\ Len(requests') = Len(requests) + 1
      /\ \A r \in 1..Len(requests) : requests'[r] = requests[r]
      /\ requests'[Len(requests) + 1] = row
  BY <1>1, <1>2, AppendProperties
<1>5. /\ Ids(requests) = 1..Len(requests) /\ Ids(requests') = 1..(Len(requests) + 1)
      /\ Len(requests) \in Nat
  BY <1>1, <1>4, LenProperties DEF Ids
<1>6. RowsKept
  BY <1>4, <1>5 DEF RowsKept, OnlyRequests
<1>7. Typed' /\ PaidHasPaidAt' /\ ConfirmedBookingHasPaidDeposit'
  BY <1>4, <1>5 DEF OnlyRequests, TablesOK, Typed, PaidHasPaidAt, Ids,
                    ConfirmedBookingHasPaidDeposit
<1>8. References'
  <2>1. \A r \in Ids(requests') : requests'[r].hold \in Ids(holds)
    BY <1>3, <1>4, <1>5 DEF TablesOK, References, HoldOf
  <2>2. Ids(requests) \subseteq Ids(requests')
    BY <1>5
  <2> QED
    BY <2>1, <2>2 DEF OnlyRequests, TablesOK, References, HoldOf, Ids
<1>9. \A r \in Ids(requests') :
       /\ requests'[r].booking # 0 =>
            requests'[r].booking \in Ids(bookings) /\ bookings[requests'[r].booking].request = r
       /\ requests'[r].status = "converted" => requests'[r].booking # 0
  BY <1>3, <1>4, <1>5 DEF TablesOK, ConversionLinks
<1>10. \A b \in Ids(bookings) : requests'[bookings[b].request] = requests[bookings[b].request]
  BY <1>4, <1>5 DEF TablesOK, References
<1>11. ConversionLinks'
  BY <1>9, <1>10 DEF OnlyRequests, TablesOK, ConversionLinks, HoldOf, Ids
<1> QED
  BY <1>5, <1>6, <1>7, <1>8, <1>11 DEF TablesOK

\* INSERT INTO direct_booking_deposits.
LEMMA DepositInsertStep ==
  ASSUME TablesOK, OnlyDeposits, NEW row \in DepositRow, row.request \in Ids(requests),
         row.status \notin PaidStatuses, deposits' = Append(deposits, row)
  PROVE  TablesOK' /\ RowsKept
<1>1. deposits \in Seq(DepositRow)
  BY DEF TablesOK, Typed
<1>2. /\ deposits' \in Seq(DepositRow) /\ Len(deposits') = Len(deposits) + 1
      /\ \A d \in 1..Len(deposits) : deposits'[d] = deposits[d]
      /\ deposits'[Len(deposits) + 1] = row
  BY <1>1, AppendProperties
<1>3. /\ Ids(deposits) = 1..Len(deposits) /\ Ids(deposits') = 1..(Len(deposits) + 1)
      /\ Len(deposits) \in Nat
  BY <1>1, <1>2, LenProperties DEF Ids
<1>4. RowsKept
  BY <1>2, <1>3 DEF RowsKept, OnlyDeposits
<1>5. Typed' /\ References' /\ PaidHasPaidAt'
  BY <1>2, <1>3 DEF OnlyDeposits, TablesOK, Typed, References, HoldOf, PaidHasPaidAt, Ids
<1>6. ConfirmedBookingHasPaidDeposit'
  BY <1>2, <1>3 DEF OnlyDeposits, TablesOK, ConfirmedBookingHasPaidDeposit, Ids
<1>7. ConversionLinks'
  BY DEF OnlyDeposits, TablesOK, ConversionLinks, HoldOf, Ids
<1> QED
  BY <1>4, <1>5, <1>6, <1>7 DEF TablesOK

\* INSERT INTO bookings: past the gate when it is confirmed.
LEMMA BookingInsertStep ==
  ASSUME TablesOK, NEW row \in BookingRow, row.request \in Ids(requests),
         row.status = "confirmed" => PaidIn(row.request, deposits),
         bookings' = Append(bookings, row), bookingBlock' = Append(bookingBlock, "absent"),
         UNCHANGED <<holds, holdBlock, requests, deposits>>
  PROVE  /\ TablesOK' /\ RowsKept
         /\ Len(bookings) + 1 \in Ids(bookings') /\ bookings'[Len(bookings) + 1] = row
<1>1. bookings \in Seq(BookingRow) /\ bookingBlock \in Seq(BlockState) /\ "absent" \in BlockState
  BY DEF TablesOK, Typed, BlockState
<1>2. /\ bookings' \in Seq(BookingRow) /\ bookingBlock' \in Seq(BlockState)
      /\ Len(bookings') = Len(bookings) + 1 /\ Len(bookingBlock') = Len(bookingBlock) + 1
      /\ \A b \in 1..Len(bookings) : bookings'[b] = bookings[b]
      /\ bookings'[Len(bookings) + 1] = row
  BY <1>1, AppendProperties
<1>3. /\ Ids(bookings) = 1..Len(bookings) /\ Ids(bookings') = 1..(Len(bookings) + 1)
      /\ Len(bookings) \in Nat
  BY <1>1, <1>2, LenProperties DEF Ids
<1>4. RowsKept
  BY <1>2, <1>3 DEF RowsKept
<1>5. Typed' /\ References' /\ PaidHasPaidAt'
  BY <1>2, <1>3 DEF TablesOK, Typed, References, HoldOf, PaidHasPaidAt, Ids
<1>6. ConfirmedBookingHasPaidDeposit'
  <2>1. \A b \in Ids(bookings') : b \in Ids(bookings) \/ b = Len(bookings) + 1
    BY <1>3
  <2> QED
    BY <1>2, <1>3, <2>1 DEF TablesOK, ConfirmedBookingHasPaidDeposit, PaidIn, Ids
<1>7. ConversionLinks'
  BY <1>2, <1>3 DEF TablesOK, ConversionLinks, HoldOf, Ids
<1> QED
  BY <1>2, <1>3, <1>4, <1>5, <1>6, <1>7 DEF TablesOK

------------------------------------------------------------------------------
(* The two marks of a conversion, and the booking's block *)

LEMMA MarkRequestStep ==
  ASSUME TablesOK, OnlyRequests, NEW r \in Ids(requests),
         NEW b \in Ids(bookings), bookings[b].request = r,
         NEW e \in RequestRow, e.booking = b, e.hold = requests[r].hold,
         requests' = [requests EXCEPT ![r] = e]
  PROVE  TablesOK' /\ RowsKept /\ requests'[r].booking # 0
<1>1. /\ requests \in Seq(RequestRow)
      /\ Ids(requests) = 1..Len(requests) /\ Len(requests) \in Nat
      /\ Ids(bookings) = 1..Len(bookings) /\ Len(bookings) \in Nat
      /\ \A j \in Ids(requests) : requests[j] \in RequestRow
  BY Domains DEF TablesOK, Typed
<1>2. b # 0
  BY <1>1
<1>3. /\ requests' \in Seq(RequestRow) /\ Len(requests') = Len(requests)
      /\ \A j \in 1..Len(requests) : requests'[j] = IF j = r THEN e ELSE requests[j]
  BY <1>1, RowWrite
<1>4. Ids(requests') = Ids(requests)
  BY <1>1, <1>3, LenProperties DEF Ids
<1>5. \A j \in Ids(requests) :
         /\ requests'[j].hold = requests[j].hold
         /\ requests[j].booking # 0 => requests'[j].booking # 0
  BY <1>1, <1>2, <1>3
<1>6. RowsKept
  BY <1>4, <1>5 DEF RowsKept, OnlyRequests
<1>7. Typed' /\ References' /\ PaidHasPaidAt' /\ ConfirmedBookingHasPaidDeposit'
  BY <1>3, <1>4, <1>5 DEF OnlyRequests, TablesOK, Typed, References, HoldOf, PaidHasPaidAt, Ids,
                          ConfirmedBookingHasPaidDeposit
<1>8. \A j \in Ids(requests') :
       /\ requests'[j].booking # 0 =>
            requests'[j].booking \in Ids(bookings) /\ bookings[requests'[j].booking].request = j
       /\ requests'[j].status = "converted" => requests'[j].booking # 0
  BY <1>1, <1>2, <1>3, <1>4 DEF TablesOK, ConversionLinks
<1>9. ConversionLinks'
  BY <1>4, <1>5, <1>8 DEF OnlyRequests, TablesOK, References, ConversionLinks, HoldOf, Ids
<1> QED
  BY <1>1, <1>2, <1>3, <1>6, <1>7, <1>9 DEF TablesOK

LEMMA MarkHoldStep ==
  ASSUME TablesOK, OnlyHolds, NEW h \in Ids(holds), NEW b \in Ids(bookings),
         HoldOf(bookings[b].request) = h, bookings[b].stay = holds[h].stay,
         requests[bookings[b].request].booking # 0,
         NEW e \in HoldRow, e.booking = b, e.stay = holds[h].stay,
         holds' = [holds EXCEPT ![h] = e]
  PROVE  TablesOK' /\ RowsKept
<1>1. /\ holds \in Seq(HoldRow)
      /\ Ids(holds) = 1..Len(holds) /\ Len(holds) \in Nat
      /\ Ids(bookings) = 1..Len(bookings) /\ Len(bookings) \in Nat
      /\ \A j \in Ids(holds) : holds[j] \in HoldRow
  BY Domains DEF TablesOK, Typed
<1>2. b # 0
  BY <1>1
<1>3. /\ holds' \in Seq(HoldRow) /\ Len(holds') = Len(holds)
      /\ \A j \in 1..Len(holds) : holds'[j] = IF j = h THEN e ELSE holds[j]
  BY <1>1, RowWrite
<1>4. Ids(holds') = Ids(holds)
  BY <1>1, <1>3, LenProperties DEF Ids
<1>5. \A j \in Ids(holds) : holds'[j].stay = holds[j].stay
  BY <1>1, <1>2, <1>3
<1>6. RowsKept
  BY <1>4, <1>5 DEF RowsKept, OnlyHolds
<1>7. Typed' /\ References' /\ PaidHasPaidAt' /\ ConfirmedBookingHasPaidDeposit'
  BY <1>3, <1>4 DEF OnlyHolds, TablesOK, Typed, References, HoldOf, PaidHasPaidAt, Ids,
                    ConfirmedBookingHasPaidDeposit
<1>8. \A j \in Ids(holds') :
       /\ holds'[j].booking # 0 =>
            /\ holds'[j].booking \in Ids(bookings)
            /\ HoldOf(bookings[holds'[j].booking].request) = j
            /\ bookings[holds'[j].booking].stay = holds'[j].stay
            /\ requests[bookings[holds'[j].booking].request].booking # 0
       /\ holds'[j].status = "converted" => holds'[j].booking # 0
  BY <1>1, <1>2, <1>3, <1>4 DEF TablesOK, ConversionLinks
<1>9. ConversionLinks'
  BY <1>8 DEF OnlyHolds, TablesOK, ConversionLinks, HoldOf, Ids
<1> QED
  BY <1>6, <1>7, <1>9 DEF TablesOK

LEMMA BookingBlockStep ==
  ASSUME TablesOK, NEW b, bookingBlock' = [bookingBlock EXCEPT ![b] = "active"],
         UNCHANGED <<holds, holdBlock, requests, deposits, bookings>>
  PROVE  TablesOK' /\ RowsKept
<1>1. bookingBlock \in Seq(BlockState) /\ "active" \in BlockState
  BY DEF TablesOK, Typed, BlockState
<1>2. bookingBlock' \in Seq(BlockState) /\ Len(bookingBlock') = Len(bookingBlock)
  BY <1>1, RowWrite
<1>3. RowsKept
  BY DEF RowsKept
<1>4. TablesOK'
  BY <1>2 DEF TablesOK, Typed, References, HoldOf, PaidHasPaidAt, Ids,
              ConfirmedBookingHasPaidDeposit, ConversionLinks
<1> QED
  BY <1>3, <1>4

------------------------------------------------------------------------------
(* Every action keeps the tables and the calls *)

LEMMA FreeStep ==
  ASSUME TablesOK, TablesOK', RowsKept, CallsOK, NEW w \in Workers,
         NEW c \in CallRecord, c.at \notin Relying, call' = [call EXCEPT ![w] = c]
  PROVE  CallsOK'
  BY NothingToKnow, CallStep

LEMMA ReadsOnly ==
  ASSUME TablesOK, NoTables
  PROVE  TablesOK' /\ RowsKept
  BY NoTableStep DEF NoTables, tables

LEMMA HoldBeginsKeeps ==
  ASSUME TablesOK, CallsOK, NEW w \in Workers, HoldBegins(w)
  PROVE  TablesOK' /\ CallsOK'
<1>1. ASSUME NEW s \in Stays, NEW mode \in {"public", "operator"}, CreateCheckBookings(w, s, mode)
      PROVE  TablesOK' /\ CallsOK'
  <2> DEFINE c == [Idle EXCEPT !.at = "create_check_blocks", !.stay = s, !.mode = mode]
  <2>1. c \in CallRecord /\ c.at = "create_check_blocks" /\ c.stay = s
    BY DEF Idle, CallRecord, Step
  <2>2. call' = [call EXCEPT ![w] = c] /\ NoTables
    BY <1>1 DEF CreateCheckBookings, Begin
  <2> HIDE DEF c
  <2>3. KnowsNext(c)
    BY <2>1 DEF KnowsNext, Knows, OnHold, OnStay, OnDeposit, PastGate, Marking, HoldRead, Converting
  <2> QED
    BY <2>1, <2>2, <2>3, ReadsOnly, CallStep
<1>2. ASSUME NEW h \in Ids(holds), CancelRead(w, h) PROVE TablesOK' /\ CallsOK'
  <2> DEFINE c == [Idle EXCEPT !.at = "cancel_write_hold", !.hold = h]
  <2>1. h \in Nat
    BY Domains DEF TablesOK
  <2>2. c \in CallRecord /\ c.at \notin Relying
    BY <2>1 DEF Idle, CallRecord, Step, Relying, OnHold, OnStay, OnDeposit, PastGate, Marking,
                HoldRead, Converting
  <2>3. call' = [call EXCEPT ![w] = c] /\ NoTables
    BY <1>2 DEF CancelRead, Begin
  <2> HIDE DEF c
  <2> QED
    BY <2>2, <2>3, ReadsOnly, FreeStep
<1>3. ASSUME NEW h \in Ids(holds), AdminCancelRead(w, h) PROVE TablesOK' /\ CallsOK'
  <2> DEFINE c == [Idle EXCEPT !.at = "admin_cancel_write_hold", !.hold = h]
  <2>1. h \in Nat
    BY Domains DEF TablesOK
  <2>2. c \in CallRecord /\ c.at \notin Relying
    BY <2>1 DEF Idle, CallRecord, Step, Relying, OnHold, OnStay, OnDeposit, PastGate, Marking,
                HoldRead, Converting
  <2>3. call' = [call EXCEPT ![w] = c] /\ NoTables
    BY <1>3 DEF AdminCancelRead, Begin
  <2> HIDE DEF c
  <2> QED
    BY <2>2, <2>3, ReadsOnly, FreeStep
<1> QED
  BY <1>1, <1>2, <1>3 DEF HoldBegins

LEMMA CreateKeeps ==
  ASSUME TablesOK, CallsOK, NEW w \in Workers,
         \/ CreateCheckBlocks(w) \/ CreateInsertHold(w)
         \/ CreateInsertBlock(w) \/ CreateInsertRequest(w)
  PROVE  TablesOK' /\ CallsOK'
<1> USE DEF OnHold, OnStay, OnDeposit, PastGate, Marking, HoldRead, Converting
<1>0. call[w] \in CallRecord /\ KnowsNow(call[w])
  BY DEF CallsOK
<1>1. CASE CreateCheckBlocks(w)
  <2>1. TablesOK' /\ RowsKept
    BY <1>1, ReadsOnly DEF CreateCheckBlocks
  <2>2. CASE Return(w)
    BY <2>1, <2>2, ReturnStep
  <2>3. CASE Goto(w, "create_insert_hold")
    <3> DEFINE c == [call[w] EXCEPT !.at = "create_insert_hold"]
    <3>1. call[w].stay \in Stays
      BY <1>0, <1>1 DEF CreateCheckBlocks, At, KnowsNow, Knows
    <3>2. c \in CallRecord /\ c.at = "create_insert_hold" /\ c.stay \in Stays
      BY <1>0, <3>1 DEF CallRecord, Step
    <3>3. call' = [call EXCEPT ![w] = c]
      BY <2>3 DEF Goto
    <3> HIDE DEF c
    <3>4. KnowsNext(c)
      BY <3>2 DEF KnowsNext, Knows
    <3> QED
      BY <2>1, <3>2, <3>3, <3>4, CallStep
  <2> QED
    BY <1>1, <2>2, <2>3 DEF CreateCheckBlocks
<1>2. CASE CreateInsertHold(w)
  <2> DEFINE row == [stay |-> call[w].stay, status |-> "active", late |-> FALSE, booking |-> 0]
             c   == [call[w] EXCEPT !.at = "create_insert_block", !.hold = Len(holds) + 1]
  <2>1. call[w].stay \in Stays
    BY <1>0, <1>2 DEF CreateInsertHold, At, KnowsNow, Knows
  <2>2. row \in HoldRow /\ row.status = "active" /\ row.booking = 0
    BY <2>1 DEF HoldRow, HoldStatus
  <2>3. /\ holds' = Append(holds, row) /\ holdBlock' = Append(holdBlock, "absent")
        /\ UNCHANGED <<requests, deposits, bookings, bookingBlock>>
        /\ call' = [call EXCEPT ![w] = c]
    BY <1>2 DEF CreateInsertHold, Continue
  <2> HIDE DEF row
  <2>4. TablesOK' /\ RowsKept
    BY <2>2, <2>3, HoldInsertStep
  <2>5. Len(holds) + 1 \in DOMAIN holds' /\ Len(holds) + 1 \in Nat
    <3>1. holds \in Seq(HoldRow)
      BY DEF TablesOK, Typed
    <3> QED
      BY <2>2, <2>3, <3>1, AppendProperties, LenProperties
  <2>6. c \in CallRecord /\ c.at = "create_insert_block" /\ c.hold \in DOMAIN holds'
    BY <1>0, <2>5 DEF CallRecord, Step
  <2> HIDE DEF c
  <2>7. KnowsNext(c)
    BY <2>6 DEF KnowsNext, Knows
  <2> QED
    BY <2>3, <2>4, <2>6, <2>7, CallStep
<1>3. CASE CreateInsertBlock(w)
  <2>1. holdBlock' = [holdBlock EXCEPT ![call[w].hold] = "active"] /\ OnlyHoldBlock
    BY <1>3 DEF CreateInsertBlock, ActivateHoldBlock
  <2>2. TablesOK' /\ RowsKept
    BY <2>1, HoldBlockStep DEF BlockState
  <2>3. CASE Return(w)
    BY <2>2, <2>3, ReturnStep
  <2>4. CASE Goto(w, "create_insert_request")
    <3> DEFINE c == [call[w] EXCEPT !.at = "create_insert_request"]
    <3>1. call[w].hold \in DOMAIN holds'
      BY <1>0, <1>3, <2>1 DEF CreateInsertBlock, At, KnowsNow, Knows, OnlyHoldBlock
    <3>2. c \in CallRecord /\ c.at = "create_insert_request" /\ c.hold \in DOMAIN holds'
      BY <1>0, <3>1 DEF CallRecord, Step
    <3>3. call' = [call EXCEPT ![w] = c]
      BY <2>4 DEF Goto
    <3> HIDE DEF c
    <3>4. KnowsNext(c)
      BY <3>2 DEF KnowsNext, Knows
    <3> QED
      BY <2>2, <3>2, <3>3, <3>4, CallStep
  <2> QED
    BY <1>3, <2>3, <2>4 DEF CreateInsertBlock
<1>4. CASE CreateInsertRequest(w)
  <2>1. call[w].hold \in Ids(holds)
    BY <1>0, <1>4 DEF CreateInsertRequest, At, KnowsNow, Knows, Ids
  <2>2. TablesOK' /\ RowsKept
    BY <1>4, <2>1, RequestInsertStep DEF CreateInsertRequest
  <2> QED
    BY <1>4, <2>2, ReturnStep DEF CreateInsertRequest
<1> QED
  BY <1>1, <1>2, <1>3, <1>4

\* Steps that write no table or one status, and go on to a step that relies on
\* nothing.
LEMMA CancelKeeps ==
  ASSUME TablesOK, CallsOK, NEW w \in Workers,
         \/ CancelWriteHold(w) \/ CancelRelease(w)
         \/ AdminCancelWriteHold(w) \/ AdminCancelRelease(w)
         \/ AdminCancelSyncRead(w) \/ AdminCancelSyncWrite(w)
  PROVE  TablesOK' /\ CallsOK'
<1>0. call[w] \in CallRecord
  BY DEF CallsOK
<1>1. /\ "cancelled" \in HoldStatus \ {"converted"} /\ "active" \in BlockState
      /\ {"cancel_release", "admin_cancel_release", "admin_cancel_sync_activate",
          "admin_cancel_sync_release"} \subseteq Step \ Relying
  BY DEF HoldStatus, BlockState, Step, Relying, OnHold, OnStay, OnDeposit, PastGate, Marking,
         HoldRead, Converting
<1>2. Idle \in CallRecord /\ Idle.at \notin Relying
  BY IdleKnows DEF Idle, Relying, OnHold, OnStay, OnDeposit, PastGate, Marking, HoldRead, Converting
<1>3. CASE CancelWriteHold(w)
  BY <1>1, <1>3, HoldStatusStep, GotoStep DEF CancelWriteHold
<1>4. CASE CancelRelease(w)
  BY <1>2, <1>4, ReleaseStep DEF CancelRelease
<1>5. CASE AdminCancelWriteHold(w)
  BY <1>1, <1>5, HoldStatusStep, GotoStep DEF AdminCancelWriteHold
<1>6. CASE AdminCancelRelease(w)
  <2> DEFINE c == [call[w] EXCEPT !.at = "admin_cancel_sync_read"]
  <2>1. c \in CallRecord /\ c.at \notin Relying
    BY <1>0 DEF CallRecord, Step, Relying, OnHold, OnStay, OnDeposit, PastGate, Marking, HoldRead,
                Converting
  <2>2. ReleaseThen(w, call[w].hold, c) /\ OnlyHoldBlock
    BY <1>6 DEF AdminCancelRelease
  <2> HIDE DEF c
  <2> QED
    BY <2>1, <2>2, ReleaseStep
<1>7. CASE AdminCancelSyncRead(w)
  BY <1>1, <1>7, ReadsOnly, GotoStep DEF AdminCancelSyncRead
<1>8. CASE AdminCancelSyncWrite(w)
  <2>1. CASE ActivateHoldBlock(call[w].hold) /\ Return(w)
    <3>1. TablesOK' /\ RowsKept
      BY <1>1, <1>8, <2>1, HoldBlockStep DEF AdminCancelSyncWrite, ActivateHoldBlock
    <3> QED
      BY <2>1, <3>1, ReturnStep
  <2>2. CASE ReleaseThen(w, call[w].hold, Idle)
    BY <1>2, <1>8, <2>2, ReleaseStep DEF AdminCancelSyncWrite
  <2> QED
    BY <1>8, <2>1, <2>2 DEF AdminCancelSyncWrite
<1> QED
  BY <1>3, <1>4, <1>5, <1>6, <1>7, <1>8

LEMMA RequestBeginsKeeps ==
  ASSUME TablesOK, CallsOK, NEW w \in Workers, RequestBegins(w)
  PROVE  TablesOK' /\ CallsOK'
<1> USE DEF OnHold, OnStay, OnDeposit, PastGate, Marking, HoldRead, Converting
<1>0. Ids(holds) \subseteq Nat /\ Ids(requests) \subseteq Nat
  BY Domains DEF TablesOK
<1>1. ASSUME NEW h \in Ids(holds), SubmitRead(w, h) PROVE TablesOK' /\ CallsOK'
  <2> DEFINE at == IF holds[h].late THEN "submit_lapse_hold" ELSE "submit_insert_request"
             c  == [Idle EXCEPT !.hold = h, !.at = at]
  <2>1. call' = [call EXCEPT ![w] = c] /\ NoTables
    BY <1>1 DEF SubmitRead, Begin
  <2>2. TablesOK' /\ RowsKept
    BY <2>1, ReadsOnly
  <2>3. at \in {"submit_lapse_hold", "submit_insert_request"}
    OBVIOUS
  <2> HIDE DEF at
  <2>4. c \in CallRecord /\ c.at = at /\ c.hold = h
    BY <1>0, <2>3 DEF Idle, CallRecord, Step
  <2>5. h \in DOMAIN holds'
    BY <2>1 DEF NoTables, tables, Ids
  <2> HIDE DEF c
  <2>6. KnowsNext(c)
    BY <2>3, <2>4, <2>5 DEF KnowsNext, Knows
  <2> QED
    BY <2>1, <2>2, <2>4, <2>6, CallStep
<1>2. ASSUME NEW r \in Ids(requests), RejectWriteRequest(w, r) PROVE TablesOK' /\ CallsOK'
  <2> DEFINE c == [Idle EXCEPT !.at = "reject_write_hold", !.hold = HoldOf(r)]
  <2>1. call' = [call EXCEPT ![w] = c]
    BY <1>2 DEF RejectWriteRequest, Begin
  <2>2. TablesOK' /\ RowsKept
    BY <1>2, RequestStatusStep DEF RejectWriteRequest, RequestStatus
  <2>3. HoldOf(r) \in Nat
    BY <1>0 DEF TablesOK, References
  <2>4. c \in CallRecord /\ c.at \notin Relying
    BY <2>3 DEF Idle, CallRecord, Step, Relying
  <2> HIDE DEF c
  <2> QED
    BY <2>1, <2>2, <2>4, FreeStep
<1>3. ASSUME NEW r \in Ids(requests), NEW mode \in BookingStatus, ConvertRead(w, r, mode)
      PROVE  TablesOK' /\ CallsOK'
  <2> DEFINE c == [Idle EXCEPT !.at = "convert_read_hold", !.request = r, !.mode = mode]
  <2>1. call' = [call EXCEPT ![w] = c] /\ NoTables
    BY <1>3 DEF ConvertRead, Begin
  <2>2. TablesOK' /\ RowsKept
    BY <2>1, ReadsOnly
  <2>3. /\ c \in CallRecord
        /\ c.at = "convert_read_hold" /\ c.request = r /\ c.mode = mode
    BY <1>0 DEF Idle, CallRecord, Step
  <2>4. r \in DOMAIN requests'
    BY <2>1 DEF NoTables, tables, Ids
  <2> HIDE DEF c
  <2>5. KnowsNext(c)
    BY <2>3, <2>4 DEF KnowsNext, Knows
  <2> QED
    BY <2>1, <2>2, <2>3, <2>5, CallStep
<1> QED
  BY <1>1, <1>2, <1>3 DEF RequestBegins

LEMMA SubmitAndRejectKeep ==
  ASSUME TablesOK, CallsOK, NEW w \in Workers,
         \/ SubmitLapseHold(w) \/ SubmitLapseRelease(w) \/ SubmitInsertRequest(w)
         \/ RejectWriteHold(w) \/ RejectRelease(w)
  PROVE  TablesOK' /\ CallsOK'
<1>0. call[w] \in CallRecord /\ KnowsNow(call[w])
  BY DEF CallsOK
<1>1. /\ {"expired", "rejected"} \subseteq HoldStatus \ {"converted"}
      /\ {"submit_lapse_release", "reject_release"} \subseteq Step \ Relying
  BY DEF HoldStatus, Step, Relying, OnHold, OnStay, OnDeposit, PastGate, Marking, HoldRead,
         Converting
<1>2. Idle \in CallRecord /\ Idle.at \notin Relying
  BY IdleKnows DEF Idle, Relying, OnHold, OnStay, OnDeposit, PastGate, Marking, HoldRead, Converting
<1>3. CASE SubmitLapseHold(w)
  BY <1>1, <1>3, HoldStatusStep, GotoStep DEF SubmitLapseHold
<1>4. CASE SubmitLapseRelease(w)
  BY <1>2, <1>4, ReleaseStep DEF SubmitLapseRelease
<1>5. CASE SubmitInsertRequest(w)
  <2> DEFINE c == [call[w] EXCEPT !.at = "ensure_read", !.request = Len(requests) + 1]
  <2>1. call' = [call EXCEPT ![w] = c]
    BY <1>5 DEF SubmitInsertRequest, Continue
  <2>2. call[w].hold \in Ids(holds)
    BY <1>0, <1>5 DEF SubmitInsertRequest, At, KnowsNow, Knows, Ids, OnHold
  <2>3. TablesOK' /\ RowsKept /\ Len(requests) + 1 \in Ids(requests')
    BY <1>5, <2>2, RequestInsertStep DEF SubmitInsertRequest
  <2>4. Len(requests) + 1 \in Nat
    BY Domains DEF TablesOK
  <2>5. c \in CallRecord /\ c.at = "ensure_read" /\ c.request = Len(requests) + 1
    BY <1>0, <2>4 DEF CallRecord, Step
  <2> HIDE DEF c
  <2>6. KnowsNext(c)
    BY <2>3, <2>5 DEF KnowsNext, Knows, Ids, OnHold, OnStay, OnDeposit, PastGate, Marking, HoldRead,
                      Converting
  <2> QED
    BY <2>1, <2>3, <2>5, <2>6, CallStep
<1>6. CASE RejectWriteHold(w)
  BY <1>1, <1>6, HoldStatusStep, GotoStep DEF RejectWriteHold
<1>7. CASE RejectRelease(w)
  BY <1>2, <1>7, ReleaseStep DEF RejectRelease
<1> QED
  BY <1>3, <1>4, <1>5, <1>6, <1>7

\* Up to the insert of the booking: the hold, the gate, the code.
LEMMA ConvertReadsKeep ==
  ASSUME TablesOK, CallsOK, NEW w \in Workers,
         ConvertReadHold(w) \/ ConvertReadDeposit(w) \/ ConvertPickCode(w)
  PROVE  TablesOK' /\ CallsOK'
<1> USE DEF OnHold, OnStay, OnDeposit, PastGate, Marking, HoldRead, Converting
<1>0. call[w] \in CallRecord /\ KnowsNow(call[w])
  BY DEF CallsOK
<1>1. NoTables
  BY DEF ConvertReadHold, ConvertReadDeposit, ConvertPickCode
<1>2. TablesOK' /\ RowsKept
  BY <1>1, ReadsOnly
<1>3. KnowsNext(call[w])
  BY <1>0, <1>2, KnowledgeLasts
<1>4. CASE ConvertReadHold(w)
  <2> DEFINE h == HoldOf(call[w].request)
             c == [call[w] EXCEPT !.at = "convert_read_deposit", !.hold = h, !.stay = holds[h].stay]
  <2>1. /\ call[w].request \in Ids(requests) /\ call[w].mode \in BookingStatus
        /\ call[w].request \in DOMAIN requests'
    BY <1>0, <1>3, <1>4 DEF ConvertReadHold, At, KnowsNow, KnowsNext, Knows, Ids
  <2>2. h \in Ids(holds)
    BY <2>1 DEF TablesOK, References
  <2>3. h \in Nat /\ holds[h].stay \in Stays
    BY <2>2, Domains DEF TablesOK, HoldRow
  <2>4. h = requests'[call[w].request].hold /\ holds'[h].stay = holds[h].stay
    BY <1>1 DEF NoTables, tables, HoldOf
  <2> HIDE DEF h
  <2>5. /\ c \in CallRecord /\ c.at = "convert_read_deposit" /\ c.hold = h
        /\ c.stay = holds[h].stay /\ c.request = call[w].request /\ c.mode = call[w].mode
    BY <1>0, <2>3 DEF CallRecord, Step
  <2>6. CASE Return(w)
    BY <1>2, <2>6, ReturnStep
  <2>7. CASE call' = [call EXCEPT ![w] = c]
    <3> HIDE DEF c
    <3>1. KnowsNext(c)
      BY <2>1, <2>4, <2>5 DEF KnowsNext, Knows
    <3> QED
      BY <1>2, <2>5, <2>7, <3>1, CallStep
  <2> QED
    BY <1>4, <2>6, <2>7 DEF ConvertReadHold, Continue, h
<1>5. CASE ConvertReadDeposit(w)
  <2> DEFINE d    == LatestDeposit(call[w].request)
             paid == d # 0 /\ deposits[d].status \in PaidStatuses
  <2>1. /\ call[w].request \in DOMAIN requests' /\ call[w].mode \in BookingStatus
        /\ call[w].hold = requests'[call[w].request].hold
        /\ call[w].stay = holds'[call[w].hold].stay
    BY <1>3, <1>5 DEF ConvertReadDeposit, At, KnowsNext, Knows
  <2>2. CASE Return(w)
    BY <1>2, <2>2, ReturnStep
  <2>3. CASE paid /\ Goto(w, "convert_pick_code")
    <3> DEFINE c == [call[w] EXCEPT !.at = "convert_pick_code"]
    <3>1. d \in Ids(deposits) /\ deposits[d].request = call[w].request
      BY <2>3, LatestDepositIsOwn DEF TablesOK, Typed
    <3>2. deposits[d].paidAt
      BY <2>3, <3>1 DEF TablesOK, PaidHasPaidAt
    <3>3. PaidIn(call[w].request, deposits')
      BY <1>1, <3>1, <3>2 DEF PaidIn, NoTables, tables, Ids
    <3>4. /\ c \in CallRecord /\ c.at = "convert_pick_code" /\ c.hold = call[w].hold
          /\ c.stay = call[w].stay /\ c.request = call[w].request /\ c.mode = call[w].mode
      BY <1>0 DEF CallRecord, Step
    <3>5. call' = [call EXCEPT ![w] = c]
      BY <2>3 DEF Goto
    <3> HIDE DEF c
    <3>6. KnowsNext(c)
      BY <2>1, <3>3, <3>4 DEF KnowsNext, Knows
    <3> QED
      BY <1>2, <3>4, <3>5, <3>6, CallStep
  <2>4. CASE Continue(w, [call[w] EXCEPT !.at = "convert_pick_code", !.mode = "tentative"])
    <3> DEFINE c == [call[w] EXCEPT !.at = "convert_pick_code", !.mode = "tentative"]
    <3>1. /\ c \in CallRecord /\ c.at = "convert_pick_code" /\ c.hold = call[w].hold
          /\ c.stay = call[w].stay /\ c.request = call[w].request /\ c.mode = "tentative"
      BY <1>0 DEF CallRecord, Step, BookingStatus
    <3>2. call' = [call EXCEPT ![w] = c]
      BY <2>4 DEF Continue
    <3> HIDE DEF c
    <3>3. KnowsNext(c)
      BY <2>1, <3>1 DEF KnowsNext, Knows, BookingStatus
    <3> QED
      BY <1>2, <3>1, <3>2, <3>3, CallStep
  <2> QED
    BY <1>5, <2>2, <2>3, <2>4 DEF ConvertReadDeposit
<1>6. CASE ConvertPickCode(w)
  <2> DEFINE taken == CodeTaken(call[w].request)
             c == [call[w] EXCEPT !.at = "convert_insert_booking", !.suffixed = taken]
  <2>1. taken \in BOOLEAN
    BY DEF CodeTaken
  <2>2. call' = [call EXCEPT ![w] = c]
    BY <1>6 DEF ConvertPickCode, Continue
  <2> HIDE DEF taken
  <2>3. /\ c \in CallRecord /\ c.at = "convert_insert_booking" /\ c.hold = call[w].hold
        /\ c.stay = call[w].stay /\ c.request = call[w].request /\ c.mode = call[w].mode
    BY <1>0, <2>1 DEF CallRecord, Step
  <2> HIDE DEF c
  <2>4. KnowsNext(c)
    BY <1>3, <1>6, <2>3 DEF ConvertPickCode, At, KnowsNext, Knows
  <2> QED
    BY <1>2, <2>2, <2>3, <2>4, CallStep
<1> QED
  BY <1>4, <1>5, <1>6

\* From the insert of the booking on.
LEMMA ConvertWritesKeep ==
  ASSUME TablesOK, CallsOK, NEW w \in Workers,
         \/ ConvertInsertBooking(w) \/ ConvertMarkRequest(w) \/ ConvertMarkHold(w)
         \/ ConvertRelease(w) \/ ConvertSyncBlock(w)
  PROVE  TablesOK' /\ CallsOK'
<1> USE DEF OnHold, OnStay, OnDeposit, PastGate, Marking, HoldRead, Converting
<1>0. call[w] \in CallRecord /\ KnowsNow(call[w])
  BY DEF CallsOK
<1>1. CASE ConvertInsertBooking(w)
  <2> DEFINE row == [request |-> call[w].request, stay |-> call[w].stay,
                     status |-> call[w].mode, suffixed |-> call[w].suffixed]
             c   == [call[w] EXCEPT !.at = "convert_mark_request", !.booking = Len(bookings) + 1]
  <2>1. /\ call[w].request \in Ids(requests) /\ call[w].mode \in BookingStatus
        /\ call[w].hold = requests[call[w].request].hold
        /\ call[w].stay = holds[call[w].hold].stay
        /\ call[w].mode = "confirmed" => PaidIn(call[w].request, deposits)
    BY <1>0, <1>1 DEF ConvertInsertBooking, At, KnowsNow, Knows, Ids
  <2>2. CASE Return(w) /\ UNCHANGED <<bookings, bookingBlock>>
    <3>1. UNCHANGED tables
      BY <1>1, <2>2 DEF ConvertInsertBooking, tables
    <3> QED
      BY <2>2, <3>1, NoTableStep, ReturnStep
  <2>3. CASE /\ bookings' = Append(bookings, row) /\ bookingBlock' = Append(bookingBlock, "absent")
             /\ Continue(w, c)
    <3>1. call[w].hold \in Ids(holds)
      BY <2>1 DEF TablesOK, References, HoldOf
    <3>2. call[w].stay \in Stays
      BY <2>1, <3>1, Domains DEF TablesOK, HoldRow
    <3>3. row \in BookingRow /\ row.request = call[w].request /\ row.stay = call[w].stay
          /\ row.status = call[w].mode
      BY <1>0, <2>1, <3>2 DEF BookingRow, CallRecord
    <3>4. UNCHANGED <<holds, holdBlock, requests, deposits>> /\ call' = [call EXCEPT ![w] = c]
      BY <1>1, <2>3 DEF ConvertInsertBooking, Continue
    <3>5. bookings' = Append(bookings, row) /\ bookingBlock' = Append(bookingBlock, "absent")
      BY <2>3
    <3>6. Len(bookings) + 1 \in Nat
      BY Domains DEF TablesOK
    <3>7. /\ c \in CallRecord /\ c.at = "convert_mark_request" /\ c.hold = call[w].hold
          /\ c.stay = call[w].stay /\ c.request = call[w].request /\ c.mode = call[w].mode
          /\ c.booking = Len(bookings) + 1
      BY <1>0, <3>6 DEF CallRecord, Step
    <3> HIDE DEF row, c
    <3>8. /\ TablesOK' /\ RowsKept
          /\ Len(bookings) + 1 \in Ids(bookings') /\ bookings'[Len(bookings) + 1] = row
      BY <2>1, <3>3, <3>4, <3>5, BookingInsertStep
    <3>9. KnowsNext(c)
      BY <2>1, <3>3, <3>4, <3>7, <3>8 DEF KnowsNext, Knows, Ids
    <3> QED
      BY <3>4, <3>7, <3>8, <3>9, CallStep
  <2> QED
    BY <1>1, <2>2, <2>3 DEF ConvertInsertBooking
<1>2. CASE ConvertMarkRequest(w)
  <2> DEFINE e == [requests[call[w].request] EXCEPT !.status  = "converted",
                                                     !.booking = call[w].booking]
             c == [call[w] EXCEPT !.at = "convert_mark_hold"]
  <2>1. /\ call[w].request \in Ids(requests) /\ call[w].booking \in Ids(bookings)
        /\ bookings[call[w].booking].request = call[w].request
    BY <1>0, <1>2 DEF ConvertMarkRequest, At, KnowsNow, Knows, Ids
  <2>2. e \in RequestRow /\ e.booking = call[w].booking /\ e.hold = requests[call[w].request].hold
    <3>1. requests[call[w].request] \in RequestRow /\ call[w].booking \in Nat
      BY <1>0, <2>1, Domains DEF TablesOK, CallRecord
    <3> QED
      BY <3>1 DEF RequestRow, RequestStatus
  <2>3. requests' = [requests EXCEPT ![call[w].request] = e] /\ OnlyRequests
    BY <1>2 DEF ConvertMarkRequest
  <2>4. call' = [call EXCEPT ![w] = c]
    BY <1>2 DEF ConvertMarkRequest, Goto
  <2>5. /\ c \in CallRecord /\ c.at = "convert_mark_hold" /\ c.hold = call[w].hold
        /\ c.stay = call[w].stay /\ c.request = call[w].request /\ c.mode = call[w].mode
        /\ c.booking = call[w].booking
    BY <1>0 DEF CallRecord, Step
  <2> HIDE DEF e, c
  <2>6. TablesOK' /\ RowsKept /\ requests'[call[w].request].booking # 0
    BY <2>1, <2>2, <2>3, MarkRequestStep
  <2>7. KnowsNext(call[w])
    BY <1>0, <2>6, KnowledgeLasts
  <2>8. KnowsNext(c)
    BY <1>2, <2>5, <2>6, <2>7 DEF ConvertMarkRequest, At, KnowsNext, Knows
  <2> QED
    BY <2>4, <2>5, <2>6, <2>8, CallStep
<1>3. CASE ConvertMarkHold(w)
  <2> DEFINE e == [holds[call[w].hold] EXCEPT !.status = "converted", !.booking = call[w].booking]
  <2>1. /\ call[w].request \in Ids(requests) /\ call[w].booking \in Ids(bookings)
        /\ bookings[call[w].booking].request = call[w].request
        /\ bookings[call[w].booking].stay = holds[call[w].hold].stay
        /\ HoldOf(call[w].request) = call[w].hold /\ requests[call[w].request].booking # 0
    BY <1>0, <1>3 DEF ConvertMarkHold, At, KnowsNow, Knows, Ids, HoldOf
  <2>2. call[w].hold \in Ids(holds)
    BY <2>1 DEF TablesOK, References
  <2>3. e \in HoldRow /\ e.booking = call[w].booking /\ e.stay = holds[call[w].hold].stay
    <3>1. holds[call[w].hold] \in HoldRow /\ call[w].booking \in Nat
      BY <1>0, <2>2, Domains DEF TablesOK, CallRecord
    <3> QED
      BY <3>1 DEF HoldRow, HoldStatus
  <2>4. holds' = [holds EXCEPT ![call[w].hold] = e] /\ OnlyHolds
    BY <1>3 DEF ConvertMarkHold
  <2> HIDE DEF e
  <2>5. TablesOK' /\ RowsKept
    BY <2>1, <2>2, <2>3, <2>4, MarkHoldStep
  <2>6. "convert_release" \in Step \ Relying
    BY DEF Step, Relying
  <2> QED
    BY <1>3, <2>5, <2>6, GotoStep DEF ConvertMarkHold
<1>4. CASE ConvertRelease(w)
  <2> DEFINE c == [call[w] EXCEPT !.at = "convert_sync_block"]
  <2>1. c \in CallRecord /\ c.at \notin Relying
    BY <1>0 DEF CallRecord, Step, Relying
  <2>2. ReleaseThen(w, call[w].hold, c) /\ OnlyHoldBlock
    BY <1>4 DEF ConvertRelease
  <2> HIDE DEF c
  <2> QED
    BY <2>1, <2>2, ReleaseStep
<1>5. CASE ConvertSyncBlock(w)
  BY <1>5, BookingBlockStep, ReturnStep DEF ConvertSyncBlock
<1> QED
  BY <1>1, <1>2, <1>3, <1>4, <1>5

LEMMA DecideKeeps ==
  ASSUME TablesOK, CallsOK, NEW w \in Workers, NEW d \in Ids(deposits), NEW endpoint,
         NEW step \in Step \ Relying, Decide(w, d, endpoint, step)
  PROVE  TablesOK' /\ CallsOK'
<1> DEFINE c == [Idle EXCEPT !.at = step, !.deposit = d]
<1>1. d \in Nat
  BY Domains DEF TablesOK
<1>2. c \in CallRecord /\ c.at \notin Relying
  BY <1>1 DEF Idle, CallRecord
<1>3. call' = [call EXCEPT ![w] = c] /\ NoTables
  BY DEF Decide, Begin
<1> HIDE DEF c
<1> QED
  BY <1>2, <1>3, ReadsOnly, FreeStep

LEMMA DepositBeginsKeeps ==
  ASSUME TablesOK, CallsOK, NEW w \in Workers, DepositBegins(w)
  PROVE  TablesOK' /\ CallsOK'
<1>1. ASSUME NEW r \in Ids(requests), RecreateReadRequest(w, r) PROVE TablesOK' /\ CallsOK'
  <2> DEFINE c == [Idle EXCEPT !.at = "recreate_read_deposit", !.request = r]
  <2>1. call' = [call EXCEPT ![w] = c] /\ NoTables
    BY <1>1 DEF RecreateReadRequest, Begin
  <2>2. r \in Nat /\ r \in DOMAIN requests'
    BY <2>1, Domains DEF TablesOK, NoTables, tables, Ids
  <2>3. c \in CallRecord /\ c.at = "recreate_read_deposit" /\ c.request = r
    BY <2>2 DEF Idle, CallRecord, Step
  <2> HIDE DEF c
  <2>4. KnowsNext(c)
    BY <2>2, <2>3 DEF KnowsNext, Knows, OnHold, OnStay, OnDeposit, PastGate, Marking, HoldRead,
                      Converting
  <2> QED
    BY <2>1, <2>3, <2>4, ReadsOnly, CallStep
<1>2. {"mark_paid_write", "mark_failed_write", "cancel_deposit_write", "refund_write"}
        \subseteq Step \ Relying
  BY DEF Step, Relying, OnHold, OnStay, OnDeposit, PastGate, Marking, HoldRead, Converting
<1>3. ASSUME NEW d \in Ids(deposits),
             \/ MarkPaidRead(w, d) \/ MarkFailedRead(w, d)
             \/ CancelDepositRead(w, d) \/ RefundRead(w, d)
      PROVE  TablesOK' /\ CallsOK'
  BY <1>2, <1>3, DecideKeeps DEF MarkPaidRead, MarkFailedRead, CancelDepositRead, RefundRead
<1> QED
  BY <1>1, <1>3 DEF DepositBegins

LEMMA EnsureKeeps ==
  ASSUME TablesOK, CallsOK, NEW w \in Workers,
         EnsureRead(w) \/ EnsureInsert(w) \/ EnsureStoreSession(w) \/ EnsureSessionFailed(w)
  PROVE  TablesOK' /\ CallsOK'
<1> USE DEF OnHold, OnStay, OnDeposit, PastGate, Marking, HoldRead, Converting
<1>0. call[w] \in CallRecord /\ KnowsNow(call[w])
  BY DEF CallsOK
<1>1. CASE EnsureRead(w)
  <2>1. TablesOK' /\ RowsKept
    BY <1>1, ReadsOnly DEF EnsureRead
  <2>2. CASE Return(w)
    BY <2>1, <2>2, ReturnStep
  <2>3. CASE Goto(w, "ensure_insert")
    <3> DEFINE c == [call[w] EXCEPT !.at = "ensure_insert"]
    <3>1. call' = [call EXCEPT ![w] = c]
      BY <2>3 DEF Goto
    <3>2. c \in CallRecord /\ c.at = "ensure_insert" /\ c.request = call[w].request
      BY <1>0 DEF CallRecord, Step
    <3>3. KnowsNext(call[w])
      BY <1>0, <2>1, KnowledgeLasts
    <3> HIDE DEF c
    <3>4. KnowsNext(c)
      BY <1>1, <3>2, <3>3 DEF EnsureRead, At, KnowsNext, Knows
    <3> QED
      BY <2>1, <3>1, <3>2, <3>4, CallStep
  <2> QED
    BY <1>1, <2>2, <2>3 DEF EnsureRead
<1>2. CASE EnsureInsert(w)
  <2> DEFINE row == [request |-> call[w].request, status |-> "pending",
                     open |-> FALSE, late |-> FALSE, paidAt |-> FALSE]
             c   == [call[w] EXCEPT !.at = "ensure_session", !.deposit = Len(deposits) + 1]
  <2>1. call[w].request \in Ids(requests)
    BY <1>0, <1>2 DEF EnsureInsert, At, KnowsNow, Knows, Ids
  <2>2. row \in DepositRow /\ row.request = call[w].request /\ row.status \notin PaidStatuses
    BY <1>0 DEF DepositRow, DepositStatus, PaidStatuses, CallRecord
  <2>3. /\ deposits' = Append(deposits, row) /\ OnlyDeposits
        /\ call' = [call EXCEPT ![w] = c]
    BY <1>2 DEF EnsureInsert, Continue
  <2>4. Len(deposits) + 1 \in Nat
    BY Domains DEF TablesOK
  <2>5. c \in CallRecord /\ c.at = "ensure_session"
    BY <1>0, <2>4 DEF CallRecord, Step
  <2> HIDE DEF row, c
  <2>6. TablesOK' /\ RowsKept
    BY <2>1, <2>2, <2>3, DepositInsertStep
  <2>7. c.at \notin Relying
    BY <2>5 DEF Relying
  <2> QED
    BY <2>3, <2>5, <2>6, <2>7, FreeStep
<1>3. CASE EnsureStoreSession(w)
  <2> DEFINE d == call[w].deposit
             e == [deposits[d] EXCEPT !.status = "pending", !.open = TRUE]
  <2>1. deposits' = [deposits EXCEPT ![d] = e] /\ OnlyDeposits
    BY <1>3 DEF EnsureStoreSession
  <2>2. d \in Ids(deposits) =>
           /\ e \in DepositRow /\ e.request = deposits[d].request
           /\ deposits[d].paidAt => e.paidAt
           /\ e.status \in PaidStatuses => e.paidAt
    BY Domains DEF TablesOK, DepositRow, DepositStatus, PaidStatuses
  <2> HIDE DEF d, e
  <2>3. TablesOK' /\ RowsKept
    BY <2>1, <2>2, DepositStep
  <2> QED
    BY <1>3, <2>3, ReturnStep DEF EnsureStoreSession
<1>4. CASE EnsureSessionFailed(w)
  BY <1>4, DepositStatusStep, ReturnStep DEF EnsureSessionFailed, DepositStatus, PaidStatuses
<1> QED
  BY <1>1, <1>2, <1>3, <1>4

LEMMA DecisionsKeep ==
  ASSUME TablesOK, CallsOK, NEW w \in Workers,
         \/ RecreateReadDeposit(w) \/ RecreateCancel(w)
         \/ MarkPaidWrite(w) \/ MarkFailedWrite(w) \/ CancelDepositWrite(w) \/ RefundWrite(w)
  PROVE  TablesOK' /\ CallsOK'
<1> USE DEF OnHold, OnStay, OnDeposit, PastGate, Marking, HoldRead, Converting
<1>0. call[w] \in CallRecord /\ KnowsNow(call[w])
  BY DEF CallsOK
<1>1. {"failed", "cancelled", "refunded"} \subseteq DepositStatus \ PaidStatuses
  BY DEF DepositStatus, PaidStatuses
<1>2. ASSUME TablesOK', RowsKept, At(w, "recreate_read_deposit") \/ At(w, "recreate_cancel"),
             NEW c \in CallRecord, c.at \in OnDeposit, c.request = call[w].request,
             call' = [call EXCEPT ![w] = c]
      PROVE  CallsOK'
  <2>1. KnowsNext(call[w])
    BY <1>0, <1>2, KnowledgeLasts
  <2>2. KnowsNext(c)
    BY <1>2, <2>1 DEF At, KnowsNext, Knows
  <2> QED
    BY <1>2, <2>2, CallStep
<1>3. [call[w] EXCEPT !.at = "ensure_read"] \in CallRecord
  BY <1>0 DEF CallRecord, Step
<1>4. CASE RecreateReadDeposit(w)
  <2> DEFINE d == LatestDeposit(call[w].request)
  <2>1. TablesOK' /\ RowsKept
    BY <1>4, ReadsOnly DEF RecreateReadDeposit
  <2>2. d \in Nat
    BY LatestDepositIsOwn DEF TablesOK, Typed
  <2> HIDE DEF d
  <2>3. [call[w] EXCEPT !.at = "recreate_cancel", !.deposit = d] \in CallRecord
    BY <1>0, <2>2 DEF CallRecord, Step
  <2>4. CASE call' = [call EXCEPT ![w] = [call[w] EXCEPT !.at = "recreate_cancel", !.deposit = d]]
    <3> DEFINE c == [call[w] EXCEPT !.at = "recreate_cancel", !.deposit = d]
    <3>1. c.at \in OnDeposit /\ c.request = call[w].request
      BY <1>0 DEF CallRecord
    <3>2. c \in CallRecord /\ call' = [call EXCEPT ![w] = c]
      BY <2>3, <2>4
    <3>3. At(w, "recreate_read_deposit")
      BY <1>4 DEF RecreateReadDeposit
    <3> HIDE DEF c
    <3> QED
      BY <1>2, <2>1, <3>1, <3>2, <3>3
  <2>5. CASE Goto(w, "ensure_read")
    <3> DEFINE c == [call[w] EXCEPT !.at = "ensure_read"]
    <3>1. c.at \in OnDeposit /\ c.request = call[w].request
      BY <1>0 DEF CallRecord
    <3>2. c \in CallRecord /\ call' = [call EXCEPT ![w] = c]
      BY <1>3, <2>5 DEF Goto
    <3>3. At(w, "recreate_read_deposit")
      BY <1>4 DEF RecreateReadDeposit
    <3> HIDE DEF c
    <3> QED
      BY <1>2, <2>1, <3>1, <3>2, <3>3
  <2> QED
    BY <1>4, <2>4, <2>5 DEF RecreateReadDeposit, Continue, d
<1>5. CASE RecreateCancel(w)
  <2> DEFINE c == [call[w] EXCEPT !.at = "ensure_read"]
  <2>1. TablesOK' /\ RowsKept
    BY <1>1, <1>5, DepositStatusStep DEF RecreateCancel
  <2>2. c.at \in OnDeposit /\ c.request = call[w].request
    BY <1>0 DEF CallRecord
  <2>3. c \in CallRecord /\ call' = [call EXCEPT ![w] = c]
    BY <1>3, <1>5 DEF RecreateCancel, Goto
  <2>4. At(w, "recreate_cancel")
    BY <1>5 DEF RecreateCancel
  <2> HIDE DEF c
  <2> QED
    BY <1>2, <2>1, <2>2, <2>3, <2>4
<1>6. CASE MarkPaidWrite(w)
  <2> DEFINE d == call[w].deposit
             e == [deposits[d] EXCEPT !.status = "manually_marked_paid", !.paidAt = TRUE]
  <2>1. deposits' = [deposits EXCEPT ![d] = e] /\ OnlyDeposits
    BY <1>6 DEF MarkPaidWrite
  <2>2. d \in Ids(deposits) =>
           /\ e \in DepositRow /\ e.request = deposits[d].request
           /\ deposits[d].paidAt => e.paidAt
           /\ e.status \in PaidStatuses => e.paidAt
    BY Domains DEF TablesOK, DepositRow, DepositStatus, PaidStatuses
  <2> HIDE DEF d, e
  <2>3. TablesOK' /\ RowsKept
    BY <2>1, <2>2, DepositStep
  <2> QED
    BY <1>6, <2>3, ReturnStep DEF MarkPaidWrite
<1>7. CASE MarkFailedWrite(w)
  BY <1>1, <1>7, DepositStatusStep, ReturnStep DEF MarkFailedWrite
<1>8. CASE CancelDepositWrite(w)
  BY <1>1, <1>8, DepositStatusStep, ReturnStep DEF CancelDepositWrite
<1>9. CASE RefundWrite(w)
  BY <1>1, <1>9, DepositStatusStep, ReturnStep DEF RefundWrite
<1> QED
  BY <1>4, <1>5, <1>6, <1>7, <1>8, <1>9

LEMMA ExpiryBeginsKeeps ==
  ASSUME TablesOK, CallsOK, NEW w \in Workers, ExpiryBegins(w)
  PROVE  TablesOK' /\ CallsOK'
<1> USE DEF Relying, OnHold, OnStay, OnDeposit, PastGate, Marking, HoldRead, Converting
<1>1. ASSUME NoTables, NEW todo \in SUBSET Nat, NEW step \in {"sweep_next", "expire_next"},
             Begin(w, [Idle EXCEPT !.at = step, !.todo = todo])
      PROVE  TablesOK' /\ CallsOK'
  <2> DEFINE c == [Idle EXCEPT !.at = step, !.todo = todo]
  <2>1. c \in CallRecord /\ c.at = step
    BY DEF Idle, CallRecord, Step
  <2>2. c.at \notin Relying
    BY <2>1
  <2>3. call' = [call EXCEPT ![w] = c]
    BY <1>1 DEF Begin
  <2> HIDE DEF c
  <2> QED
    BY <1>1, <2>1, <2>2, <2>3, ReadsOnly, FreeStep
<1>2. SweepCandidates \in SUBSET Nat /\ OverdueDeposits \in SUBSET Nat
  BY Domains DEF TablesOK, SweepCandidates, OverdueHolds, OverdueDeposits
<1> QED
  BY <1>1, <1>2 DEF ExpiryBegins, SweepBegin, DepositSweepBegin

\* A sweep goes on to its next row, or ends.
LEMMA NextRow ==
  ASSUME TablesOK, TablesOK', RowsKept, CallsOK, NEW w \in Workers, NextHold(w) \/ NextDeposit(w)
  PROVE  CallsOK'
<1>1. CASE Return(w)
  BY <1>1, ReturnStep
<1>2. ASSUME NEW step \in {"sweep_next", "expire_next"},
             Continue(w, [Idle EXCEPT !.at = step, !.todo = call[w].todo])
      PROVE  CallsOK'
  <2> DEFINE c == [Idle EXCEPT !.at = step, !.todo = call[w].todo]
  <2>1. call[w].todo \in SUBSET Nat
    BY DEF CallsOK, CallRecord
  <2>2. c \in CallRecord /\ c.at = step
    BY <2>1 DEF Idle, CallRecord, Step
  <2>3. c.at \notin Relying
    BY <2>2 DEF Relying, OnHold, OnStay, OnDeposit, PastGate, Marking, HoldRead, Converting
  <2>4. call' = [call EXCEPT ![w] = c]
    BY <1>2 DEF Continue
  <2> HIDE DEF c
  <2> QED
    BY <2>2, <2>3, <2>4, FreeStep
<1> QED
  BY <1>1, <1>2 DEF NextHold, NextDeposit

LEMMA HoldSweepKeeps ==
  ASSUME TablesOK, CallsOK, NEW w \in Workers,
         SweepExpireHold(w) \/ SweepRelease(w) \/ SweepReadLinked(w) \/ SweepExpireRequest(w)
  PROVE  TablesOK' /\ CallsOK'
<1> USE DEF OnHold, OnStay, OnDeposit, PastGate, Marking, HoldRead, Converting
<1>0. call[w] \in CallRecord
  BY DEF CallsOK
<1>1. call[w].todo \in SUBSET Nat /\ call[w].linked \in SUBSET Nat
  BY <1>0 DEF CallRecord
<1>2. CASE SweepExpireHold(w)
  <2>1. PICK h \in call[w].todo :
          /\ SetHoldStatus(h, "expired")
          /\ Continue(w, [call[w] EXCEPT !.at = "sweep_release", !.hold = h, !.todo = @ \ {h}])
    BY <1>2 DEF SweepExpireHold
  <2> DEFINE rest == call[w].todo \ {h}
             c    == [call[w] EXCEPT !.at = "sweep_release", !.hold = h, !.todo = rest]
  <2>2. TablesOK' /\ RowsKept
    BY <1>2, <2>1, HoldStatusStep DEF SweepExpireHold, HoldStatus
  <2>3. h \in Nat /\ rest \in SUBSET Nat
    BY <1>1
  <2>4. call' = [call EXCEPT ![w] = c]
    BY <1>0, <2>1 DEF Continue, CallRecord
  <2> HIDE DEF rest
  <2>5. c \in CallRecord /\ c.at = "sweep_release"
    BY <1>0, <2>3 DEF CallRecord, Step
  <2>6. c.at \notin Relying
    BY <2>5 DEF Relying
  <2> HIDE DEF c
  <2> QED
    BY <2>2, <2>4, <2>5, <2>6, FreeStep
<1>3. CASE SweepRelease(w)
  <2> DEFINE c == [call[w] EXCEPT !.at = "sweep_read_linked"]
  <2>1. c \in CallRecord /\ c.at \notin Relying
    BY <1>0 DEF CallRecord, Step, Relying
  <2>2. ReleaseThen(w, call[w].hold, c) /\ OnlyHoldBlock
    BY <1>3 DEF SweepRelease
  <2> HIDE DEF c
  <2> QED
    BY <2>1, <2>2, ReleaseStep
<1>4. CASE SweepReadLinked(w)
  <2> DEFINE linked == RequestsAt(call[w].hold, {"submitted", "under_review"})
             c      == [call[w] EXCEPT !.at = "sweep_expire_request", !.linked = linked]
  <2>1. TablesOK' /\ RowsKept
    BY <1>4, ReadsOnly DEF SweepReadLinked
  <2>2. linked \in SUBSET Nat
    BY Domains DEF TablesOK, RequestsAt
  <2>3. NextHold(w) \/ call' = [call EXCEPT ![w] = c]
    BY <1>4 DEF SweepReadLinked, Continue
  <2> HIDE DEF linked
  <2>4. c \in CallRecord /\ c.at = "sweep_expire_request"
    BY <1>0, <2>2 DEF CallRecord, Step
  <2>5. c.at \notin Relying
    BY <2>4 DEF Relying
  <2> HIDE DEF c
  <2> QED
    BY <2>1, <2>3, <2>4, <2>5, FreeStep, NextRow
<1>5. CASE SweepExpireRequest(w)
  <2>1. PICK r \in call[w].linked :
          /\ SetRequestStatus(r, "expired")
          /\ IF call[w].linked = {r} THEN NextHold(w)
             ELSE Continue(w, [call[w] EXCEPT !.linked = @ \ {r}])
    BY <1>5 DEF SweepExpireRequest
  <2> DEFINE rest == call[w].linked \ {r}
             c    == [call[w] EXCEPT !.linked = rest]
  <2>2. TablesOK' /\ RowsKept
    BY <1>5, <2>1, RequestStatusStep DEF SweepExpireRequest, RequestStatus
  <2>3. NextHold(w) \/ call' = [call EXCEPT ![w] = c]
    BY <1>0, <2>1 DEF Continue, CallRecord
  <2>4. c \in CallRecord /\ c.at = call[w].at
    BY <1>0, <1>1 DEF CallRecord
  <2>5. c.at \notin Relying
    BY <1>5, <2>4 DEF SweepExpireRequest, At, Relying
  <2> HIDE DEF c
  <2> QED
    BY <2>2, <2>3, <2>4, <2>5, FreeStep, NextRow
<1> QED
  BY <1>2, <1>3, <1>4, <1>5

LEMMA DepositSweepKeeps ==
  ASSUME TablesOK, CallsOK, NEW w \in Workers,
         \/ ExpireRead(w) \/ ExpireWrite(w) \/ ExpireReadRequest(w) \/ ExpireWriteRequest(w)
         \/ ExpireReadHold(w) \/ ExpireWriteHold(w) \/ ExpireRelease(w)
  PROVE  TablesOK' /\ CallsOK'
<1> USE DEF OnHold, OnStay, OnDeposit, PastGate, Marking, HoldRead, Converting
<1>0. call[w] \in CallRecord /\ KnowsNow(call[w])
  BY DEF CallsOK
<1>1. call[w].todo \in SUBSET Nat
  BY <1>0 DEF CallRecord
<1>2. {"expire_write_request", "expire_read_hold", "expire_write_hold", "expire_release"}
        \subseteq Step \ Relying
  BY DEF Step, Relying
<1>3. CASE ExpireRead(w)
  <2>1. TablesOK' /\ RowsKept
    BY <1>3, ReadsOnly DEF ExpireRead
  <2>2. PICK d \in call[w].todo :
          LET rest == call[w].todo \ {d} IN
          IF d \in OverdueDeposits
          THEN Continue(w, [call[w] EXCEPT !.at = "expire_write", !.deposit = d, !.todo = rest])
          ELSE IF rest = {} THEN Return(w) ELSE Continue(w, [call[w] EXCEPT !.todo = rest])
    BY <1>3 DEF ExpireRead
  <2> DEFINE rest == call[w].todo \ {d}
             c    == [call[w] EXCEPT !.at = "expire_write", !.deposit = d, !.todo = rest]
             skip == [call[w] EXCEPT !.todo = rest]
  <2>3. d \in Nat /\ rest \in SUBSET Nat
    BY <1>1
  <2>4. \/ d \in OverdueDeposits /\ call' = [call EXCEPT ![w] = c]
        \/ Return(w)
        \/ call' = [call EXCEPT ![w] = skip]
    BY <2>2 DEF Continue
  <2> HIDE DEF rest
  <2>5. CASE d \in OverdueDeposits /\ call' = [call EXCEPT ![w] = c]
    <3>1. d \in DOMAIN deposits'
      BY <2>1, <2>5 DEF RowsKept, OverdueDeposits, Ids
    <3>2. c \in CallRecord /\ c.at = "expire_write" /\ c.deposit = d
      BY <1>0, <2>3 DEF CallRecord, Step
    <3> HIDE DEF c
    <3>3. KnowsNext(c)
      BY <3>1, <3>2 DEF KnowsNext, Knows
    <3> QED
      BY <2>1, <2>5, <3>2, <3>3, CallStep
  <2>6. CASE call' = [call EXCEPT ![w] = skip]
    <3>1. skip \in CallRecord /\ skip.at = call[w].at
      BY <1>0, <2>3 DEF CallRecord
    <3> HIDE DEF skip
    <3>2. skip.at \notin Relying
      BY <1>3, <3>1 DEF ExpireRead, At, Relying
    <3> QED
      BY <2>1, <2>6, <3>1, <3>2, FreeStep
  <2> HIDE DEF c, skip
  <2> QED
    BY <2>1, <2>4, <2>5, <2>6, ReturnStep
<1>4. CASE ExpireWrite(w)
  <2> DEFINE r == deposits[call[w].deposit].request
             c == [call[w] EXCEPT !.at = "expire_read_request", !.request = r, !.hold = HoldOf(r)]
  <2>1. call[w].deposit \in Ids(deposits)
    BY <1>0, <1>4 DEF ExpireWrite, At, KnowsNow, Knows, Ids
  <2>2. r \in Nat /\ HoldOf(r) \in Nat
    <3>1. r \in Ids(requests)
      BY <2>1 DEF TablesOK, References
    <3>2. HoldOf(r) \in Ids(holds)
      BY <3>1 DEF TablesOK, References
    <3> QED
      BY <3>1, <3>2, Domains DEF TablesOK
  <2>3. TablesOK' /\ RowsKept
    BY <1>4, DepositStatusStep DEF ExpireWrite, DepositStatus, PaidStatuses
  <2>4. call' = [call EXCEPT ![w] = c]
    BY <1>4 DEF ExpireWrite, Continue
  <2> HIDE DEF r
  <2>5. c \in CallRecord /\ c.at = "expire_read_request"
    BY <1>0, <2>2 DEF CallRecord, Step
  <2>6. c.at \notin Relying
    BY <2>5 DEF Relying
  <2> HIDE DEF c
  <2> QED
    BY <2>3, <2>4, <2>5, <2>6, FreeStep
<1>5. CASE ExpireReadRequest(w)
  BY <1>2, <1>5, ReadsOnly, GotoStep DEF ExpireReadRequest
<1>6. CASE ExpireWriteRequest(w)
  BY <1>2, <1>6, RequestStatusStep, GotoStep DEF ExpireWriteRequest, RequestStatus
<1>7. CASE ExpireReadHold(w)
  BY <1>2, <1>7, ReadsOnly, GotoStep, NextRow DEF ExpireReadHold
<1>8. CASE ExpireWriteHold(w)
  BY <1>2, <1>8, HoldStatusStep, GotoStep DEF ExpireWriteHold, HoldStatus
<1>9. CASE ExpireRelease(w)
  <2> DEFINE next == [Idle EXCEPT !.at = "expire_next", !.todo = call[w].todo]
             c    == IF call[w].todo = {} THEN Idle ELSE next
  <2>1. Idle \in CallRecord /\ Idle.at \notin Relying
    BY IdleKnows DEF Idle, Relying
  <2>2. next \in CallRecord /\ next.at = "expire_next"
    BY <1>1 DEF Idle, CallRecord, Step
  <2>3. next.at \notin Relying
    BY <2>2 DEF Relying
  <2>4. ReleaseThen(w, call[w].hold, c) /\ OnlyHoldBlock
    BY <1>9 DEF ExpireRelease
  <2> HIDE DEF next
  <2>5. c \in CallRecord /\ c.at \notin Relying
    BY <2>1, <2>2, <2>3
  <2> HIDE DEF c
  <2> QED
    BY <2>4, <2>5, ReleaseStep
<1> QED
  BY <1>3, <1>4, <1>5, <1>6, <1>7, <1>8, <1>9

LEMMA StaffAndClockKeep ==
  ASSUME TablesOK, CallsOK, Reviews \/ Clock
  PROVE  TablesOK' /\ CallsOK'
<1>1. UNCHANGED call
  BY DEF Reviews, Clock, MarkUnderReview, Approve, HoldDeadlinePasses, DepositDeadlinePasses
<1>2. CASE Reviews
  <2>1. PICK r \in Ids(requests) : MarkUnderReview(r) \/ Approve(r)
    BY <1>2 DEF Reviews
  <2>2. TablesOK' /\ RowsKept
    BY <2>1, RequestStatusStep DEF MarkUnderReview, Approve, RequestStatus
  <2> QED
    BY <1>1, <2>2, CallsStay
<1>3. ASSUME NEW h \in Ids(holds), HoldDeadlinePasses(h) PROVE TablesOK' /\ RowsKept
  <2> DEFINE e == [holds[h] EXCEPT !.late = TRUE]
  <2>1. holds' = [holds EXCEPT ![h] = e] /\ OnlyHolds
    BY <1>3 DEF HoldDeadlinePasses, OnlyHolds
  <2>2. /\ holds \in Seq(HoldRow) /\ Ids(holds) = 1..Len(holds)
        /\ \A j \in 1..Len(holds) : holds[j] \in HoldRow
    BY Domains DEF TablesOK, Typed
  <2>3. /\ e \in HoldRow /\ e.stay = holds[h].stay /\ e.booking = holds[h].booking
        /\ e.status = holds[h].status
    BY <2>2 DEF HoldRow
  <2> HIDE DEF e
  <2>4. /\ holds' \in Seq(HoldRow) /\ Len(holds') = Len(holds)
        /\ \A j \in 1..Len(holds) : holds'[j] = IF j = h THEN e ELSE holds[j]
    BY <2>1, <2>2, <2>3, RowWrite
  <2> QED
    BY <2>1, <2>3, <2>4, HoldsStep
<1>4. ASSUME NEW d \in Ids(deposits), DepositDeadlinePasses(d) PROVE TablesOK' /\ RowsKept
  <2> DEFINE e == [deposits[d] EXCEPT !.late = TRUE]
  <2>1. deposits' = [deposits EXCEPT ![d] = e] /\ OnlyDeposits
    BY <1>4 DEF DepositDeadlinePasses
  <2>2. /\ e \in DepositRow /\ e.request = deposits[d].request
        /\ e.paidAt = deposits[d].paidAt /\ e.status = deposits[d].status
    BY Domains DEF TablesOK, DepositRow
  <2> HIDE DEF e
  <2> QED
    BY <2>1, <2>2, DepositStep DEF TablesOK, PaidHasPaidAt
<1>5. CASE Clock
  BY <1>1, <1>3, <1>4, <1>5, CallsStay DEF Clock
<1> QED
  BY <1>2, <1>5

------------------------------------------------------------------------------
(* The invariant *)

LEMMA WorkerKeeps ==
  ASSUME TablesOK, CallsOK, NEW w \in Workers, Begins(w) \/ Steps(w) \/ Crash(w)
  PROVE  TablesOK' /\ CallsOK'
<1>1. CASE Begins(w)
  BY <1>1, HoldBeginsKeeps, RequestBeginsKeeps, DepositBeginsKeeps, ExpiryBeginsKeeps DEF Begins
<1>2. CASE HoldSteps(w)
  BY <1>2, CreateKeeps, CancelKeeps DEF HoldSteps
<1>3. CASE RequestSteps(w)
  BY <1>3, SubmitAndRejectKeep, ConvertReadsKeep, ConvertWritesKeep DEF RequestSteps
<1>4. CASE DepositSteps(w)
  BY <1>4, EnsureKeeps, DecisionsKeep DEF DepositSteps
<1>5. CASE ExpirySteps(w)
  BY <1>5, HoldSweepKeeps, DepositSweepKeeps DEF ExpirySteps
<1>6. CASE Crash(w)
  BY <1>6, NoTableStep, ReturnStep DEF Crash
<1> QED
  BY <1>1, <1>2, <1>3, <1>4, <1>5, <1>6 DEF Steps

\* Only a crash is counted.
LEMMA CrashesCount ==
  ASSUME crashes \in Nat, [Next]_vars
  PROVE  crashes' \in Nat
<1> USE DEF NoTables, OnlyHolds, OnlyHoldBlock, OnlyRequests, OnlyDeposits
<1>1. ASSUME NEW w \in Workers, Begins(w) PROVE UNCHANGED crashes
  BY <1>1 DEF Begins, HoldBegins, CreateCheckBookings, CancelRead, AdminCancelRead,
       RequestBegins, SubmitRead, RejectWriteRequest, ConvertRead,
       DepositBegins, RecreateReadRequest, MarkPaidRead, MarkFailedRead, CancelDepositRead,
       RefundRead, Decide, ExpiryBegins, SweepBegin, DepositSweepBegin
<1>2. ASSUME NEW w \in Workers, HoldSteps(w) \/ RequestSteps(w) PROVE UNCHANGED crashes
  BY <1>2 DEF HoldSteps, CreateCheckBlocks, CreateInsertHold, CreateInsertBlock,
       CreateInsertRequest, CancelWriteHold, CancelRelease, AdminCancelWriteHold,
       AdminCancelRelease, AdminCancelSyncRead, AdminCancelSyncWrite,
       RequestSteps, SubmitLapseHold, SubmitLapseRelease, SubmitInsertRequest,
       RejectWriteHold, RejectRelease, ConvertReadHold, ConvertReadDeposit, ConvertPickCode,
       ConvertInsertBooking, ConvertMarkRequest, ConvertMarkHold, ConvertRelease, ConvertSyncBlock
<1>3. ASSUME NEW w \in Workers, DepositSteps(w) \/ ExpirySteps(w) PROVE UNCHANGED crashes
  BY <1>3 DEF DepositSteps, EnsureRead, EnsureInsert, EnsureStoreSession, EnsureSessionFailed,
       RecreateReadDeposit, RecreateCancel, MarkPaidWrite, MarkFailedWrite, CancelDepositWrite,
       RefundWrite, ExpirySteps, SweepExpireHold, SweepRelease, SweepReadLinked,
       SweepExpireRequest, ExpireRead, ExpireWrite, ExpireReadRequest, ExpireWriteRequest,
       ExpireReadHold, ExpireWriteHold, ExpireRelease
<1>4. ASSUME NEW w \in Workers, Crash(w) PROVE crashes' = crashes + 1
  BY <1>4 DEF Crash
<1>5. ASSUME Reviews \/ Clock PROVE UNCHANGED crashes
  BY <1>5 DEF Reviews, Clock, MarkUnderReview, Approve, HoldDeadlinePasses, DepositDeadlinePasses
<1>6. CASE UNCHANGED vars
  BY <1>6 DEF vars
<1> QED
  BY <1>1, <1>2, <1>3, <1>4, <1>5, <1>6 DEF Next, Steps

LEMMA InvInit == Init => Inv
<1> SUFFICES ASSUME Init PROVE Inv
  OBVIOUS
<1>1. /\ holds = <<>> /\ holdBlock = <<>> /\ requests = <<>>
      /\ deposits = <<>> /\ bookings = <<>> /\ bookingBlock = <<>>
  BY DEF Init
<1>2. Typed
  BY <1>1, EmptySeq DEF Typed
<1>3. TablesOK
  BY <1>1, <1>2 DEF TablesOK, References, PaidHasPaidAt, ConfirmedBookingHasPaidDeposit,
                    ConversionLinks, Ids
<1>4. call \in [Workers -> CallRecord] /\ \A w \in Workers : call[w] = Idle
  BY IdleKnows DEF Init
<1>5. CallsOK
  BY <1>4, IdleKnows DEF CallsOK, KnowsNow
<1>6. crashes \in Nat
  BY DEF Init
<1> QED
  BY <1>3, <1>5, <1>6 DEF Inv

LEMMA InvNext == Inv /\ [Next]_vars => Inv'
<1> SUFFICES ASSUME Inv, [Next]_vars PROVE Inv'
  OBVIOUS
<1>0. TablesOK /\ CallsOK /\ crashes \in Nat
  BY DEF Inv
<1>1. crashes' \in Nat
  BY <1>0, CrashesCount
<1>2. TablesOK' /\ CallsOK'
  <2>1. CASE \E w \in Workers : Begins(w) \/ Steps(w) \/ Crash(w)
    BY <1>0, <2>1, WorkerKeeps
  <2>2. CASE Reviews \/ Clock
    BY <1>0, <2>2, StaffAndClockKeep
  <2>3. CASE UNCHANGED vars
    BY <1>0, <2>3, NoTableStep, CallsStay DEF vars
  <2> QED
    BY <2>1, <2>2, <2>3 DEF Next
<1> QED
  BY <1>1, <1>2 DEF Inv

LEMMA InvHolds == Spec => []Inv
  BY InvInit, InvNext, PTL DEF Spec

------------------------------------------------------------------------------
(* Results *)

\* Whatever the interleaving and wherever a handler dies: every row has its
\* type, every foreign key names a row, and the two block columns keep step
\* with their tables.
THEOREM TypeCorrect == Spec => []TypeOK
<1>1. Inv => TypeOK
  BY DEF Inv, TablesOK, Typed, References, CallsOK, TypeOK
<1> QED
  BY <1>1, InvHolds, PTL

\* The deposit gate of convertDirectBookingRequestToBookingAction cannot be
\* raced: what it saw may be refunded before the booking is inserted, and
\* still every confirmed booking has a deposit that was paid.
THEOREM DepositGate == Spec => []ConfirmedBookingHasPaidDeposit
<1>1. Inv => ConfirmedBookingHasPaidDeposit
  BY DEF Inv, TablesOK
<1> QED
  BY <1>1, InvHolds, PTL

\* The links a conversion writes one by one never dangle or cross, however
\* many conversions of the same hold or request run at once or die half-way.
THEOREM LinksNeverCross == Spec => []ConversionLinks
<1>1. Inv => ConversionLinks
  BY DEF Inv, TablesOK
<1> QED
  BY <1>1, InvHolds, PTL

==============================================================================
