---------------------------- MODULE FinanceBridge ----------------------------
(***************************************************************************)
(* Revenue of converted direct bookings: postDirectBookingRevenue, its     *)
(* reversal and the batch that posts whatever is unposted                  *)
(* (features/direct-booking/finance-reconciliation.ts).  A request has at  *)
(* most one row in direct_booking_finance_links, its link; a posting adds  *)
(* a row to revenue_lines and makes the link point at it.                  *)
(*                                                                         *)
(* As in DirectBookingDb every statement commits on its own, and a record  *)
(* in `call' holds what an invocation does next and what it has read.      *)
(* Line 0 and code 0 stand for NULL.  All service dates fall into one      *)
(* statement period, and all links are made on one day.                    *)
(***************************************************************************)
EXTENDS Naturals, Sequences, FiniteSets

CONSTANTS
  Requests,   \* direct-booking requests
  Workers,    \* concurrent server actions of the finance staff
  MaxLines,   \* bound on revenue_lines
  MaxCalls,   \* bound on invocations
  MaxFaults   \* bound on invocations that die and statements that raise

ASSUME RequestsAssumption == IsFiniteSet(Requests) /\ "none" \notin Requests
ASSUME BoundsAssumption == {MaxLines, MaxCalls, MaxFaults} \subseteq Nat

VARIABLES
  converted,    \* the requests that have become bookings
  locked,       \* the statement period is closed or locked
  lines,        \* revenue_lines, in the order they were written
  link,         \* per request, its row of direct_booking_finance_links
  bridgeStatus, \* direct_booking_requests.finance_bridge_status
  call,         \* what each worker is doing
  calls,        \* how many invocations there have been
  faults,       \* how many faults there have been
  mishap        \* history: two invocations were at work on the request at once,
                \* one died, or a statement raised after its line was written

tables == <<converted, locked, lines, link, bridgeStatus>>
vars   == <<tables, call, calls, faults, mishap>>

LinkStatus == {"pending", "posted", "skipped_no_booking", "skipped_locked_period",
               "failed", "reversed"}
LineRow    == [request : Requests, status : {"posted", "reversed"}]
LinkRow    == [status : LinkStatus, line : Nat, code : Nat \ {0}]
NoLink     == [status |-> "none", line |-> 0, code |-> 0]

Step == {"idle", "context", "link", "period", "line", "find", "update", "insert",
         "mirror", "notify",
         "reverse", "reverse_line", "reverse_link", "reverse_mirror"}
\* `status' is the one the link will get, "pending" until that is known.
Call == [at : Step, request : Requests \cup {"none"}, todo : SUBSET Requests,
         status : LinkStatus, line : Nat, code : Nat]
Idle == [at |-> "idle", request |-> "none", todo |-> {},
         status |-> "pending", line |-> 0, code |-> 0]

Init ==
  /\ converted = {}
  /\ locked = FALSE
  /\ lines = <<>>
  /\ link = [r \in Requests |-> NoLink]
  /\ bridgeStatus = [r \in Requests |-> "pending"]
  /\ call = [w \in Workers |-> Idle]
  /\ calls = 0 /\ faults = 0
  /\ mishap = [r \in Requests |-> FALSE]

Busy(r)       == \E w \in Workers : call[w].request = r
Exists(r)     == link[r] # NoLink
Codes         == {link[r].code : r \in {q \in Requests : Exists(q)}}
PostedLines(r) == {i \in DOMAIN lines : lines[i] = [request |-> r, status |-> "posted"]}

At(w, step)    == call[w].at = step
Continue(w, c) == call' = [call EXCEPT ![w] = c]
Goto(w, step)  == Continue(w, [call[w] EXCEPT !.at = step])
Return(w)      == Continue(w, Idle)

\* The worker turns to a request, perhaps one that another is at work on.
TakeUp(w, step, r, rest) ==
  /\ Continue(w, [Idle EXCEPT !.at = step, !.request = r, !.todo = rest])
  /\ mishap' = [mishap EXCEPT ![r] = @ \/ Busy(r)]

\* A batch goes on with any of the candidates left.
PostNext(w, todo) == \E r \in todo : TakeUp(w, "context", r, todo \ {r})

Finish(w) == \/ call[w].todo = {} /\ Return(w) /\ UNCHANGED mishap
             \/ PostNext(w, call[w].todo)

\* The catch clause of a posting, which records the failure in the link.
Catch(w) ==
  /\ Continue(w, [call[w] EXCEPT !.at = "find", !.status = "failed", !.line = 0, !.code = 0])
  /\ mishap' = [mishap EXCEPT ![call[w].request] = @ \/ call[w].line # 0]

Reading == UNCHANGED <<tables, calls, faults>>

Starting(w) ==
  /\ call[w] = Idle /\ calls < MaxCalls
  /\ calls' = calls + 1
  /\ UNCHANGED <<tables, faults>>

------------------------------------------------------------------------------
(* Slips the code could plausibly contain; none is part of the             *)
(* specification.  They show that the properties would notice.             *)

\* The counter of the link codes starts one too low.
NextCodeFromZero == Cardinality(Codes)

\* link_code is not UNIQUE.
InsertRefusedForRequest(w) == Exists(call[w].request)

\* A posting does not look whether the link is already posted.
AlreadyPostedNever(w) == FALSE

\* The reversal leaves a line alone that a closed period protects, and goes on.
ReverseLineIfOpen(w) ==
  /\ At(w, "reverse_line")
  /\ Goto(w, "reverse_link")
  /\ lines' = IF locked THEN lines ELSE [lines EXCEPT ![call[w].line].status = "reversed"]
  /\ UNCHANGED <<converted, locked, link, bridgeStatus, calls, faults, mishap>>

\* The trigger does not cover updates.
ReverseLineAnyTime(w) ==
  /\ At(w, "reverse_line")
  /\ Goto(w, "reverse_link")
  /\ lines' = [lines EXCEPT ![call[w].line].status = "reversed"]
  /\ UNCHANGED <<converted, locked, link, bridgeStatus, calls, faults, mishap>>

------------------------------------------------------------------------------
(* postDirectBookingRevenue: the reads and the gate *)

StartPost(w, r) == Starting(w) /\ TakeUp(w, "context", r, {})

\* shouldPostDirectBookingRevenue.  Whether the deposit is paid, or the booking
\* tentative so that it need not be, changes freely: it is an input here.
\* "pending": the posting may go on.
Gate(r) == IF r \in converted THEN {"pending", "failed"} ELSE {"skipped_no_booking"}

ReadContext(w) ==
  /\ At(w, "context")
  /\ \E s \in Gate(call[w].request) :
       Continue(w, [call[w] EXCEPT !.at = "link", !.status = s])
  /\ Reading /\ UNCHANGED mishap

AlreadyPosted(w) == link[call[w].request].status = "posted"

\* A posted link wins over what the gate made of the request before.
ReadLink(w) ==
  /\ At(w, "link")
  /\ \/ AlreadyPosted(w) /\ Finish(w)
     \/ /\ ~AlreadyPosted(w)
        /\ Goto(w, IF call[w].status = "pending" THEN "period" ELSE "find")
        /\ UNCHANGED mishap
  /\ Reading

\* findLockingPeriod
ReadPeriod(w) ==
  /\ At(w, "period")
  /\ Continue(w, IF locked
                 THEN [call[w] EXCEPT !.at = "find", !.status = "skipped_locked_period"]
                 ELSE [call[w] EXCEPT !.at = "line"])
  /\ Reading /\ UNCHANGED mishap

------------------------------------------------------------------------------
(* The revenue line.  fn_prevent_locked_period_mutation raises when the    *)
(* period was closed after it was checked.                                 *)

InsertLine(w) ==
  /\ At(w, "line")
  /\ \/ locked /\ Catch(w) /\ UNCHANGED lines
     \/ /\ ~locked /\ Len(lines) < MaxLines
        /\ lines' = Append(lines, [request |-> call[w].request, status |-> "posted"])
        /\ Continue(w, [call[w] EXCEPT !.at = "find", !.status = "posted", !.line = Len(lines) + 1])
        /\ UNCHANGED mishap
  /\ UNCHANGED <<converted, locked, link, bridgeStatus, calls, faults>>

------------------------------------------------------------------------------
(* upsertLink: no ON CONFLICT, but a read and then an UPDATE or an INSERT *)

\* pickUniqueLinkCode counts the codes of the day and takes the next number.
NextCode == Cardinality(Codes) + 1

\* The two reads are one step: the code is picked as soon as no link is found.
FindLink(w) ==
  /\ At(w, "find")
  /\ Continue(w, IF Exists(call[w].request) THEN [call[w] EXCEPT !.at = "update"]
                 ELSE [call[w] EXCEPT !.at = "insert", !.code = NextCode])
  /\ Reading /\ UNCHANGED mishap

\* A link keeps its line unless a new one is given.  (The line cannot have
\* been taken from the row since it was read: no statement nulls it.)
UpdateLink(w) ==
  LET r == call[w].request IN
  /\ At(w, "update")
  /\ link' = [link EXCEPT ![r].status = call[w].status,
                          ![r].line = IF call[w].line # 0 THEN call[w].line ELSE @]
  /\ Goto(w, "mirror")
  /\ UNCHANGED <<converted, locked, lines, bridgeStatus, calls, faults, mishap>>

\* request_id and link_code are UNIQUE.
InsertRefused(w) == Exists(call[w].request) \/ call[w].code \in Codes

\* Only the upsert of a posted link stands inside the try.
InsertLink(w) ==
  LET c == call[w] IN
  /\ At(w, "insert")
  /\ \/ /\ ~InsertRefused(w)
        /\ link' = [link EXCEPT ![c.request] =
                      [status |-> c.status, line |-> c.line, code |-> c.code]]
        /\ Continue(w, [c EXCEPT !.at = "mirror", !.code = 0]) /\ UNCHANGED mishap
     \/ /\ InsertRefused(w)
        /\ IF c.status = "posted" THEN Catch(w) ELSE Return(w) /\ UNCHANGED mishap
        /\ UNCHANGED link
  /\ UNCHANGED <<converted, locked, lines, bridgeStatus, calls, faults>>

MirrorStatus(w) ==
  /\ At(w, "mirror")
  /\ bridgeStatus' = [bridgeStatus EXCEPT ![call[w].request] = call[w].status]
  /\ IF call[w].status = "posted" THEN Goto(w, "notify") /\ UNCHANGED mishap ELSE Finish(w)
  /\ UNCHANGED <<converted, locked, lines, link, calls, faults>>

\* The audit event and the notification, the last statements inside the try.
Notify(w) == At(w, "notify") /\ Finish(w) /\ Reading

------------------------------------------------------------------------------
(* reconcileDirectBookingsBatch *)

StartBatch(w) ==
  LET unposted == {r \in converted : link[r].status \notin {"posted", "reversed"}}
  IN Starting(w) /\ PostNext(w, unposted)

------------------------------------------------------------------------------
(* reverseDirectBookingFinanceLink *)

StartReverse(w, r) == Starting(w) /\ Exists(r) /\ TakeUp(w, "reverse", r, {})

\* The link is looked up by organisation.  upsertLink stores none, only the
\* backfill of migration 0153 does: whether the row is found is an input.
ReverseRead(w) ==
  LET l == link[call[w].request] IN
  /\ At(w, "reverse")
  /\ \/ Return(w)
     \/ /\ l.status = "posted"
        /\ Continue(w, [call[w] EXCEPT !.at = "reverse_line", !.line = l.line])
  /\ Reading /\ UNCHANGED mishap

\* Nothing catches what the trigger raises.
ReverseLine(w) ==
  /\ At(w, "reverse_line")
  /\ \/ locked /\ Return(w) /\ UNCHANGED lines
     \/ /\ ~locked
        /\ lines' = [lines EXCEPT ![call[w].line].status = "reversed"]
        /\ Goto(w, "reverse_link")
  /\ UNCHANGED <<converted, locked, link, bridgeStatus, calls, faults, mishap>>

ReverseLink(w) ==
  /\ At(w, "reverse_link")
  /\ link' = [link EXCEPT ![call[w].request].status = "reversed"]
  /\ Goto(w, "reverse_mirror")
  /\ UNCHANGED <<converted, locked, lines, bridgeStatus, calls, faults, mishap>>

ReverseMirror(w) ==
  /\ At(w, "reverse_mirror")
  /\ bridgeStatus' = [bridgeStatus EXCEPT ![call[w].request] = "reversed"]
  /\ Return(w)
  /\ UNCHANGED <<converted, locked, lines, link, calls, faults, mishap>>

------------------------------------------------------------------------------
(* Faults *)

\* The invocation dies, or an exception ends it.
Die(w) ==
  /\ faults < MaxFaults /\ call[w] # Idle
  /\ faults' = faults + 1
  /\ mishap' = [r \in Requests |-> mishap[r] \/ call[w].request = r]
  /\ Return(w) /\ UNCHANGED <<tables, calls>>

\* Once the line is written, an exception is caught.
StatementRaises(w) ==
  /\ faults < MaxFaults /\ call[w].status = "posted"
  /\ faults' = faults + 1
  /\ Catch(w) /\ UNCHANGED <<tables, calls>>

------------------------------------------------------------------------------
(* What others do: a request is converted; the period is closed or opened  *)
(* again.                                                                  *)

Convert(r) ==
  /\ r \notin converted
  /\ converted' = converted \cup {r}
  /\ UNCHANGED <<locked, lines, link, bridgeStatus, call, calls, faults, mishap>>

\* setPeriodStatusAction moves a period from any status to any other.
SetPeriodStatus ==
  /\ locked' = ~locked
  /\ UNCHANGED <<converted, lines, link, bridgeStatus, call, calls, faults, mishap>>

Post(w)    == \/ ReadContext(w) \/ ReadLink(w) \/ ReadPeriod(w) \/ InsertLine(w)
              \/ FindLink(w) \/ UpdateLink(w) \/ InsertLink(w)
              \/ MirrorStatus(w) \/ Notify(w)
Reverse(w) == ReverseRead(w) \/ ReverseLine(w) \/ ReverseLink(w) \/ ReverseMirror(w)

Next ==
  \/ \E w \in Workers : \/ \E r \in Requests : StartPost(w, r) \/ StartReverse(w, r)
                        \/ StartBatch(w) \/ Post(w) \/ Reverse(w)
                        \/ Die(w) \/ StatementRaises(w)
  \/ \E r \in Requests : Convert(r)
  \/ SetPeriodStatus

Spec == Init /\ [][Next]_vars

------------------------------------------------------------------------------
TypeOK ==
  /\ converted \subseteq Requests /\ locked \in BOOLEAN
  /\ lines \in Seq(LineRow)
  /\ link \in [Requests -> LinkRow \cup {NoLink}]
  /\ bridgeStatus \in [Requests -> LinkStatus]
  /\ call \in [Workers -> Call]
  /\ {calls, faults} \subseteq Nat /\ mishap \in [Requests -> BOOLEAN]

\* Whatever races or dies, a link that says posted points at a line, no link
\* points at the line of another request, and no two links share a code.
LinkOwnsLine ==
  \A r \in Requests : Exists(r) =>
    /\ link[r].status = "posted" => link[r].line # 0
    /\ link[r].line # 0 => link[r].line \in DOMAIN lines /\ lines[link[r].line].request = r
    /\ \A q \in Requests : link[q].code = link[r].code => q = r

CountedOnce(r) == \A i, j \in PostedLines(r) : i = j

\* Posting is idempotent for every request that two invocations never worked
\* on at once and whose postings were never interrupted: repeating it, alone or
\* in a batch, with closed periods, refunds and reversals in between, never
\* counts its revenue twice.
RevenueCountsOnce ==
  \A r \in Requests : ~mishap[r] => CountedOnce(r)

\* When such a request is at rest, ledger, link and request tell the same
\* story: the one line that counts is the one a posted link points at, and the
\* request shows the status of its link.
LedgerAgrees ==
  \A r \in Requests : ~mishap[r] /\ ~Busy(r) =>
    /\ PostedLines(r) = IF link[r].status = "posted" THEN {link[r].line} ELSE {}
    /\ bridgeStatus[r] = IF Exists(r) THEN link[r].status ELSE "pending"

\* The lines of a closed period are final, even for an invocation that found
\* the period open before it was closed.
ClosedPeriodFrozen == [][locked => lines' = lines]_vars

------------------------------------------------------------------------------
(* The promise about revenue that ledger and links implement *)

\* The requests with a mishap are given up; of the others, the lines that count
\* and the one that a posted link reports.
Strayed == {r \in Requests : mishap[r]}
Counted == [r \in Requests |-> IF mishap[r] THEN {} ELSE PostedLines(r)]
Shown   == [r \in Requests |->
              IF ~mishap[r] /\ link[r].status = "posted" THEN {link[r].line} ELSE {}]

Ledger == INSTANCE RevenueLedger WITH
  Entries <- 1..MaxLines, booked <- converted, closed <- locked,
  strayed <- Strayed, counted <- Counted, shown <- Shown

\* What postings, batches and reversals do to lines and links, seen as the
\* revenue that counts and is reported, is a behaviour of RevenueLedger: only a
\* booked request counts, once, in an open period; nothing is taken back that
\* was not reported; nothing else moves the revenue of a request without mishap.
LedgerSpec == Ledger!Spec

==============================================================================
