--------------------------- MODULE OwnerStatements ---------------------------
(***************************************************************************)
(* Statements of owners and the payouts that rest on them: the generator   *)
(* and the monthly cron, what staff decide about a statement, what its     *)
(* owner does with it, the reissue of a disputed one, payout lines and     *)
(* their batch (features/finance, owner-statements, owner-portal).         *)
(*                                                                         *)
(* A subject is what a statement is about: an owner's villa, or his share  *)
(* of a pool, in one month.  A statement, a payout line and a version of   *)
(* the ledger are numbers; statement 0 is NULL.  As everywhere a record in *)
(* `call' holds what an invocation does next and what it has read, and     *)
(* each statement it sends commits on its own.                             *)
(***************************************************************************)
EXTENDS Naturals, Sequences, FiniteSets

CONSTANTS
  Villas,        \* subjects with a villa: UNIQUE(org, owner, villa, month)
  Pools,         \* subjects without one, which no index protects
  Workers,       \* concurrent invocations of staff, owners and crons
  Wishes,        \* the statuses and states that staff and owners ask for
  MaxStatements, \* bound on owner_statements
  MaxPayouts,    \* bound on payout_lines
  MaxEdits,      \* bound on changes of the ledger
  MaxFaults      \* bound on invocations that die

ASSUME SubjectsAssumption == Villas \cap Pools = {}
ASSUME BoundsAssumption == {MaxStatements, MaxPayouts, MaxEdits, MaxFaults} \subseteq Nat

Subjects == Villas \cup Pools

VARIABLES
  stmts,   \* owner_statements with their lines, in the order they were written
  payouts, \* payout_lines, in the order they were written
  batch,   \* the status of the one payout batch
  ledger,  \* the version of the rows statements are computed from
  call,    \* what each worker is doing
  faults,  \* how many invocations have died
  mishap   \* history: two invocations were at work on the subject at once, one
           \* died, or the first send of a statement wiped out a dispute

tables == <<stmts, payouts, batch>>
vars   == <<tables, ledger, call, faults, mishap>>

\* The CHECK of migration 0104, less what nothing writes.
Status     == {"draft", "issued", "approved", "sent", "disputed"}
OwnerState == {"pending", "viewed", "acknowledged", "disputed", "auto_acknowledged",
               "superseded"}
LineStatus == {"pending", "approved", "paid", "failed", "cancelled"}
Statement  == [subject : Subjects, status : Status, owner : OwnerState, sent : BOOLEAN,
               timer : {"none", "running", "passed"}, thread : BOOLEAN, next : Nat,
               base : Nat, rev : Nat, totals : Nat, lines : Seq(Nat)]
PayoutLine == [stmt : Nat, status : LineStatus, batch : BOOLEAN]

\* What can be asked for is more than the CHECK admits.
Wish == Status \cup OwnerState \cup LineStatus \cup {"voided", "none"}
Step == {"idle", "existing", "header", "wipe", "insert", "lines", "auto_approve", "auto_send",
         "set_status", "send", "own", "copy", "copy_lines", "supersede", "reissue", "sweep",
         "line_new", "line_check", "line_set", "batch_check", "batch_pay"}
\* on: the subjects the invocation has read about and is going to write to;
\* seen: the version that totals and lines are computed from; rev and copy: the
\* number of a revision and the lines it takes over; rows: the statements or
\* payout lines it selected.
Call == [at : Step, on : SUBSET Subjects, stmt : Nat, new : Nat, seen : Nat, rev : Nat,
         copy : Seq(Nat), to : Wish, flag : BOOLEAN, rows : SUBSET Nat]
Idle == [at |-> "idle", on |-> {}, stmt |-> 0, new |-> 0, seen |-> 0, rev |-> 0,
         copy |-> <<>>, to |-> "none", flag |-> FALSE, rows |-> {}]

Init ==
  /\ stmts = <<>> /\ payouts = <<>> /\ batch = "draft"
  /\ ledger = 0 /\ faults = 0
  /\ call = [w \in Workers |-> Idle]
  /\ mishap = [x \in Subjects |-> FALSE]

At(w, step) == call[w].at = step
Busy(x)     == \E w \in Workers : x \in call[w].on
Of(x)       == {s \in DOMAIN stmts : stmts[s].subject = x}

\* A worker goes on, perhaps with subjects that another one is at work on.
Turn(w, c) ==
  /\ call' = [call EXCEPT ![w] = c]
  /\ mishap' = [x \in Subjects |->
                  mishap[x] \/ (x \in c.on /\ \E v \in Workers \ {w} : x \in call[v].on)]
Goto(w, step) == Turn(w, [call[w] EXCEPT !.at = step])
Return(w)     == Turn(w, Idle)

Write(s, row) == stmts' = [stmts EXCEPT ![s] = row]
Reading       == UNCHANGED <<tables, ledger, faults>>
OnlyStmts     == UNCHANGED <<payouts, batch, ledger, faults>>
OnlyPayouts   == UNCHANGED <<stmts, batch, ledger, faults>>

\* An idle worker begins with statement s.
Begin(w, step, s, to, flag) ==
  /\ call[w] = Idle
  /\ Turn(w, [Idle EXCEPT !.at = step, !.on = {stmts[s].subject}, !.stmt = s,
                          !.to = to, !.flag = flag])


------------------------------------------------------------------------------
(* Slips the code could plausibly contain; none is part of the             *)
(* specification.  They show that the properties would notice.             *)

\* Only a statement that was sent is safe from the generator.
RegenerableUntilSent(s) == stmts[s].status # "sent"

\* The generator forgets to delete the old lines.
WipeLinesNot(w) == At(w, "wipe") /\ Goto(w, "lines") /\ UNCHANGED stmts /\ OnlyStmts

\* Migration 0104 drops the old CHECK and adds none.
AdmittedAll(status) == TRUE

\* villa_id = NULL is never true: the statements of a pool are not found.
ExistingOfVilla(w) == UNION {Of(x) : x \in call[w].on \cap Villas}

\* A payout looks at the wrong one of the two columns that may say disputed.
PausedByStatus(w) == \E p \in call[w].rows : stmts[payouts[p].stmt].status = "disputed"

------------------------------------------------------------------------------
(* generateOwnerStatement, for staff (flag FALSE) or the monthly cron with *)
(* automatic approval (flag TRUE).  What it computes is the version of the *)
(* ledger it read.                                                         *)

StartGenerate(w, x, cron) ==
  /\ call[w] = Idle
  /\ Turn(w, [Idle EXCEPT !.at = "existing", !.on = {x}, !.seen = ledger, !.flag = cron])
  /\ Reading

Regenerable(s) == stmts[s].status = "draft"

Existing(w) == UNION {Of(x) : x \in call[w].on}

\* SELECT ... LIMIT 1, without an order; a pool may have several rows.
FindExisting(w) ==
  /\ At(w, "existing")
  /\ \/ Existing(w) = {} /\ Goto(w, "insert")
     \/ \E s \in Existing(w) :
          \/ ~Regenerable(s) /\ Return(w)
          \/ Regenerable(s) /\ Turn(w, [call[w] EXCEPT !.at = "header", !.stmt = s])
  /\ Reading

\* The header is written by id, and whatever its status has become it is a
\* draft afterwards.
WriteHeader(w) ==
  LET s == call[w].stmt IN
  /\ At(w, "header")
  /\ Write(s, [stmts[s] EXCEPT !.status = "draft", !.totals = call[w].seen])
  /\ Goto(w, "wipe") /\ OnlyStmts

WipeLines(w) ==
  LET s == call[w].stmt IN
  /\ At(w, "wipe")
  /\ Write(s, [stmts[s] EXCEPT !.lines = <<>>])
  /\ Goto(w, "lines") /\ OnlyStmts

Draft(x, base, rev, totals) ==
  [subject |-> x, status |-> "draft", owner |-> "pending", sent |-> FALSE, timer |-> "none",
   thread |-> FALSE, next |-> 0, base |-> base, rev |-> rev, totals |-> totals, lines |-> <<>>]

\* UNIQUE(org, owner, villa, month) and UNIQUE(statement_code).
InsertRefused(row) ==
  \E s \in DOMAIN stmts : \/ row.subject \in Villas /\ stmts[s].subject = row.subject
                          \/ stmts[s].base = row.base /\ stmts[s].rev = row.rev

InsertStatement(w) ==
  LET s == Len(stmts) + 1 IN
  /\ At(w, "insert") /\ Len(stmts) < MaxStatements
  /\ \E x \in call[w].on :
       LET row == Draft(x, s, 0, call[w].seen) IN
       \/ InsertRefused(row) /\ Return(w) /\ UNCHANGED stmts
       \/ /\ ~InsertRefused(row)
          /\ stmts' = Append(stmts, row)
          /\ Turn(w, [call[w] EXCEPT !.at = "lines", !.stmt = s])
  /\ OnlyStmts

\* The last statement of the generator but for the allocations of expenses and
\* the audit event.
InsertLines(w) ==
  LET s == call[w].stmt IN
  /\ At(w, "lines")
  /\ Write(s, [stmts[s] EXCEPT !.lines = Append(@, call[w].seen)])
  /\ IF call[w].flag THEN Goto(w, "auto_approve") ELSE Return(w)
  /\ OnlyStmts

\* The cron writes by id, and looks at no status.
AutoApprove(w) ==
  LET s == call[w].stmt IN
  /\ At(w, "auto_approve")
  /\ Write(s, [stmts[s] EXCEPT !.status = "approved"])
  /\ Goto(w, "auto_send") /\ OnlyStmts

\* Only when sending is switched on and the mail went out.  It starts no timer.
AutoSend(w) ==
  LET s == call[w].stmt IN
  /\ At(w, "auto_send")
  /\ \/ UNCHANGED stmts
     \/ Write(s, [stmts[s] EXCEPT !.status = "sent", !.sent = TRUE])
  /\ Return(w) /\ OnlyStmts

------------------------------------------------------------------------------
(* What staff decide about a statement *)

\* approveStatement
StartApprove(w, s) ==
  /\ stmts[s].status = "draft"
  /\ Begin(w, "set_status", s, "approved", FALSE) /\ Reading

\* STATEMENT_TRANSITIONS from the states the CHECK admits; a status may also be
\* set to what it is.
StatementMoves == {<<"draft", "issued">>, <<"draft", "voided">>, <<"issued", "approved">>,
                   <<"issued", "voided">>, <<"approved", "paid">>, <<"approved", "voided">>}

\* setStatementStatusAction
StartSetStatus(w, s, next) ==
  /\ next \in {"draft", "issued", "approved", "paid", "voided"}
  /\ <<stmts[s].status, next>> \in StatementMoves \/ stmts[s].status = next
  /\ Begin(w, "set_status", s, next, FALSE) /\ Reading

Admitted(status) == status \in Status

\* The UPDATE of either, by id; it raises when the CHECK refuses the status.
SetStatus(w) ==
  LET s == call[w].stmt IN
  /\ At(w, "set_status")
  /\ IF Admitted(call[w].to)
     THEN Write(s, [stmts[s] EXCEPT !.status = call[w].to])
     ELSE UNCHANGED stmts
  /\ Return(w) /\ OnlyStmts

\* requestStatementChanges reads nothing that it uses: one UPDATE.
RequestChanges(s) ==
  LET x == stmts[s].subject IN
  /\ Write(s, [stmts[s] EXCEPT !.status = "disputed"])
  /\ mishap' = [mishap EXCEPT ![x] = @ \/ Busy(x)]
  /\ OnlyStmts /\ UNCHANGED call

\* markStatementSent; flag: the statement was never sent before.
StartSend(w, s) ==
  /\ stmts[s].status \in {"approved", "sent"}
  /\ Begin(w, "send", s, "none", ~stmts[s].sent) /\ Reading

\* The mail is out, or the call gives up.  The first send makes the owner start
\* over, whatever he has done about the statement since it was approved.
Send(w) ==
  LET s == call[w].stmt
      c == [stmts[s] EXCEPT !.status = "sent", !.sent = TRUE]
  IN
  /\ At(w, "send")
  /\ call' = [call EXCEPT ![w] = Idle]
  /\ \/ UNCHANGED <<stmts, mishap>>
     \/ /\ Write(s, IF call[w].flag THEN [c EXCEPT !.owner = "pending", !.timer = "running"] ELSE c)
        /\ mishap' = [mishap EXCEPT ![c.subject] = @ \/ (call[w].flag /\ c.thread)]
  /\ OnlyStmts

------------------------------------------------------------------------------
(* What the owner does with it *)

\* OWNER_STATE_TRANSITIONS
OwnerMoves(from) ==
  CASE from = "pending"      -> {"viewed", "acknowledged", "disputed", "auto_acknowledged", "superseded"}
    [] from = "viewed"       -> {"acknowledged", "disputed", "auto_acknowledged", "superseded"}
    [] from = "disputed"     -> {"superseded"}
    [] from = "superseded"   -> {}
    [] OTHER                 -> {"disputed", "superseded"}

\* Viewing, acknowledging, disputing.  The page lists no drafts, but the actions take
\* any statement.
StartOwn(w, s, next) ==
  /\ next \in {"viewed", "acknowledged", "disputed"}
  /\ next \in OwnerMoves(stmts[s].owner)
  /\ next = "disputed" => ~stmts[s].thread
  /\ Begin(w, "own", s, next, FALSE) /\ Reading

\* The UPDATE, by id.  A dispute has written its thread and message before.
Own(w) ==
  LET s == call[w].stmt IN
  /\ At(w, "own")
  /\ Write(s, [stmts[s] EXCEPT !.owner = call[w].to,
                               !.thread = @ \/ call[w].to = "disputed"])
  /\ Return(w) /\ OnlyStmts

Awaiting(s) == stmts[s].owner \in {"pending", "viewed"}

\* runOwnerStatementAutoAck: one SELECT, then an UPDATE for each row.
StartSweep(w) ==
  LET due == {s \in DOMAIN stmts : Awaiting(s) /\ stmts[s].timer = "passed"} IN
  /\ call[w] = Idle /\ due # {}
  /\ Turn(w, [Idle EXCEPT !.at = "sweep", !.rows = due, !.on = {stmts[s].subject : s \in due}])
  /\ Reading

SweepOne(w) ==
  /\ At(w, "sweep")
  /\ \E s \in call[w].rows :
       LET left == call[w].rows \ {s} IN
       /\ Write(s, [stmts[s] EXCEPT !.owner = "auto_acknowledged"])
       /\ IF left = {} THEN Return(w)
          ELSE Turn(w, [call[w] EXCEPT !.rows = left, !.on = {stmts[r].subject : r \in left}])
  /\ OnlyStmts

TimerPasses(s) ==
  /\ stmts[s].timer = "running"
  /\ Write(s, [stmts[s] EXCEPT !.timer = "passed"])
  /\ OnlyStmts /\ UNCHANGED <<call, mishap>>

------------------------------------------------------------------------------
(* resolveDisputeAndReissue *)

Reissuable(s) == stmts[s].owner = "disputed"

\* It counts the revisions there are; nobody reads the status of the thread, so
\* that it is resolved at the end is left out.
StartReissue(w, s) ==
  /\ call[w] = Idle /\ Reissuable(s)
  /\ Turn(w, [Idle EXCEPT !.at = "reissue", !.on = {stmts[s].subject}, !.stmt = s,
                          !.seen = stmts[s].totals, !.rev = Cardinality(Of(stmts[s].subject))])
  /\ Reading

Reissue(w) ==
  LET s   == call[w].stmt
      row == Draft(stmts[s].subject, stmts[s].base, call[w].rev, call[w].seen)
  IN
  /\ At(w, "reissue") /\ Len(stmts) < MaxStatements
  /\ \/ InsertRefused(row) /\ Return(w) /\ UNCHANGED stmts
     \/ /\ ~InsertRefused(row)
        /\ stmts' = Append(stmts, row)
        /\ Turn(w, [call[w] EXCEPT !.at = "copy", !.new = Len(stmts) + 1])
  /\ OnlyStmts

CopyLines(w) ==
  /\ At(w, "copy")
  /\ Turn(w, [call[w] EXCEPT !.at = "copy_lines", !.copy = stmts[call[w].stmt].lines])
  /\ Reading

PasteLines(w) ==
  LET n == call[w].new IN
  /\ At(w, "copy_lines")
  /\ Write(n, [stmts[n] EXCEPT !.lines = @ \o call[w].copy])
  /\ Goto(w, "supersede") /\ OnlyStmts

Supersede(w) ==
  LET s == call[w].stmt IN
  /\ At(w, "supersede")
  /\ Write(s, [stmts[s] EXCEPT !.owner = "superseded", !.next = call[w].new])
  /\ Return(w) /\ OnlyStmts

------------------------------------------------------------------------------
(* Payout lines and their batch *)

Disputed(s)   == stmts[s].owner = "disputed"
SubjectOf(p)  == stmts[payouts[p].stmt].subject
InBatch       == {p \in DOMAIN payouts : payouts[p].batch}
BatchIsLocked == \E w \in Workers : call[w].at \in {"batch_check", "batch_pay"}

\* createPayoutLineAction; the status of the batch is not looked at.
StartPayoutLine(w, s, inBatch) ==
  /\ ~Disputed(s)
  /\ Begin(w, "line_new", s, "none", inBatch) /\ Reading

\* Its foreign key waits for a transaction that has locked the batch.
InsertPayoutLine(w) ==
  /\ At(w, "line_new") /\ Len(payouts) < MaxPayouts
  /\ call[w].flag => ~BatchIsLocked
  /\ payouts' = Append(payouts, [stmt |-> call[w].stmt, status |-> "pending",
                                 batch |-> call[w].flag])
  /\ Return(w) /\ OnlyPayouts

\* PAYOUT_LINE_TRANSITIONS; a status may also be set to what it is.
LineMoves == {<<"pending", "approved">>, <<"pending", "cancelled">>, <<"approved", "paid">>,
              <<"approved", "failed">>, <<"approved", "cancelled">>, <<"failed", "approved">>,
              <<"failed", "cancelled">>, <<"failed", "pending">>, <<"cancelled", "pending">>}

\* setPayoutLineStatusAction
StartSetLine(w, p, next) ==
  /\ call[w] = Idle /\ next \in LineStatus
  /\ <<payouts[p].status, next>> \in LineMoves \/ payouts[p].status = next
  /\ Turn(w, [Idle EXCEPT !.at = IF next = "paid" THEN "line_check" ELSE "line_set",
                          !.on = {SubjectOf(p)}, !.rows = {p}, !.to = next])
  /\ Reading

\* The statement is read once more before money is released.
Paused(w) == \E p \in call[w].rows : Disputed(payouts[p].stmt)

CheckLine(w) ==
  /\ At(w, "line_check")
  /\ IF Paused(w) THEN Return(w) ELSE Goto(w, "line_set")
  /\ Reading

SetLine(w) ==
  /\ At(w, "line_set")
  /\ payouts' = [p \in DOMAIN payouts |->
                   IF p \in call[w].rows THEN [payouts[p] EXCEPT !.status = call[w].to]
                   ELSE payouts[p]]
  /\ Return(w) /\ OnlyPayouts

\* PAYOUT_BATCH_TRANSITIONS; a status may also be set to what it is.
BatchMoves == {<<"draft", "approved">>, <<"draft", "cancelled">>, <<"approved", "paid">>,
               <<"approved", "cancelled">>}
MayMoveTo(next) == <<batch, next>> \in BatchMoves \/ batch = next

\* setPayoutBatchStatusAction, when no money moves: one transaction.
SetBatch(next) ==
  /\ next \in {"draft", "approved", "cancelled"}
  /\ MayMoveTo(next) /\ ~BatchIsLocked
  /\ batch' = next
  /\ UNCHANGED <<stmts, payouts, ledger, call, faults, mishap>>

\* To pay a batch it locks the row and selects the lines; none may be pending.
StartPayBatch(w) ==
  LET toPay == {p \in InBatch : payouts[p].status = "approved"} IN
  /\ call[w] = Idle /\ MayMoveTo("paid") /\ ~BatchIsLocked
  /\ \A p \in InBatch : payouts[p].status # "pending"
  /\ Turn(w, [Idle EXCEPT !.at = "batch_check", !.rows = toPay,
                          !.on = {SubjectOf(p) : p \in toPay}])
  /\ Reading

CheckBatch(w) ==
  /\ At(w, "batch_check")
  /\ IF Paused(w) THEN Return(w) ELSE Goto(w, "batch_pay")
  /\ Reading

\* Both UPDATEs become visible when the transaction commits; a line is paid if
\* it still is approved.
PayBatch(w) ==
  /\ At(w, "batch_pay")
  /\ payouts' = [p \in DOMAIN payouts |->
                   IF p \in call[w].rows /\ payouts[p].status = "approved"
                   THEN [payouts[p] EXCEPT !.status = "paid"] ELSE payouts[p]]
  /\ batch' = "paid"
  /\ Return(w) /\ UNCHANGED <<stmts, ledger, faults>>

------------------------------------------------------------------------------
(* The ledger changes under the statements; an invocation dies.            *)

EditLedger ==
  /\ ledger < MaxEdits
  /\ ledger' = ledger + 1
  /\ UNCHANGED <<tables, call, faults, mishap>>

Die(w) ==
  /\ faults < MaxFaults /\ call[w] # Idle
  /\ faults' = faults + 1
  /\ call' = [call EXCEPT ![w] = Idle]
  /\ mishap' = [x \in Subjects |-> mishap[x] \/ x \in call[w].on]
  /\ UNCHANGED <<tables, ledger>>

Generate(w) == \/ FindExisting(w) \/ WriteHeader(w) \/ WipeLines(w) \/ InsertStatement(w)
               \/ InsertLines(w) \/ AutoApprove(w) \/ AutoSend(w)
Decide(w)   == SetStatus(w) \/ Send(w) \/ Own(w) \/ SweepOne(w)
Revise(w)   == Reissue(w) \/ CopyLines(w) \/ PasteLines(w) \/ Supersede(w)
Pay(w)      == InsertPayoutLine(w) \/ CheckLine(w) \/ SetLine(w) \/ CheckBatch(w) \/ PayBatch(w)

StartOn(w, s) == \/ StartApprove(w, s) \/ StartSend(w, s) \/ StartReissue(w, s)
                 \/ \E next \in Wishes : StartSetStatus(w, s, next) \/ StartOwn(w, s, next)
                 \/ \E inBatch \in BOOLEAN : StartPayoutLine(w, s, inBatch)

Start(w) == \/ \E x \in Subjects, cron \in BOOLEAN : StartGenerate(w, x, cron)
            \/ \E s \in DOMAIN stmts : StartOn(w, s)
            \/ \E p \in DOMAIN payouts, next \in Wishes : StartSetLine(w, p, next)
            \/ StartSweep(w) \/ StartPayBatch(w)

Next ==
  \/ \E w \in Workers : \/ Start(w) \/ Generate(w) \/ Decide(w) \/ Revise(w) \/ Pay(w)
                        \/ Die(w)
  \/ \E s \in DOMAIN stmts : RequestChanges(s) \/ TimerPasses(s)
  \/ \E next \in Wishes : SetBatch(next)
  \/ EditLedger

Spec == Init /\ [][Next]_vars

------------------------------------------------------------------------------
TypeOK ==
  /\ stmts \in Seq(Statement)
  /\ payouts \in Seq(PayoutLine)
  /\ \A p \in DOMAIN payouts : payouts[p].stmt \in DOMAIN stmts
  /\ batch \in {"draft", "approved", "paid", "cancelled"}
  /\ call \in [Workers -> Call]
  /\ {ledger, faults} \subseteq Nat /\ mishap \in [Subjects -> BOOLEAN]

\* The lines of a statement add up to its totals whenever nobody is at work on
\* it: regenerating and reissuing write both, in statements of their own.
LinesTellTotals ==
  \A s \in DOMAIN stmts : LET x == stmts[s].subject IN
    ~mishap[x] /\ ~Busy(x) => stmts[s].lines = <<stmts[s].totals>>

\* A statement that is no draft any more is never rewritten: however often it
\* is generated again, by staff or by the cron, its owner sees what he saw.
ApprovedIsFrozen ==
  [][\A s \in DOMAIN stmts :
       stmts[s].status # "draft" /\ ~mishap'[stmts[s].subject] =>
         /\ stmts'[s].status # "draft"
         /\ stmts'[s].totals = stmts[s].totals /\ stmts'[s].lines = stmts[s].lines]_vars

Live(s) == stmts[s].owner # "superseded"

\* Of all the statements about one subject one is live, and the others lead to
\* it one by one: a revision replaces one statement and is made once.
OneLiveRevision ==
  \A s \in DOMAIN stmts : LET x == stmts[s].subject IN
    ~mishap[x] /\ ~Busy(x) =>
      \A r \in Of(x) :
        /\ Live(r) /\ Live(s) => r = s
        /\ ~Live(s) => stmts[s].next \in Of(x) /\ s < stmts[s].next
        /\ ~Live(r) /\ ~Live(s) /\ stmts[r].next = stmts[s].next => r = s

\* finance/actions.ts: "payout is PAUSED while a statement is disputed. A
\* disputed statement can't have funds released until it is resolved/reissued."
\* Under dispute: the owner opened a thread, and nothing was reissued.
UnderDispute(s) == stmts[s].thread /\ stmts[s].next = 0
BecomesPaid(p)  == payouts'[p].status = "paid" /\ payouts[p].status # "paid"

DisputePausesPayout ==
  [][\A p \in DOMAIN payouts : BecomesPaid(p) => ~UnderDispute(payouts[p].stmt)]_vars

\* So it is, line by line and batch by batch, for every subject without mishap.
PausedWhileDisputed ==
  [][\A p \in DOMAIN payouts :
       BecomesPaid(p) /\ ~mishap'[SubjectOf(p)] => ~UnderDispute(payouts[p].stmt)]_vars

==============================================================================
