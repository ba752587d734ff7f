-------------------------- MODULE NotificationOutbox --------------------------
(***************************************************************************)
(* notification_queue and the workers that empty it (features/             *)
(* notifications).  A batch, started by the delivery job or by staff,      *)
(* claims every due row in one transaction and then delivers the rows one  *)
(* by one; staff who retry a row deliver that row themselves, unclaimed.   *)
(* A delivery reads the row, asks the provider of the channel once for     *)
(* each recipient, and writes the verdict by id.                           *)
(*                                                                         *)
(* Migration 0008 guards the table.  `queued' and `sent' are unique for a  *)
(* dedupe key: a write that would make two such rows of one key raises.    *)
(* And its CHECK admits no status `processing', which the claim of a batch *)
(* writes: on the migrated table the claim raises and is rolled back.      *)
(* What the CHECK admits is kept in `admits', which no step changes, so    *)
(* that a table whose CHECK was widened for the claim is covered as well.  *)
(* A batch is at most 100 rows; there are fewer here.                      *)
(***************************************************************************)
EXTENDS Integers, FiniteSets

CONSTANTS
  Notes,         \* the notifications that may be queued
  Recipients,
  Audience,      \* the recipients a notification resolves to on its channel
  Keys,          \* the dedupe keys, NoKey for none, a notification may be queued with
  NoKey,
  Batches,       \* runs of deliverPendingNotifications
  Desks,         \* staff who retry
  Checks,        \* what the CHECK on status may admit: Migrated, or more
  MaxAttempts,   \* notification_queue.max_attempts
  MaxBusy,       \* bound: workers at work at the same time
  MaxUpsets,     \* bound: workers that die, statements that fail, interventions of staff
  NoNote         \* "no notification"

Workers == Batches \cup Desks

ASSUME OutboxBounds ==
  MaxAttempts \in Nat /\ MaxBusy \in Nat /\ MaxUpsets \in Nat
ASSUME OutboxFinite == IsFiniteSet(Notes) /\ IsFiniteSet(Batches) /\ IsFiniteSet(Desks)
ASSUME OutboxNames == Batches \cap Desks = {} /\ NoNote \notin Notes
ASSUME OutboxAudience == Audience \in [Notes -> SUBSET Recipients]

\* The CHECK of migration 0008, which no later migration changes.
Migrated == {"queued", "suppressed", "sent", "failed", "cancelled"}
\* The CHECK the claim needs.
Widened  == Migrated \cup {"processing"}

ASSUME OutboxChecks == Checks \subseteq {Migrated, Widened}

Outcomes == {"sent", "failed", "skipped", "suppressed", "later"}

VARIABLES
  admits,     \* what the CHECK of the table admits
  status,     \* notification_queue.status, "absent" before the row exists
  key,        \* dedupe_key
  attempts,   \* delivery_attempts
  due,        \* scheduled_for and next_attempt_at are null or past
  work,       \* what each worker is doing
  upsets,     \* faults and interventions of staff so far
  copies,     \* history: messages handed to the provider and accepted, per recipient
  retries,    \* history: how often staff sent the row back to the queue
  marked,     \* history: rows staff declared sent
  stranded,   \* history: rows a worker let go of without a verdict
  raised      \* history: batches whose claim raised

queue   == <<admits, status, key, attempts, due>>
history == <<copies, retries, marked, stranded, raised>>
vars    == <<admits, status, key, attempts, due, work, upsets,
             copies, retries, marked, stranded, raised>>

\* batch: rows taken and not begun; seen: the attempts read with the row; left:
\* recipients still to treat; got: what the others came to.
Idle == [step |-> "idle", note |-> NoNote, batch |-> {}, seen |-> 0, left |-> {}, got |-> {}]
Waiting(S) == [step |-> "next", note |-> NoNote, batch |-> S, seen |-> 0, left |-> {}, got |-> {}]
Delivering(n, S, seen, left, got) ==
  [step |-> "send", note |-> n, batch |-> S, seen |-> seen, left |-> left, got |-> got]
Work == [step : {"idle", "next", "send"}, note : Notes \cup {NoNote}, batch : SUBSET Notes,
         seen : Nat, left : SUBSET Recipients, got : SUBSET Outcomes]

At(w, step) == work[w].step = step
NoteOf(w)   == work[w].note
Holds(w, n) == NoteOf(w) = n \/ n \in work[w].batch
Free(w)     == At(w, "idle") /\ Cardinality({v \in Workers : ~At(v, "idle")}) < MaxBusy
Put(w, r)   == work' = [work EXCEPT ![w] = r]

Init ==
  /\ admits \in Checks
  /\ status = [n \in Notes |-> "absent"]
  /\ key = [n \in Notes |-> NoKey]
  /\ attempts = [n \in Notes |-> 0] /\ due = [n \in Notes |-> TRUE]
  /\ work = [w \in Workers |-> Idle]
  /\ upsets = 0
  /\ copies = [n \in Notes |-> [r \in Recipients |-> 0]]
  /\ retries = [n \in Notes |-> 0] /\ marked = {} /\ stranded = {} /\ raised = {}

\* nq_dedupe_open_unique
Open == {"queued", "sent"}
Clashes(n, k, s) ==
  /\ s \in Open /\ k # NoKey
  /\ \E m \in Notes \ {n} : key[m] = k /\ status[m] \in Open

Write(n, s) == status' = [status EXCEPT ![n] = s]

------------------------------------------------------------------------------
(* queueNotification: a row already queued under the key makes it a no-op, one *)
(* already sent makes the INSERT raise; either way nothing changes.            *)

Queue(n, k, now) ==
  /\ status[n] = "absent" /\ ~Clashes(n, k, "queued")
  /\ Write(n, "queued") /\ key' = [key EXCEPT ![n] = k] /\ due' = [due EXCEPT ![n] = now]
  /\ UNCHANGED <<admits, attempts, work, upsets, history>>

------------------------------------------------------------------------------
(* deliverNotification *)

\* SELECT of the row, and resolveNotificationRecipients.
OpenNote(w, n) ==
  /\ At(w, "next") /\ n \in work[w].batch
  /\ Put(w, Delivering(n, work[w].batch \ {n}, attempts[n], Audience[n], {}))
  /\ UNCHANGED <<queue, upsets, history>>

\* One recipient: disabled or in quiet hours by preference, or up to the provider,
\* which does nothing for a channel that is not configured.
Treat(w, r, outcome) ==
  /\ At(w, "send") /\ r \in work[w].left
  /\ Put(w, Delivering(NoteOf(w), work[w].batch, work[w].seen, work[w].left \ {r},
                       work[w].got \cup outcome))
  /\ copies' = IF "sent" \in outcome THEN [copies EXCEPT ![NoteOf(w)][r] = @ + 1] ELSE copies
  /\ UNCHANGED <<queue, upsets, retries, marked, stranded, raised>>

Decisions == {{"sent"}, {"failed"}, {"skipped"}, {"suppressed"}, {"suppressed", "later"}}

AllFailed(w)     == work[w].got = {"failed"}
RetriesLeft(w)   == work[w].seen + 1 < MaxAttempts

\* Mutant: skipped and suppressed count as sent, as the header of the function has it.
VerdictOfHeader(w) ==
  IF Audience[NoteOf(w)] = {}                  THEN "failed"
  ELSE IF AllFailed(w) /\ RetriesLeft(w)       THEN "queued"
  ELSE IF AllFailed(w)                         THEN "failed"
  ELSE "sent"

\* Mutant: the row takes over the status of its deliveries, which have `skipped'.
VerdictSkipped(w) ==
  IF Audience[NoteOf(w)] = {}                  THEN "failed"
  ELSE IF AllFailed(w) /\ RetriesLeft(w)       THEN "queued"
  ELSE IF AllFailed(w)                         THEN "failed"
  ELSE IF "sent" \in work[w].got               THEN "sent"
  ELSE IF work[w].got = {"skipped"}            THEN "skipped"
  ELSE status[NoteOf(w)]

\* The status the verdict writes: none, when everything was put off or skipped.
Verdict(w) ==
  IF Audience[NoteOf(w)] = {}                  THEN "failed"
  ELSE IF AllFailed(w) /\ RetriesLeft(w)       THEN "queued"
  ELSE IF AllFailed(w)                         THEN "failed"
  ELSE IF "sent" \in work[w].got               THEN "sent"
  ELSE IF work[w].got \subseteq {"suppressed", "skipped"} /\ "suppressed" \in work[w].got
                                               THEN "suppressed"
  ELSE status[NoteOf(w)]

PutOff(w) == "later" \in work[w].got /\ work[w].got \cap {"sent", "failed"} = {}

Done(w)     == At(w, "send") /\ work[w].left = {}
GoOnStops(w) == Put(w, Idle)    \* mutant: the loop ends with the first row
GoOn(w)     == Put(w, IF work[w].batch = {} THEN Idle ELSE Waiting(work[w].batch))
Abandon(w)  == /\ Put(w, Idle)
               /\ stranded' = stranded \cup {n \in Notes : Holds(w, n)}

\* The verdict is written by id, whatever has become of the row meanwhile.
Close(w) ==
  LET n == NoteOf(w)
  IN /\ Done(w) /\ ~Clashes(n, key[n], Verdict(w))
     /\ Write(n, Verdict(w))
     /\ attempts' = [attempts EXCEPT ![n] = work[w].seen + 1]
     /\ due' = [due EXCEPT ![n] = IF (Verdict(w) = "queued" /\ AllFailed(w)) \/ PutOff(w)
                                    THEN FALSE ELSE @]
     /\ stranded' = IF Verdict(w) = "processing" THEN stranded \cup {n} ELSE stranded
     /\ GoOn(w)
     /\ UNCHANGED <<admits, key, upsets, copies, retries, marked, raised>>

\* A second row of the key is open: the UPDATE raises, and with it the whole batch.
Throw(w) ==
  /\ Done(w) /\ Clashes(NoteOf(w), key[NoteOf(w)], Verdict(w))
  /\ Abandon(w)
  /\ UNCHANGED <<queue, upsets, copies, retries, marked, raised>>

\* The process dies, or any other statement raises; nothing catches it row by row.
Fault(w) ==
  /\ upsets < MaxUpsets /\ upsets' = upsets + 1
  /\ ~At(w, "idle")
  /\ Abandon(w)
  /\ UNCHANGED <<queue, copies, retries, marked, raised>>

------------------------------------------------------------------------------
(* deliverPendingNotifications *)

Due == {n \in Notes : status[n] = "queued" /\ due[n]}

\* Mutant: the claim does not mark the rows.
ClaimUnmarked(b) ==
  /\ Free(b) /\ Due # {}
  /\ Put(b, Waiting(Due))
  /\ UNCHANGED <<queue, upsets, history>>

\* SELECT ... FOR UPDATE SKIP LOCKED and UPDATE, in one transaction.
ClaimBatch(b) ==
  /\ Free(b) /\ Due # {} /\ "processing" \in admits
  /\ status' = [n \in Notes |-> IF n \in Due THEN "processing" ELSE status[n]]
  /\ Put(b, Waiting(Due))
  /\ UNCHANGED <<admits, key, attempts, due, upsets, history>>

\* The CHECK refuses the UPDATE: the transaction is rolled back, and the exception
\* fails the run of the job before it has delivered anything.
ClaimRaises(b) ==
  /\ Free(b) /\ Due # {} /\ "processing" \notin admits
  /\ raised' = raised \cup {b}
  /\ UNCHANGED <<queue, work, upsets, copies, retries, marked, stranded>>

------------------------------------------------------------------------------
(* Staff: retryNotificationAction, and the three actions that declare a row    *)
(* sent, failed or cancelled.  None of them looks at the status.               *)

\* requeueNotification, after which the same request delivers the row.
Retry(d, n) ==
  /\ Free(d) /\ status[n] # "absent"
  /\ upsets < MaxUpsets /\ upsets' = upsets + 1
  /\ ~Clashes(n, key[n], "queued")
  /\ Write(n, "queued") /\ due' = [due EXCEPT ![n] = TRUE]
  /\ Put(d, Waiting({n}))
  /\ retries' = [retries EXCEPT ![n] = @ + 1]
  /\ stranded' = stranded \ {n}
  /\ UNCHANGED <<admits, key, attempts, copies, marked, raised>>

Declare(n, s) ==
  /\ upsets < MaxUpsets /\ upsets' = upsets + 1
  /\ status[n] # "absent" /\ ~Clashes(n, key[n], s)
  /\ Write(n, s)
  /\ marked' = IF s = "sent" THEN marked \cup {n} ELSE marked
  /\ UNCHANGED <<admits, key, attempts, due, work, copies, retries, stranded, raised>>

------------------------------------------------------------------------------
\* scheduled_for or next_attempt_at has passed.
FallDue(n) ==
  /\ ~due[n]
  /\ due' = [due EXCEPT ![n] = TRUE]
  /\ UNCHANGED <<admits, status, key, attempts, work, upsets, history>>

Deliver(w) ==
  \/ \E n \in Notes : OpenNote(w, n)
  \/ \E r \in Recipients, outcome \in Decisions : Treat(w, r, outcome)
  \/ Close(w) \/ Throw(w)

Next ==
  \/ \E n \in Notes, now \in BOOLEAN : \E k \in Keys[n] : Queue(n, k, now)
  \/ \E w \in Workers : Deliver(w) \/ Fault(w)
  \/ \E b \in Batches : ClaimBatch(b) \/ ClaimRaises(b)
  \/ \E d \in Desks, n \in Notes : Retry(d, n)
  \/ \E n \in Notes, s \in {"sent", "failed", "cancelled"} : Declare(n, s)
  \/ \E n \in Notes : FallDue(n)

Spec == Init /\ [][Next]_vars

\* The jobs and the clock go on.  The requests of staff need not end.
Works(b)  == Deliver(b) \/ ClaimBatch(b) \/ ClaimRaises(b)

FairSpec == /\ Spec
            /\ \A b \in Batches : WF_vars(Works(b))
            /\ \A n \in Notes : WF_vars(FallDue(n))

------------------------------------------------------------------------------
TypeOK ==
  /\ admits \in Checks /\ raised \subseteq Batches
  /\ status \in [Notes -> admits \cup {"absent"}]
  /\ \A n \in Notes : key[n] \in Keys[n] \cup {NoKey}
  /\ attempts \in [Notes -> Nat] /\ due \in [Notes -> BOOLEAN]
  /\ work \in [Workers -> Work]
  /\ upsets \in Nat
  /\ copies \in [Notes -> [Recipients -> Nat]] /\ retries \in [Notes -> Nat]
  /\ marked \subseteq Notes /\ stranded \subseteq Notes

\* However batches, retries and failures interleave, a recipient gets at most one copy
\* for every retry by staff (actions.ts, 298); where the CHECK lets batches claim, one
\* more from the batch that takes the row first, and one more for each retry, because
\* a batch may claim the row the retry has put back (delivery.ts, 514: parallel workers
\* cannot pick the same row).
NoExtraCopies ==
  \A n \in Notes, r \in Recipients :
    copies[n][r] <= IF "processing" \in admits THEN 1 + 2 * retries[n] ELSE retries[n]

\* A row in `processing', which no worker selects, is in the hands of one, unless
\* a worker let go of it: by dying, on an exception, or on a verdict that leaves the
\* status alone (delivery.ts, 374-434).  It says something of a widened CHECK only: by
\* TypeOK the migrated table has no such row.
ProcessingIsHeld ==
  \A n \in Notes : status[n] = "processing" =>
    n \in stranded \/ \E w \in Workers : Holds(w, n)

\* A row says sent only when a recipient got it, or staff said so, whoever delivered it
\* (delivery.ts, 418).
SentReachedSomeone ==
  \A n \in Notes : status[n] = "sent" =>
    n \in marked \/ \E r \in Recipients : copies[n][r] > 0

\* features/jobs/definitions.ts, 93, of the delivery job: "walks queued notifications
\* and dispatches via in-app / email / SMS / WhatsApp providers".  So a notification in
\* the queue does not stay there for ever.
QueueEmpties == \A n \in Notes : status[n] = "queued" ~> status[n] # "queued"

==============================================================================
