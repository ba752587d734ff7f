--------------------------- MODULE WebhookDelivery ---------------------------
(***************************************************************************)
(* The outbound webhooks of an organization (lib/development/server/       *)
(* webhooks) and the cron job that sends them, dev_os_webhook_delivery,    *)
(* under its job lock.  A run of the job selects the rows that are due and *)
(* dispatches them one by one; staff who test an endpoint insert a row and *)
(* dispatch it in their own request, without the lock.                     *)
(*                                                                         *)
(* A dispatch reads the row and the subscription, posts, then writes the   *)
(* row and the subscription by id from what it had read.  One subscription *)
(* is modelled, and fewer rows than the 250 a run takes: the rows of a     *)
(* subscription meet only in its counter and its switch, which Unsubscribe *)
(* may turn off at any time anyway.                                        *)
(***************************************************************************)
EXTENDS JobLock

CONSTANTS
  Rows,           \* rows of webhook_delivery_log that may be inserted
  Desks,          \* requests of staff who test the endpoint
  MaxAttempts,    \* webhook_delivery_log.max_attempts
  DisableAfter,   \* AUTO_DISABLE_AFTER_FAILURES
  MaxFaults,      \* bound: statements that raise, and runs that die
  NoRow           \* "no delivery"

Callers == Runs \cup Desks

ASSUME WebhookBounds ==
  MaxAttempts \in Nat \ {0} /\ DisableAfter \in Nat \ {0} /\ MaxFaults \in Nat
ASSUME WebhookNames ==
  Runs \cap Desks = {} /\ NoRow \notin Rows

VARIABLES
  row,       \* status of each delivery, "unborn" before its insert
  attempt,   \* attempt_number
  due,       \* next_retry_at is null or past
  active,    \* webhook_subscriptions.is_active
  failures,  \* consecutive_failures
  todo,      \* ids a run has selected and not begun; "all" before it selects
  call,      \* the dispatch each caller is in the middle of
  throws,
  posts,     \* history: requests sent for each delivery
  tests      \* history: the deliveries that are tests

table     == <<row, attempt, due>>
endpoint  == <<active, failures>>
hooks     == <<row, attempt, due, active, failures, todo, call, throws, posts, tests>>
history   == <<posts, tests>>
hookVars  == <<vars, hooks>>

Open    == {"pending", "retrying"}
Settled == {"delivered", "failed"}

\* What a caller is doing; in `read' and later with a dispatch of row id.  attempt and
\* failures are as read, ok is what the request came to.
Call(step, d, k, f, o) == [step |-> step, id |-> d, attempt |-> k, failures |-> f, ok |-> o]
NoCall  == Call("none", NoRow, 0, 0, FALSE)
Between == Call("next", NoRow, 0, 0, FALSE)

In(c, step) == call[c].step = step
IdOf(c)     == call[c].id
Set(c, r)   == call' = [call EXCEPT ![c] = r]
Done(c)     == Set(c, IF c \in Runs THEN Between ELSE NoCall)

HookInit ==
  /\ Init
  /\ row = [d \in Rows |-> "unborn"] /\ attempt = [d \in Rows |-> 1]
  /\ due = [d \in Rows |-> TRUE]
  /\ active = TRUE /\ failures = 0
  /\ todo = [r \in Runs |-> {}] /\ call = [c \in Callers |-> NoCall]
  /\ throws = 0 /\ posts = [d \in Rows |-> 0] /\ tests = {}

------------------------------------------------------------------------------
(* emitEvent, testFireWebhook up to its dispatch, unsubscribeWebhook *)

Insertion(d) ==
  /\ active /\ row[d] = "unborn"
  /\ row' = [row EXCEPT ![d] = "pending"]
  /\ UNCHANGED <<vars, attempt, due, endpoint, todo, throws, posts>>

Emit(d) == Insertion(d) /\ UNCHANGED <<call, tests>>

StartTest(k, d) ==
  /\ In(k, "none")
  /\ Insertion(d) /\ Set(k, Call("read", d, 0, 0, FALSE))
  /\ tests' = tests \cup {d}

Unsubscribe ==
  /\ active /\ active' = FALSE
  /\ UNCHANGED <<vars, table, failures, todo, call, throws, history>>

------------------------------------------------------------------------------
(* dispatchWebhookDelivery *)

\* The row, whatever its status, and then the subscription; a run goes on to any of
\* the ids it has left.
Read(c, d) ==
  /\ \/ c \in Runs /\ In(c, "next") /\ d \in todo[c]
        /\ todo' = [todo EXCEPT ![c] = @ \ {d}]
     \/ c \in Desks /\ In(c, "read") /\ d = IdOf(c)
        /\ UNCHANGED todo
  /\ Set(c, Call(IF active THEN "post" ELSE "refuse", d, attempt[d], failures, FALSE))
  /\ UNCHANGED <<vars, table, endpoint, throws, history>>

\* Subscription inactive: attempt_number and next_retry_at stay.
Refuse(c) ==
  /\ In(c, "refuse")
  /\ row' = [row EXCEPT ![IdOf(c)] = "failed"]
  /\ Done(c)
  /\ UNCHANGED <<vars, attempt, due, endpoint, todo, throws, history>>

Post(c, ok) ==
  /\ In(c, "post")
  /\ posts' = [posts EXCEPT ![IdOf(c)] = @ + 1]
  /\ Set(c, Call("answered", IdOf(c), call[c].attempt, call[c].failures, ok))
  /\ UNCHANGED <<vars, table, endpoint, todo, throws, tests>>

\* Mutant: every failed attempt counts up, also the last.
WriteRowCounts(c) ==
  LET d == IdOf(c)
      k == call[c].attempt
      again == ~call[c].ok /\ k < MaxAttempts
  IN /\ In(c, "answered")
     /\ row' = [row EXCEPT ![d] = IF call[c].ok THEN "delivered"
                                  ELSE IF again THEN "retrying" ELSE "failed"]
     /\ attempt' = IF call[c].ok THEN attempt ELSE [attempt EXCEPT ![d] = k + 1]
     /\ due' = IF again THEN [due EXCEPT ![d] = FALSE] ELSE due
     /\ Set(c, Call("tally", d, k, call[c].failures, call[c].ok))
     /\ UNCHANGED <<vars, endpoint, todo, throws, history>>

\* computeNextRetryDelay
ShouldRetry(k) == k < MaxAttempts

Tally(c) == Set(c, Call("tally", IdOf(c), call[c].attempt, call[c].failures, call[c].ok))

WriteRow(c) ==
  LET d == IdOf(c)
      k == call[c].attempt
      again == ~call[c].ok /\ ShouldRetry(k)
  IN /\ In(c, "answered")
     /\ row' = [row EXCEPT ![d] = IF call[c].ok THEN "delivered"
                                  ELSE IF again THEN "retrying" ELSE "failed"]
     /\ attempt' = IF call[c].ok THEN attempt
                   ELSE [attempt EXCEPT ![d] = IF again THEN k + 1 ELSE k]
     /\ due' = IF again THEN [due EXCEPT ![d] = FALSE] ELSE due
     /\ Tally(c)
     /\ UNCHANGED <<vars, endpoint, todo, throws, history>>

WriteEndpoint(c) ==
  /\ In(c, "tally")
  /\ failures' = IF call[c].ok THEN 0 ELSE call[c].failures + 1
  /\ active' = (active /\ (call[c].ok \/ call[c].failures + 1 < DisableAfter))
  /\ Done(c)
  /\ UNCHANGED <<vars, table, todo, throws, history>>

Dispatch(c) ==
  \/ \E d \in Rows : Read(c, d)
  \/ Refuse(c)
  \/ \E ok \in BOOLEAN : Post(c, ok)
  \/ WriteRow(c) \/ WriteEndpoint(c)

------------------------------------------------------------------------------
(* dispatchDueDeliveries: the job between its acquiring and releasing the lock *)

\* Mutant: whatever is not delivered is due.
DueUndelivered == {d \in Rows : row[d] \in {"pending", "failed"} \/ (row[d] = "retrying" /\ due[d])}

DueRows == {d \in Rows : row[d] = "pending" \/ (row[d] = "retrying" /\ due[d])}

\* The two SELECTs; the second one finds the rows whose next_retry_at is null.
Scan(r) ==
  /\ at[r] = "job" /\ In(r, "none")
  /\ todo' = [todo EXCEPT ![r] = DueRows]
  /\ Set(r, Between)
  /\ UNCHANGED <<vars, table, endpoint, throws, history>>

JobEnds(r) ==
  /\ In(r, "next") /\ todo[r] = {}
  /\ Finish(r)
  /\ Set(r, NoCall)
  /\ UNCHANGED <<table, endpoint, todo, throws, history>>

Lose(c) ==
  /\ Set(c, NoCall)
  /\ todo' = IF c \in Runs THEN [todo EXCEPT ![c] = {}] ELSE todo
  /\ UNCHANGED <<table, endpoint, history>>

\* A statement raises: the run fails and gives its lock back, a test just ends.
Throw(c) ==
  /\ throws + crashes < MaxFaults /\ throws' = throws + 1
  /\ \/ c \in Runs /\ Finish(c)
     \/ c \in Desks /\ ~In(c, "none") /\ UNCHANGED vars
  /\ Lose(c)

Die(r) == throws + crashes < MaxFaults /\ Crash(r) /\ Lose(r) /\ UNCHANGED throws

------------------------------------------------------------------------------
FallDue(d) ==
  /\ row[d] = "retrying" /\ ~due[d]
  /\ due' = [due EXCEPT ![d] = TRUE]
  /\ UNCHANGED <<vars, row, attempt, endpoint, todo, call, throws, history>>

Locking(r) == (Insert(r) \/ Select(r) \/ TakeOver(r) \/ Release(r)) /\ UNCHANGED hooks
Works(r)   == Locking(r) \/ Scan(r) \/ Dispatch(r) \/ JobEnds(r)
Fires(r)   == Begin(r) /\ UNCHANGED hooks
Passes     == Tick /\ UNCHANGED hooks

HookNext ==
  \/ \E d \in Rows : Emit(d) \/ \E k \in Desks : StartTest(k, d)
  \/ \E k \in Desks : Dispatch(k)
  \/ Unsubscribe
  \/ \E r \in Runs : Fires(r) \/ Works(r) \/ Die(r)
  \/ \E c \in Callers : Throw(c)
  \/ (ExpireStale \/ ForceRelease) /\ UNCHANGED hooks
  \/ Passes
  \/ \E d \in Rows : FallDue(d)

HookSpec == HookInit /\ [][HookNext]_hookVars

------------------------------------------------------------------------------
CallSteps == {"none", "next", "read", "refuse", "post", "answered", "tally"}

HooksTypeOK ==
  /\ row \in [Rows -> {"unborn"} \cup Open \cup Settled]
  /\ attempt \in [Rows -> 1..MaxAttempts] /\ due \in [Rows -> BOOLEAN]
  /\ active \in BOOLEAN /\ failures \in Nat
  /\ todo \in [Runs -> SUBSET Rows]
  /\ call \in [Callers -> [step : CallSteps, id : Rows \cup {NoRow}, attempt : 0..MaxAttempts,
                           failures : Nat, ok : BOOLEAN]]
  /\ throws \in Nat /\ posts \in [Rows -> Nat] /\ tests \subseteq Rows

\* webhook-delivery-job.ts, 11: an event is posted once per attempt; only a run that
\* dies or fails between the request and the write repeats it.
OnePostPerAttempt == \A d \in Rows \ tests : posts[d] <= attempt[d] + crashes + throws

\* Once delivered or failed for good, an event is neither sent again nor reopened:
\* no other run may still be dispatching it from an older reading.
SettledStays ==
  [][\A d \in Rows \ tests : row[d] \in Settled => row'[d] = row[d] /\ posts'[d] = posts[d]]_hookVars

==============================================================================
