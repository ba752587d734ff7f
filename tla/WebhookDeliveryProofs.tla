------------------------ MODULE WebhookDeliveryProofs ------------------------
(***************************************************************************)
(* What the dispatcher owes to the job lock.  The delivery job, restricted *)
(* to its lock, is the job of JobLock; so one run works at a time, and a   *)
(* row that a run has read cannot change under its dispatch unless it is a *)
(* test of staff, which goes without the lock.  Hence an event is posted   *)
(* once per attempt and never reopened: for any number of deliveries,      *)
(* runs, desks, attempts, faults and failures.                             *)
(***************************************************************************)
EXTENDS WebhookDelivery, JobLockProofs

\* A caller with a dispatch has a row; between dispatches only a run is.
CallShape ==
  \A c \in Callers :
    /\ call[c].step \in {"read", "refuse", "post", "answered", "tally"} <=> IdOf(c) \in Rows
    /\ In(c, "next") => c \in Runs

\* What a run dispatches, and has to dispatch, it does while it holds the job.
JobsOnly ==
  \A r \in Runs :
    /\ at[r] # "job" => In(r, "none")
    /\ In(r, "none") => call[r] = NoCall /\ todo[r] = {}

DesksTest == \A k \in Desks : IdOf(k) \in Rows => IdOf(k) \in tests

\* The row of an event is still what the run that dispatches it had read.
Unread(r, d)  == d \in todo[r]
Current(r, d) == IdOf(r) = d /\ call[r].step \in {"refuse", "post", "answered"}
RunReads ==
  \A r \in Runs, d \in Rows \ tests :
    /\ IdOf(r) = d => call[r].step # "read" /\ ~Unread(r, d)
    /\ Unread(r, d) => row[d] \in Open
    /\ Current(r, d) => row[d] \in Open /\ call[r].attempt = attempt[d]

\* One attempt is still to be posted as long as the row is open and no answer is in.
InFlight(d) == \E r \in Runs : In(r, "answered") /\ IdOf(r) = d
Spent(d)    == row[d] \in Settled \/ InFlight(d)
Counted ==
  \A d \in Rows \ tests :
    /\ posts[d] <= attempt[d] + crashes + throws
    /\ ~Spent(d) => posts[d] + 1 <= attempt[d] + crashes + throws

HookInv == HooksTypeOK /\ CallShape /\ JobsOnly /\ DesksTest /\ RunReads /\ Counted

USE WebhookBounds, WebhookNames

------------------------------------------------------------------------------
(* The delivery job is a job under JobLock *)

LEMMA HookStepsLock == [HookNext]_hookVars => [Next]_vars
<1> SUFFICES ASSUME [HookNext]_hookVars PROVE [Next]_vars
  OBVIOUS
<1>1. ASSUME NEW d \in Rows, Insertion(d) \/ FallDue(d) PROVE UNCHANGED vars
  BY <1>1 DEF Insertion, FallDue
<1>2. CASE Unsubscribe
  BY <1>2 DEF Unsubscribe
<1>3. ASSUME NEW c \in Callers, Dispatch(c) PROVE UNCHANGED vars
  BY <1>3 DEF Dispatch, Read, Refuse, Post, WriteRow, WriteEndpoint
<1>4. ASSUME NEW r \in Runs, Works(r) \/ Fires(r) \/ Die(r) PROVE [Next]_vars
  <2>1. CASE Scan(r)
    BY <2>1 DEF Scan
  <2>2. CASE Dispatch(r)
    BY <1>3, <2>2 DEF Callers
  <2>3. CASE JobEnds(r) \/ Locking(r) \/ Fires(r) \/ Die(r)
    BY <2>3 DEF JobEnds, Locking, Fires, Die, Next, Steps
  <2> QED
    BY <1>4, <2>1, <2>2, <2>3 DEF Works
<1>5. ASSUME NEW c \in Callers, Throw(c) PROVE [Next]_vars
  BY <1>5 DEF Throw, Next, Steps
<1>6. CASE ((ExpireStale \/ ForceRelease) /\ UNCHANGED hooks) \/ Passes
  BY <1>6 DEF Passes, Next
<1>7. CASE UNCHANGED hookVars
  BY <1>7 DEF hookVars
<1> QED
  BY <1>1, <1>2, <1>3, <1>4, <1>5, <1>6, <1>7 DEF HookNext, Emit, StartTest, Callers

\* The webhook job implements the lock's specification: whatever JobLock promises
\* holds for it (cron/webhook-delivery-job.ts runs under executeJob).
THEOREM HooksImplementLock == HookSpec => Spec
<1>1. HookInit => Init
  BY DEF HookInit
<1> QED
  BY <1>1, HookStepsLock, PTL DEF HookSpec, Spec

------------------------------------------------------------------------------
(* Types *)

LEMMA SetStep ==
  ASSUME HooksTypeOK, NEW c \in Callers, NEW x, Set(c, x)
  PROVE  call'[c] = x /\ \A e \in Callers : e # c => call'[e] = call[e]
  BY DEF Set, HooksTypeOK

CallType == [step : CallSteps, id : Rows \cup {NoRow}, attempt : 0..MaxAttempts,
             failures : Nat, ok : BOOLEAN]

LEMMA CallTyped ==
  /\ \A s \in CallSteps, d \in Rows, k \in 0..MaxAttempts, f \in Nat, o \in BOOLEAN :
       Call(s, d, k, f, o) \in CallType
  /\ NoCall \in CallType /\ Between \in CallType
  BY DEF Call, NoCall, Between, CallType, CallSteps

LEMMA SetTyped ==
  ASSUME HooksTypeOK, NEW c \in Callers, NEW x \in CallType, Set(c, x)
  PROVE  call' \in [Callers -> CallType]
  BY DEF Set, HooksTypeOK, CallType

LEMMA CallOf == ASSUME HooksTypeOK, NEW c \in Callers PROVE call[c] \in CallType
  BY DEF HooksTypeOK, CallType

LEMMA HookTypeInit == HookInit => HooksTypeOK
  BY CallTyped DEF HookInit, HooksTypeOK, Open, Settled, CallType

LEMMA DispatchTyped ==
  ASSUME HooksTypeOK, CallShape, NEW c \in Callers, Dispatch(c)
  PROVE  HooksTypeOK'
<1> USE DEF Open, Settled
<1>0. /\ call[c] \in CallType
      /\ call[c].attempt \in 0..MaxAttempts /\ call[c].failures \in Nat /\ call[c].ok \in BOOLEAN
  BY CallOf DEF CallType
<1>1. ASSUME NEW d \in Rows, Read(c, d) PROVE HooksTypeOK'
  <2>1. attempt[d] \in 0..MaxAttempts /\ failures \in Nat
    BY DEF HooksTypeOK
  <2>2. call' \in [Callers -> CallType]
    BY <1>1, <2>1, CallTyped, SetTyped DEF Read, CallSteps
  <2>3. todo' \in [Runs -> SUBSET Rows]
    BY <1>1 DEF Read, HooksTypeOK
  <2> QED
    BY <1>1, <2>2, <2>3 DEF Read, HooksTypeOK, CallType, table, endpoint, history
<1>2. CASE Refuse(c)
  <2>1. call' \in [Callers -> CallType]
    BY <1>2, CallTyped, SetTyped DEF Refuse, Done
  <2> QED
    BY <1>2, <2>1 DEF Refuse, HooksTypeOK, CallType, endpoint, history
<1>3. ASSUME NEW ok \in BOOLEAN, Post(c, ok) PROVE HooksTypeOK'
  <2>1. IdOf(c) \in Rows
    BY <1>3 DEF Post, CallShape, In
  <2>2. call' \in [Callers -> CallType]
    BY <1>0, <1>3, <2>1, CallTyped, SetTyped DEF Post, CallSteps
  <2> QED
    BY <1>3, <2>1, <2>2 DEF Post, HooksTypeOK, CallType, table, endpoint
<1>4. CASE WriteRow(c)
  <2>1. IdOf(c) \in Rows
    BY <1>4 DEF WriteRow, CallShape, In
  <2>2. call' \in [Callers -> CallType]
    BY <1>0, <1>4, <2>1, CallTyped, SetTyped DEF WriteRow, Tally, CallSteps
  <2>3. row' \in [Rows -> {"unborn"} \cup Open \cup Settled] /\ due' \in [Rows -> BOOLEAN]
    BY <1>4, <2>1 DEF WriteRow, HooksTypeOK
  <2>4. attempt' \in [Rows -> 1..MaxAttempts]
    BY <1>0, <1>4, <2>1 DEF WriteRow, ShouldRetry, HooksTypeOK
  <2> QED
    BY <1>4, <2>2, <2>3, <2>4 DEF WriteRow, HooksTypeOK, CallType, endpoint, history
<1>5. CASE WriteEndpoint(c)
  <2>1. call' \in [Callers -> CallType]
    BY <1>5, CallTyped, SetTyped DEF WriteEndpoint, Done
  <2>2. failures' \in Nat /\ active' \in BOOLEAN
    BY <1>0, <1>5 DEF WriteEndpoint, HooksTypeOK
  <2> QED
    BY <1>5, <2>1, <2>2 DEF WriteEndpoint, HooksTypeOK, CallType, table, history
<1> QED
  BY <1>1, <1>2, <1>3, <1>4, <1>5 DEF Dispatch

LEMMA HookTypeNext == HooksTypeOK /\ CallShape /\ [HookNext]_hookVars => HooksTypeOK'
<1> SUFFICES ASSUME HooksTypeOK, CallShape, [HookNext]_hookVars PROVE HooksTypeOK'
  OBVIOUS
<1> USE DEF Open, Settled
<1>1. ASSUME NEW d \in Rows, Emit(d) PROVE HooksTypeOK'
  BY <1>1 DEF Emit, Insertion, HooksTypeOK, endpoint
<1>2. ASSUME NEW k \in Desks, NEW d \in Rows, StartTest(k, d) PROVE HooksTypeOK'
  <2>0. "read" \in CallSteps /\ 0 \in 0..MaxAttempts /\ 0 \in Nat
    BY DEF CallSteps
  <2>1. Call("read", d, 0, 0, FALSE) \in CallType /\ k \in Callers
    BY <2>0, CallTyped DEF Callers
  <2>2. call' \in [Callers -> CallType]
    BY <1>2, <2>1, SetTyped DEF StartTest
  <2> QED
    BY <1>2, <2>2 DEF StartTest, Insertion, HooksTypeOK, CallType, endpoint
<1>3. CASE Unsubscribe
  BY <1>3 DEF Unsubscribe, HooksTypeOK, table, history
<1>4. ASSUME NEW c \in Callers, Dispatch(c) PROVE HooksTypeOK'
  BY <1>4, DispatchTyped
<1>5. ASSUME NEW r \in Runs, Scan(r) \/ JobEnds(r) PROVE HooksTypeOK'
  <2>1. r \in Callers /\ DueRows \in SUBSET Rows
    BY DEF Callers, DueRows
  <2>2. call' \in [Callers -> CallType]
    BY <1>5, <2>1, CallTyped, SetTyped DEF Scan, JobEnds
  <2> QED
    BY <1>5, <2>1, <2>2 DEF Scan, JobEnds, HooksTypeOK, CallType, table, endpoint, history
<1>6. ASSUME NEW c \in Callers, Throw(c) \/ Die(c) PROVE HooksTypeOK'
  <2>1. call' \in [Callers -> CallType]
    BY <1>6, CallTyped, SetTyped DEF Throw, Die, Lose
  <2>2. todo' \in [Runs -> SUBSET Rows] /\ throws' \in Nat
    BY <1>6 DEF Throw, Die, Lose, HooksTypeOK
  <2> QED
    BY <1>6, <2>1, <2>2 DEF Throw, Die, Lose, HooksTypeOK, CallType, table, endpoint, history
<1>7. ASSUME NEW d \in Rows, FallDue(d) PROVE HooksTypeOK'
  BY <1>7 DEF FallDue, HooksTypeOK, endpoint, history
<1>8. CASE UNCHANGED hooks
  BY <1>8 DEF hooks, HooksTypeOK
<1> QED
  BY <1>1, <1>2, <1>3, <1>4, <1>5, <1>6, <1>7, <1>8
  DEF HookNext, Works, Fires, Locking, Passes, Callers, hookVars

LEMMA ShapeNext == HooksTypeOK /\ CallShape /\ [HookNext]_hookVars => CallShape'
<1> SUFFICES ASSUME HooksTypeOK, CallShape, [HookNext]_hookVars PROVE CallShape'
  OBVIOUS
<1>1. ASSUME NEW c \in Callers, Dispatch(c) PROVE CallShape'
  <2>1. ASSUME NEW d \in Rows, Read(c, d) PROVE CallShape'
    BY <2>1, SetStep DEF Read, Call, CallShape, In, IdOf
  <2>2. CASE Refuse(c) \/ WriteEndpoint(c)
    BY <2>2, SetStep DEF Refuse, WriteEndpoint, Done, Between, NoCall, Call, CallShape, In, IdOf
  <2>3. ASSUME NEW ok \in BOOLEAN, Post(c, ok) PROVE CallShape'
    BY <2>3, SetStep DEF Post, Call, CallShape, In, IdOf
  <2>4. CASE WriteRow(c)
    BY <2>4, SetStep DEF WriteRow, Tally, Call, CallShape, In, IdOf
  <2> QED
    BY <1>1, <2>1, <2>2, <2>3, <2>4 DEF Dispatch
<1>2. ASSUME NEW k \in Desks, NEW d \in Rows, StartTest(k, d) PROVE CallShape'
  <2>1. k \in Callers
    BY DEF Callers
  <2> QED
    BY <1>2, <2>1, SetStep DEF StartTest, Call, CallShape, In, IdOf
<1>3. ASSUME NEW r \in Runs, Scan(r) \/ JobEnds(r) PROVE CallShape'
  <2>1. r \in Callers
    BY DEF Callers
  <2> QED
    BY <1>3, <2>1, SetStep DEF Scan, JobEnds, Between, NoCall, Call, CallShape, In, IdOf
<1>4. ASSUME NEW c \in Callers, Throw(c) \/ Die(c) PROVE CallShape'
  BY <1>4, SetStep DEF Throw, Die, Lose, NoCall, Call, CallShape, In, IdOf
<1>5. CASE UNCHANGED call
  BY <1>5 DEF CallShape, In, IdOf
<1> QED
  BY <1>1, <1>2, <1>3, <1>4, <1>5
  DEF HookNext, Emit, Unsubscribe, Works, Fires, Locking, Passes, FallDue, Callers, hooks, hookVars

\* Every delivery, counter and call keeps its type: attempt_number never passes
\* max_attempts (webhook-dispatcher.ts, 203).
THEOREM HookTypes == HookSpec => []HooksTypeOK
<1> DEFINE I == HooksTypeOK /\ CallShape
<1>1. HookInit => I
  BY HookTypeInit DEF HookInit, CallShape, NoCall, Call, In, IdOf
<1>2. I /\ [HookNext]_hookVars => I'
  BY HookTypeNext, ShapeNext
<1>3. I => HooksTypeOK
  OBVIOUS
<1> QED
  BY <1>1, <1>2, <1>3, PTL DEF HookSpec

------------------------------------------------------------------------------
(* Events under the lock *)

Faults == crashes + throws

LEMMA FaultsCount ==
  ASSUME TypeOK, TypeOK', HooksTypeOK, HooksTypeOK'
  PROVE  /\ crashes \in Nat /\ throws \in Nat /\ crashes' \in Nat /\ throws' \in Nat
         /\ \A d \in Rows : /\ posts[d] \in Nat /\ posts'[d] \in Nat
                            /\ attempt[d] \in Nat /\ attempt'[d] \in Nat
  BY DEF TypeOK, HooksTypeOK

\* Nothing an event has to do with changes, but it may come in, and tests may too.
Kept(r) == call'[r] = call[r] /\ todo'[r] = todo[r] /\ (at[r] = "job" => at'[r] = "job")
Quiet ==
  /\ \A r \in Runs : Kept(r)
  /\ crashes' + throws' >= crashes + throws
  /\ tests \subseteq tests'
  /\ \A d \in Rows \ tests' :
       /\ attempt'[d] = attempt[d] /\ posts'[d] = posts[d]
       /\ row'[d] = row[d] \/ (row[d] = "unborn" /\ row'[d] \in Open)

LEMMA QuietKeeps ==
  ASSUME HookInv, TypeOK, TypeOK', HooksTypeOK', Quiet
  PROVE  JobsOnly' /\ RunReads' /\ Counted'
<1> USE DEF HookInv
<1>1. JobsOnly'
  BY DEF JobsOnly, Quiet, Kept, In
<1>2. RunReads'
  BY DEF RunReads, Unread, Current, Quiet, Kept, IdOf, Open
<1>3. \A d \in Rows \ tests' : Spent(d) => Spent(d)'
  BY DEF Spent, InFlight, Quiet, Kept, In, IdOf, Settled
<1>4. Counted'
  BY <1>3, FaultsCount DEF Counted, Quiet
<1> QED
  BY <1>1, <1>2, <1>4

\* A desk writes its own tests only.
LEMMA DeskIsQuiet ==
  ASSUME HookInv, TypeOK, NEW k \in Desks, Dispatch(k)
  PROVE  Quiet /\ DesksTest'
<1>1. k \in Callers /\ k \notin Runs
  BY DEF Callers
<1>2. UNCHANGED <<vars, todo, throws, tests>>
  <2>1. ASSUME NEW d \in Rows, Read(k, d) PROVE UNCHANGED <<vars, todo, throws, tests>>
    BY <1>1, <2>1 DEF Read, history
  <2>2. CASE Refuse(k) \/ WriteRow(k) \/ WriteEndpoint(k)
    BY <2>2 DEF Refuse, WriteRow, WriteEndpoint, history
  <2>3. ASSUME NEW ok \in BOOLEAN, Post(k, ok) PROVE UNCHANGED <<vars, todo, throws, tests>>
    BY <2>3 DEF Post
  <2> QED
    BY <2>1, <2>2, <2>3 DEF Dispatch
<1>3. /\ \A c \in Callers : c # k => call'[c] = call[c]
      /\ call'[k].id \in Rows => call'[k].id = IdOf(k)
  <2>1. ASSUME NEW d \in Rows, Read(k, d)
        PROVE  /\ \A c \in Callers : c # k => call'[c] = call[c]
               /\ call'[k].id \in Rows => call'[k].id = IdOf(k)
    BY <1>1, <2>1, SetStep DEF Read, Call, HookInv
  <2>2. CASE Refuse(k) \/ WriteEndpoint(k)
    BY <1>1, <2>2, SetStep DEF Refuse, WriteEndpoint, Done, NoCall, Call, HookInv
  <2>3. CASE WriteRow(k)
    BY <1>1, <2>3, SetStep DEF WriteRow, Tally, Call, HookInv
  <2>4. ASSUME NEW ok \in BOOLEAN, Post(k, ok)
        PROVE  /\ \A c \in Callers : c # k => call'[c] = call[c]
               /\ call'[k].id \in Rows => call'[k].id = IdOf(k)
    BY <1>1, <2>4, SetStep DEF Post, Call, HookInv
  <2> QED
    BY <2>1, <2>2, <2>3, <2>4 DEF Dispatch
<1>4. \A d \in Rows \ tests : attempt'[d] = attempt[d] /\ posts'[d] = posts[d] /\ row'[d] = row[d]
  <2> SUFFICES ASSUME NEW d \in Rows \ tests
               PROVE  attempt'[d] = attempt[d] /\ posts'[d] = posts[d] /\ row'[d] = row[d]
    OBVIOUS
  <2>1. IdOf(k) # d
    BY DEF HookInv, DesksTest
  <2>2. ASSUME NEW e \in Rows, Read(k, e) PROVE UNCHANGED <<row, attempt, posts>>
    BY <2>2 DEF Read, table, history
  <2>3. CASE Refuse(k)
    BY <2>1, <2>3 DEF Refuse, history, HookInv, HooksTypeOK
  <2>4. CASE WriteRow(k)
    BY <2>1, <2>4 DEF WriteRow, history, HookInv, HooksTypeOK
  <2>5. CASE WriteEndpoint(k)
    BY <2>5 DEF WriteEndpoint, table, history
  <2>6. ASSUME NEW ok \in BOOLEAN, Post(k, ok)
        PROVE  attempt'[d] = attempt[d] /\ posts'[d] = posts[d] /\ row'[d] = row[d]
    BY <2>1, <2>6 DEF Post, table, HookInv, HooksTypeOK
  <2> QED
    BY <2>2, <2>3, <2>4, <2>5, <2>6 DEF Dispatch
<1>5. crashes \in Nat /\ throws \in Nat
  BY DEF TypeOK, HookInv, HooksTypeOK
<1>6. Quiet
  BY <1>1, <1>2, <1>3, <1>4, <1>5 DEF Quiet, Kept, Callers, vars
<1>7. DesksTest'
  BY <1>1, <1>2, <1>3 DEF DesksTest, Callers, IdOf, HookInv
<1> QED
  BY <1>6, <1>7

\* Staff insert a test, an event comes in, somebody unsubscribes, the clock goes on.
LEMMA OutsideIsQuiet ==
  ASSUME HookInv, TypeOK,
         \/ \E d \in Rows : Emit(d) \/ FallDue(d) \/ \E k \in Desks : StartTest(k, d)
         \/ Unsubscribe
  PROVE  Quiet /\ DesksTest'
<1>0. crashes \in Nat /\ throws \in Nat
  BY DEF TypeOK, HookInv, HooksTypeOK
<1>1. ASSUME NEW d \in Rows, Emit(d) PROVE Quiet /\ DesksTest'
  BY <1>0, <1>1 DEF Emit, Insertion, Quiet, Kept, DesksTest, IdOf, vars, HookInv, HooksTypeOK, Open
<1>2. ASSUME NEW d \in Rows, FallDue(d) PROVE Quiet /\ DesksTest'
  BY <1>0, <1>2 DEF FallDue, Quiet, Kept, DesksTest, IdOf, vars, history, HookInv
<1>3. CASE Unsubscribe
  BY <1>0, <1>3 DEF Unsubscribe, Quiet, Kept, DesksTest, IdOf, vars, table, history, HookInv
<1>4. ASSUME NEW d \in Rows, NEW k \in Desks, StartTest(k, d) PROVE Quiet /\ DesksTest'
  <2>1. k \in Callers /\ k \notin Runs
    BY DEF Callers
  <2>2. call'[k] = Call("read", d, 0, 0, FALSE) /\ \A c \in Callers : c # k => call'[c] = call[c]
    BY <1>4, <2>1, SetStep DEF StartTest, HookInv
  <2>3. /\ UNCHANGED <<vars, attempt, todo, throws, posts>> /\ tests' = tests \cup {d}
        /\ row' = [row EXCEPT ![d] = "pending"]
    BY <1>4 DEF StartTest, Insertion
  <2>4. Quiet
    BY <1>0, <2>1, <2>2, <2>3 DEF Quiet, Kept, Callers, vars, HookInv, HooksTypeOK
  <2>5. DesksTest'
    BY <2>1, <2>2, <2>3 DEF DesksTest, IdOf, Call, Callers, HookInv
  <2> QED
    BY <2>4, <2>5
<1> QED
  BY <1>1, <1>2, <1>3, <1>4

\* Acquiring, releasing, the clock and the staff who free locks end nobody's job.
LEMMA LockIsQuiet ==
  ASSUME HookInv, TypeOK, UNCHANGED hooks,
         \/ \E r \in Runs : Begin(r) \/ Insert(r) \/ Select(r) \/ TakeOver(r) \/ Release(r)
         \/ ExpireStale \/ ForceRelease \/ Tick \/ UNCHANGED vars
  PROVE  Quiet /\ DesksTest'
<1>1. \A r \in Runs : at[r] = "job" => at'[r] = "job"
  <2>1. ASSUME NEW r \in Runs, Begin(r) \/ Select(r) \/ Release(r)
        PROVE  \A q \in Runs : at[q] = "job" => at'[q] = "job"
    BY <2>1 DEF Begin, Select, Release, Goto, TypeOK
  <2>2. ASSUME NEW r \in Runs, Insert(r) \/ TakeOver(r)
        PROVE  \A q \in Runs : at[q] = "job" => at'[q] = "job"
    BY <2>2 DEF Insert, TakeOver, LockRow, Goto, TypeOK
  <2>3. CASE ExpireStale \/ ForceRelease \/ Tick \/ UNCHANGED vars
    BY <2>3 DEF ExpireStale, ForceRelease, Tick, vars
  <2> QED
    BY <2>1, <2>2, <2>3
<1>2. crashes' = crashes /\ crashes \in Nat /\ throws \in Nat
  BY DEF Begin, Insert, Select, TakeOver, Release, ExpireStale, ForceRelease, Tick, vars, TypeOK,
         HookInv, HooksTypeOK
<1>3. UNCHANGED <<row, attempt, todo, call, throws, posts, tests>>
  BY DEF hooks
<1> QED
  BY <1>1, <1>2, <1>3 DEF Quiet, Kept, DesksTest, IdOf, HookInv

------------------------------------------------------------------------------
(* The run at work *)

\* Nobody else dispatches anything while a run has the job.
LEMMA Alone ==
  ASSUME HookInv, OneRunAtATime, NEW r \in Runs, at[r] = "job", NEW q \in Runs, q # r
  PROVE  call[q] = NoCall /\ In(q, "none") /\ IdOf(q) \notin Rows /\ todo[q] = {}
<1>1. at[q] # "job"
  BY DEF OneRunAtATime, Working
<1>2. In(q, "none")
  BY <1>1 DEF HookInv, JobsOnly
<1> QED
  BY <1>2 DEF HookInv, JobsOnly, CallShape, In, Callers

\* A run that writes, dies or ends: its own call and list change, the others have none.
LEMMA RunSteps ==
  ASSUME HookInv, OneRunAtATime, TypeOK, TypeOK', HooksTypeOK',
         NEW r \in Runs, at[r] = "job",
         \A q \in Runs : q # r => call'[q] = call[q] /\ todo'[q] = todo[q] /\ at'[q] = at[q],
         at'[r] # "job" => call'[r].step = "none",
         call'[r].step = "none" => call'[r] = NoCall /\ todo'[r] = {},
         tests' = tests,
         \A d \in Rows \ tests :
           /\ call'[r].id = d => call'[r].step # "read" /\ d \notin todo'[r]
           /\ d \in todo'[r] => row'[d] \in Open
           /\ call'[r].id = d /\ call'[r].step \in {"refuse", "post", "answered"}
                => row'[d] \in Open /\ call'[r].attempt = attempt'[d]
           /\ posts'[d] <= attempt'[d] + crashes' + throws'
           /\ row'[d] \notin Settled /\ ~(call'[r].id = d /\ call'[r].step = "answered")
                => posts'[d] + 1 <= attempt'[d] + crashes' + throws'
  PROVE  JobsOnly' /\ RunReads' /\ Counted'
<1>1. \A q \in Runs : q # r =>
        call'[q] = NoCall /\ In(q, "none")' /\ IdOf(q)' \notin Rows /\ todo'[q] = {}
  BY Alone DEF In, IdOf
<1>2. JobsOnly'
  BY <1>1 DEF JobsOnly, In
<1>3. RunReads'
  BY <1>1 DEF RunReads, Unread, Current, IdOf
<1>4. \A d \in Rows \ tests : ~Spent(d)' =>
        row'[d] \notin Settled /\ ~(call'[r].id = d /\ call'[r].step = "answered")
  BY DEF Spent, InFlight, In, IdOf
<1>5. Counted'
  BY <1>4 DEF Counted
<1> QED
  BY <1>2, <1>3, <1>5

\* An event's row is settled for a run only in its own hands.
SettledStep(d) == row[d] \in Settled => row'[d] = row[d] /\ posts'[d] = posts[d]

LEMMA RunDispatches ==
  ASSUME HookInv, OneRunAtATime, TypeOK, TypeOK', HooksTypeOK', NEW r \in Runs, Dispatch(r)
  PROVE  /\ JobsOnly' /\ RunReads' /\ Counted' /\ DesksTest'
         /\ \A d \in Rows \ tests : SettledStep(d)
<1>1. r \in Callers /\ r \notin Desks /\ call[r].step # "none" /\ at[r] = "job"
  <2>1. call[r].step # "none"
    BY DEF Dispatch, Read, Refuse, Post, WriteRow, WriteEndpoint, In
  <2> QED
    BY <2>1 DEF Callers, HookInv, JobsOnly, In
<1>2. UNCHANGED <<vars, throws, tests>>
  BY DEF Dispatch, Read, Refuse, Post, WriteRow, WriteEndpoint, history
<1>3. \A c \in Callers : c # r => call'[c] = call[c]
  BY <1>1, SetStep DEF Dispatch, Read, Refuse, Post, WriteRow, Tally, WriteEndpoint, Done, HookInv
<1>4. \A q \in Runs : q # r => call'[q] = call[q] /\ todo'[q] = todo[q] /\ at'[q] = at[q]
  <2>1. \A q \in Runs : q # r => todo'[q] = todo[q]
    BY <1>1 DEF Dispatch, Read, Refuse, Post, WriteRow, WriteEndpoint, HookInv, HooksTypeOK
  <2> QED
    BY <1>2, <1>3, <2>1 DEF Callers, vars
<1>5. DesksTest'
  BY <1>1, <1>2, <1>3 DEF DesksTest, IdOf, Callers, HookInv
<1>6. /\ crashes' = crashes /\ throws' = throws /\ at'[r] = "job"
      /\ crashes \in Nat /\ throws \in Nat
      /\ \A d \in Rows : posts[d] \in Nat /\ attempt[d] \in Nat
  BY <1>1, <1>2, FaultsCount DEF vars, HookInv
<1>7. \A d \in Rows \ tests :
        /\ IdOf(r) = d => d \notin todo[r]
        /\ d \in todo[r] => row[d] \in Open
        /\ Current(r, d) => row[d] \in Open /\ call[r].attempt = attempt[d]
        /\ posts[d] <= attempt[d] + crashes + throws
        /\ row[d] \notin Settled /\ ~(IdOf(r) = d /\ In(r, "answered"))
             => posts[d] + 1 <= attempt[d] + crashes + throws
  <2>1. \A d \in Rows, q \in Runs : q # r => ~(IdOf(q) = d)
    BY <1>1, Alone
  <2>2. \A d \in Rows : InFlight(d) => IdOf(r) = d /\ In(r, "answered")
    BY <2>1 DEF InFlight
  <2> QED
    BY <2>2 DEF HookInv, RunReads, Unread, Counted, Spent
<1>8. ASSUME NEW e \in Rows, Read(r, e)
      PROVE  JobsOnly' /\ RunReads' /\ Counted' /\ \A d \in Rows \ tests : SettledStep(d)
  <2>1. /\ call'[r].step \in {"post", "refuse"} /\ call'[r].id = e /\ call'[r].attempt = attempt[e]
        /\ e \in todo[r] /\ todo'[r] = todo[r] \ {e} /\ In(r, "next")
        /\ UNCHANGED <<row, attempt, posts>>
    BY <1>1, <1>8, SetStep DEF Read, Call, table, history, HookInv, HooksTypeOK
  <2>2. \A d \in Rows \ tests :
           /\ call'[r].id = d => call'[r].step # "read" /\ d \notin todo'[r]
           /\ d \in todo'[r] => row'[d] \in Open
           /\ call'[r].id = d /\ call'[r].step \in {"refuse", "post", "answered"}
                => row'[d] \in Open /\ call'[r].attempt = attempt'[d]
    BY <1>7, <2>1
  <2>3. \A d \in Rows \ tests :
           /\ posts'[d] <= attempt'[d] + crashes' + throws'
           /\ row'[d] \notin Settled /\ ~(call'[r].id = d /\ call'[r].step = "answered")
                => posts'[d] + 1 <= attempt'[d] + crashes' + throws'
    BY <1>6, <1>7, <2>1 DEF In
  <2>4. JobsOnly' /\ RunReads' /\ Counted'
    BY <1>1, <1>2, <1>4, <1>6, <2>1, <2>2, <2>3, RunSteps
  <2> QED
    BY <2>1, <2>4 DEF SettledStep
<1>9. CASE Refuse(r)
  <2>1. /\ In(r, "refuse") /\ IdOf(r) \in Rows
        /\ call'[r].step = "next" /\ call'[r].id \notin Rows /\ todo'[r] = todo[r]
        /\ row' = [row EXCEPT ![IdOf(r)] = "failed"]
        /\ UNCHANGED <<attempt, posts>>
    BY <1>1, <1>9, SetStep DEF Refuse, Done, Between, Call, history, HookInv, CallShape, In
  <2>2. \A d \in Rows : row'[d] = IF d = IdOf(r) THEN "failed" ELSE row[d]
    BY <2>1 DEF HookInv, HooksTypeOK
  <2>3. \A d \in Rows \ tests :
           /\ call'[r].id = d => call'[r].step # "read" /\ d \notin todo'[r]
           /\ d \in todo'[r] => row'[d] \in Open
           /\ call'[r].id = d /\ call'[r].step \in {"refuse", "post", "answered"}
                => row'[d] \in Open /\ call'[r].attempt = attempt'[d]
    BY <1>7, <2>1, <2>2
  <2>4. \A d \in Rows \ tests :
           /\ posts'[d] <= attempt'[d] + crashes' + throws'
           /\ row'[d] \notin Settled /\ ~(call'[r].id = d /\ call'[r].step = "answered")
                => posts'[d] + 1 <= attempt'[d] + crashes' + throws'
    BY <1>6, <1>7, <2>1, <2>2 DEF In, Settled
  <2>5. JobsOnly' /\ RunReads' /\ Counted'
    BY <1>1, <1>2, <1>4, <1>6, <2>1, <2>3, <2>4, RunSteps
  <2>6. \A d \in Rows \ tests : SettledStep(d)
    BY <1>7, <2>1, <2>2 DEF SettledStep, Current, In, Open, Settled
  <2> QED
    BY <1>5, <2>5, <2>6
<1>10. ASSUME NEW ok \in BOOLEAN, Post(r, ok)
       PROVE  JobsOnly' /\ RunReads' /\ Counted' /\ \A d \in Rows \ tests : SettledStep(d)
  <2>1. /\ In(r, "post") /\ IdOf(r) \in Rows
        /\ call'[r].step = "answered" /\ call'[r].id = IdOf(r) /\ call'[r].attempt = call[r].attempt
        /\ todo'[r] = todo[r]
        /\ posts' = [posts EXCEPT ![IdOf(r)] = @ + 1]
        /\ UNCHANGED <<row, attempt>>
    BY <1>1, <1>10, SetStep DEF Post, Call, table, HookInv, CallShape, In
  <2>2. \A d \in Rows : posts'[d] = IF d = IdOf(r) THEN posts[d] + 1 ELSE posts[d]
    BY <2>1 DEF HookInv, HooksTypeOK
  <2>3. \A d \in Rows \ tests : d = IdOf(r) => row[d] \in Open /\ call[r].attempt = attempt[d]
    BY <1>7, <2>1 DEF Current, In
  <2>4. \A d \in Rows \ tests :
           /\ call'[r].id = d => call'[r].step # "read" /\ d \notin todo'[r]
           /\ d \in todo'[r] => row'[d] \in Open
           /\ call'[r].id = d /\ call'[r].step \in {"refuse", "post", "answered"}
                => row'[d] \in Open /\ call'[r].attempt = attempt'[d]
    BY <1>7, <2>1, <2>3
  <2>5. \A d \in Rows \ tests :
           /\ posts'[d] <= attempt'[d] + crashes' + throws'
           /\ row'[d] \notin Settled /\ ~(call'[r].id = d /\ call'[r].step = "answered")
                => posts'[d] + 1 <= attempt'[d] + crashes' + throws'
    BY <1>6, <1>7, <2>1, <2>2, <2>3 DEF In, Open, Settled
  <2>6. JobsOnly' /\ RunReads' /\ Counted'
    BY <1>1, <1>2, <1>4, <1>6, <2>1, <2>4, <2>5, RunSteps
  <2>7. \A d \in Rows \ tests : SettledStep(d)
    BY <2>1, <2>2, <2>3 DEF SettledStep, Open, Settled
  <2> QED
    BY <2>6, <2>7
<1>11. CASE WriteRow(r)
  <2> DEFINE n == IdOf(r)
             k == call[r].attempt
  <2>1. /\ In(r, "answered") /\ n \in Rows /\ k \in Nat
        /\ call'[r].step = "tally" /\ call'[r].id = n /\ todo'[r] = todo[r]
        /\ posts' = posts
    BY <1>1, <1>11, SetStep, CallOf DEF WriteRow, Tally, Call, CallType, history, HookInv, CallShape, In
  <2>2. \A d \in Rows : d # n => row'[d] = row[d] /\ attempt'[d] = attempt[d]
    BY <1>11, <2>1 DEF WriteRow, HookInv, HooksTypeOK
  <2>3. \/ row'[n] \in Settled /\ attempt'[n] \in {attempt[n], k}
        \/ row'[n] = "retrying" /\ attempt'[n] = k + 1
    BY <1>11, <2>1 DEF WriteRow, HookInv, HooksTypeOK, Settled
  <2>4. \A d \in Rows \ tests : d = n => row[d] \in Open /\ k = attempt[d] /\ d \notin todo[r]
    BY <1>7, <2>1 DEF Current, In
  <2>5. \A d \in Rows \ tests :
           /\ call'[r].id = d => call'[r].step # "read" /\ d \notin todo'[r]
           /\ d \in todo'[r] => row'[d] \in Open
           /\ call'[r].id = d /\ call'[r].step \in {"refuse", "post", "answered"}
                => row'[d] \in Open /\ call'[r].attempt = attempt'[d]
    BY <1>7, <2>1, <2>2, <2>4
  <2>6. \A d \in Rows \ tests :
           /\ posts'[d] <= attempt'[d] + crashes' + throws'
           /\ row'[d] \notin Settled /\ ~(call'[r].id = d /\ call'[r].step = "answered")
                => posts'[d] + 1 <= attempt'[d] + crashes' + throws'
    <3> SUFFICES ASSUME NEW d \in Rows \ tests
                 PROVE  /\ posts'[d] <= attempt'[d] + crashes' + throws'
                        /\ row'[d] \notin Settled => posts'[d] + 1 <= attempt'[d] + crashes' + throws'
      OBVIOUS
    <3>1. CASE d = n
      BY <1>6, <1>7, <2>1, <2>3, <2>4, <3>1
    <3>2. CASE d # n
      BY <1>6, <1>7, <2>1, <2>2, <3>2
    <3> QED
      BY <3>1, <3>2
  <2>7. JobsOnly' /\ RunReads' /\ Counted'
    BY <1>1, <1>2, <1>4, <1>6, <2>1, <2>5, <2>6, RunSteps
  <2>8. \A d \in Rows \ tests : SettledStep(d)
    BY <2>1, <2>2, <2>4 DEF SettledStep, Open, Settled
  <2> QED
    BY <1>5, <2>7, <2>8
<1>12. CASE WriteEndpoint(r)
  <2>1. /\ In(r, "tally") /\ call'[r].step = "next" /\ call'[r].id \notin Rows
        /\ todo'[r] = todo[r] /\ UNCHANGED <<row, attempt, posts>>
    BY <1>1, <1>12, SetStep DEF WriteEndpoint, Done, Between, Call, table, history, HookInv
  <2>2. \A d \in Rows \ tests :
           /\ call'[r].id = d => call'[r].step # "read" /\ d \notin todo'[r]
           /\ d \in todo'[r] => row'[d] \in Open
           /\ call'[r].id = d /\ call'[r].step \in {"refuse", "post", "answered"}
                => row'[d] \in Open /\ call'[r].attempt = attempt'[d]
    BY <1>7, <2>1
  <2>3. \A d \in Rows \ tests :
           /\ posts'[d] <= attempt'[d] + crashes' + throws'
           /\ row'[d] \notin Settled /\ ~(call'[r].id = d /\ call'[r].step = "answered")
                => posts'[d] + 1 <= attempt'[d] + crashes' + throws'
    BY <1>6, <1>7, <2>1 DEF In
  <2>4. JobsOnly' /\ RunReads' /\ Counted'
    BY <1>1, <1>2, <1>4, <1>6, <2>1, <2>2, <2>3, RunSteps
  <2> QED
    BY <1>5, <2>1, <2>4 DEF SettledStep
<1> QED
  BY <1>5, <1>8, <1>9, <1>10, <1>11, <1>12 DEF Dispatch

LEMMA RunScans ==
  ASSUME HookInv, OneRunAtATime, TypeOK, TypeOK', HooksTypeOK', NEW r \in Runs,
         Scan(r) \/ JobEnds(r) \/ Throw(r) \/ Die(r)
  PROVE  /\ JobsOnly' /\ RunReads' /\ Counted' /\ DesksTest'
         /\ \A d \in Rows \ tests : SettledStep(d)
<1>1. r \in Callers /\ r \notin Desks
  BY DEF Callers
<1>2. /\ UNCHANGED <<row, attempt, posts, tests>>
      /\ \A q \in Runs : q # r => at'[q] = at[q] /\ todo'[q] = todo[q]
      /\ crashes' + throws' >= crashes + throws
  <2>1. UNCHANGED <<row, attempt, posts, tests>>
    BY DEF Scan, JobEnds, Throw, Die, Lose, table, history
  <2>2. \A q \in Runs : q # r => at'[q] = at[q]
    BY <1>1 DEF Scan, JobEnds, Throw, Die, Finish, Crash, Goto, vars, TypeOK
  <2>3. \A q \in Runs : q # r => todo'[q] = todo[q]
    BY DEF Scan, JobEnds, Throw, Die, Lose, HookInv, HooksTypeOK
  <2>4. crashes \in Nat /\ throws \in Nat
    BY FaultsCount DEF HookInv
  <2>5. crashes' + throws' >= crashes + throws
    BY <1>1, <2>4 DEF Scan, JobEnds, Throw, Die, Finish, Crash, RowUnchanged, vars
  <2> QED
    BY <2>1, <2>2, <2>3, <2>5
<1>3. /\ \A c \in Callers : c # r => call'[c] = call[c]
      /\ call'[r] \in {Between, NoCall}
  BY <1>1, SetStep DEF Scan, JobEnds, Throw, Die, Lose, HookInv
<1>4. /\ call'[r].id \notin Rows /\ call'[r].step \in {"next", "none"}
      /\ call'[r].step = "none" => call'[r] = NoCall /\ todo'[r] = {}
      /\ call'[r].step = "next" => at'[r] = "job"
      /\ todo'[r] \in {todo[r], DueRows, {}}
  <2>1. CASE Scan(r)
    BY <1>1, <2>1, SetStep DEF Scan, Between, Call, vars, HookInv, HooksTypeOK
  <2>2. CASE JobEnds(r)
    BY <1>1, <2>2, SetStep DEF JobEnds, NoCall, Call, HookInv
  <2>3. CASE Throw(r) \/ Die(r)
    BY <1>1, <2>3, SetStep DEF Throw, Die, Lose, NoCall, Call, HookInv, HooksTypeOK
  <2> QED
    BY <2>1, <2>2, <2>3
<1>5. DesksTest'
  BY <1>1, <1>2, <1>3 DEF DesksTest, IdOf, Callers, HookInv
<1>6. \A d \in Rows \ tests : SettledStep(d)
  BY <1>2 DEF SettledStep
<1>7. CASE at[r] = "job"
  <2>1. \A d \in Rows \ tests : d \in todo'[r] => row'[d] \in Open
    BY <1>1, <1>2, <1>4 DEF HookInv, RunReads, Unread, DueRows, Open
  <2>2. \A d \in Rows, q \in Runs : q # r => IdOf(q) # d
    BY <1>7, Alone
  <2>3. \A d \in Rows \ tests :
           /\ posts'[d] <= attempt'[d] + crashes' + throws'
           /\ row'[d] \notin Settled /\ ~(call'[r].id = d /\ call'[r].step = "answered")
                => posts'[d] + 1 <= attempt'[d] + crashes' + throws'
    <3> SUFFICES ASSUME NEW d \in Rows \ tests
                 PROVE  /\ posts'[d] <= attempt'[d] + crashes' + throws'
                        /\ row'[d] \notin Settled => posts'[d] + 1 <= attempt'[d] + crashes' + throws'
      OBVIOUS
    <3>1. /\ posts[d] <= attempt[d] + crashes + throws
          /\ ~Spent(d) => posts[d] + 1 <= attempt[d] + crashes + throws
          /\ posts'[d] = posts[d] /\ attempt'[d] = attempt[d] /\ row'[d] = row[d]
      BY <1>2 DEF HookInv, Counted
    <3>2. CASE ~InFlight(d)
      BY <1>2, <3>1, <3>2, FaultsCount DEF Spent, HookInv
    <3>3. CASE InFlight(d)
      <4>1. In(r, "answered")
        BY <2>2, <3>3 DEF InFlight
      <4>2. crashes' + throws' = crashes + throws + 1
        BY <4>1, FaultsCount DEF Scan, JobEnds, Throw, Die, Crash, Finish, RowUnchanged, In, HookInv
      <4> QED
        BY <3>1, <4>2, FaultsCount DEF HookInv
    <3> QED
      BY <3>2, <3>3
  <2> QED
    BY <1>2, <1>3, <1>4, <1>5, <1>6, <1>7, <2>1, <2>3, RunSteps DEF Callers
<1>8. CASE at[r] # "job"
  <2>1. call[r] = NoCall /\ todo[r] = {}
    BY <1>8 DEF HookInv, JobsOnly
  <2>2. call'[r] = NoCall /\ todo'[r] = {}
    BY <1>1, <1>8, <2>1, SetStep
    DEF Scan, JobEnds, Throw, Die, Lose, Finish, HookInv, HooksTypeOK
  <2>3. Quiet
    BY <1>2, <1>3, <1>8, <2>1, <2>2 DEF Quiet, Kept, Callers
  <2> QED
    BY <1>5, <1>6, <2>3, QuietKeeps
<1> QED
  BY <1>7, <1>8

LEMMA HookInvInit == HookInit => HookInv
<1> SUFFICES ASSUME HookInit PROVE HookInv
  OBVIOUS
<1>1. HooksTypeOK
  BY HookTypeInit
<1>2. \A c \in Callers : call[c] = NoCall
  BY DEF HookInit
<1>3. CallShape /\ JobsOnly /\ DesksTest
  BY <1>2 DEF HookInit, CallShape, JobsOnly, DesksTest, NoCall, Call, In, IdOf, Callers
<1>4. RunReads
  BY <1>2 DEF HookInit, RunReads, Unread, Current, NoCall, Call, IdOf, Callers
<1>5. Counted
  BY DEF HookInit, Init, Counted
<1> QED
  BY <1>1, <1>3, <1>4, <1>5 DEF HookInv

LEMMA HookInvNext ==
  ASSUME HookInv, OneRunAtATime, TypeOK, TypeOK', [HookNext]_hookVars
  PROVE  HookInv'
<1>1. HooksTypeOK' /\ CallShape'
  BY HookTypeNext, ShapeNext DEF HookInv
<1>2. CASE Quiet /\ DesksTest'
  BY <1>1, <1>2, QuietKeeps DEF HookInv
<1>3. ASSUME NEW r \in Runs, Dispatch(r) \/ Scan(r) \/ JobEnds(r) \/ Throw(r) \/ Die(r) PROVE HookInv'
  BY <1>1, <1>3, RunDispatches, RunScans DEF HookInv
<1>4. ASSUME NEW k \in Desks, Throw(k) PROVE Quiet /\ DesksTest'
  <2>1. k \in Callers /\ k \notin Runs
    BY DEF Callers
  <2>2. call'[k] = NoCall /\ \A c \in Callers : c # k => call'[c] = call[c]
    BY <1>4, <2>1, SetStep DEF Throw, Lose, HookInv
  <2>3. UNCHANGED <<vars, row, attempt, todo, posts, tests>> /\ throws' = throws + 1
    BY <1>4, <2>1 DEF Throw, Lose, table, history
  <2>4. crashes \in Nat /\ throws \in Nat
    BY DEF TypeOK, HookInv, HooksTypeOK
  <2>5. Quiet
    BY <2>1, <2>2, <2>3, <2>4 DEF Quiet, Kept, Callers, vars
  <2>6. DesksTest'
    BY <2>1, <2>2, <2>3 DEF DesksTest, IdOf, NoCall, Call, Callers, HookInv
  <2> QED
    BY <2>5, <2>6
<1>5. CASE UNCHANGED hookVars
  BY <1>2, <1>5, LockIsQuiet DEF hookVars
<1>6. ASSUME NEW r \in Runs, Fires(r) \/ Locking(r) PROVE Quiet /\ DesksTest'
  BY <1>6, LockIsQuiet DEF Fires, Locking
<1>7. CASE ((ExpireStale \/ ForceRelease) /\ UNCHANGED hooks) \/ Passes
  BY <1>2, <1>7, LockIsQuiet DEF Passes
<1> QED
  BY <1>2, <1>3, <1>4, <1>5, <1>6, <1>7, DeskIsQuiet, OutsideIsQuiet DEF HookNext, Works, Callers

\* What SettledStays asks of a step, from where the run or the desk stands.
LEMMA SettledStepHolds ==
  ASSUME HookInv, OneRunAtATime, TypeOK, TypeOK', [HookNext]_hookVars, NEW d \in Rows \ tests
  PROVE  SettledStep(d)
<1>1. HooksTypeOK' /\ CallShape'
  BY HookTypeNext, ShapeNext DEF HookInv
<1>2. ASSUME NEW r \in Runs, Dispatch(r) \/ Scan(r) \/ JobEnds(r) \/ Throw(r) \/ Die(r)
      PROVE  SettledStep(d)
  BY <1>1, <1>2, RunDispatches, RunScans
<1>3. ASSUME NEW k \in Desks, Dispatch(k) PROVE SettledStep(d)
  <2>1. k \in Callers /\ IdOf(k) # d
    BY DEF Callers, HookInv, DesksTest
  <2>2. ASSUME NEW e \in Rows, Read(k, e) PROVE SettledStep(d)
    BY <2>2 DEF Read, table, history, SettledStep
  <2>3. CASE Refuse(k) \/ WriteRow(k) \/ WriteEndpoint(k)
    BY <2>1, <2>3
    DEF Refuse, WriteRow, WriteEndpoint, table, history, SettledStep, HookInv, HooksTypeOK
  <2>4. ASSUME NEW ok \in BOOLEAN, Post(k, ok) PROVE SettledStep(d)
    BY <2>1, <2>4 DEF Post, table, SettledStep, HookInv, HooksTypeOK
  <2> QED
    BY <1>3, <2>2, <2>3, <2>4 DEF Dispatch
<1>4. ASSUME NEW e \in Rows, Insertion(e) \/ FallDue(e) PROVE SettledStep(d)
  BY <1>4 DEF Insertion, FallDue, history, SettledStep, Settled, HookInv, HooksTypeOK
<1>5. CASE Unsubscribe
  BY <1>5 DEF Unsubscribe, table, history, SettledStep
<1>6. ASSUME NEW k \in Desks, Throw(k) PROVE SettledStep(d)
  BY <1>6 DEF Throw, Lose, table, history, SettledStep
<1>7. CASE UNCHANGED hooks
  BY <1>7 DEF hooks, SettledStep
<1> QED
  BY <1>2, <1>3, <1>4, <1>5, <1>6, <1>7
  DEF HookNext, Emit, StartTest, Works, Fires, Locking, Passes, Callers, hookVars

LEMMA LockInvHolds == ASSUME Orderly PROVE HookSpec => [](Inv /\ OneRunAtATime /\ TypeOK)
<1>1. Inv => OneRunAtATime /\ TypeOK
  BY DEF Inv, RowTellsWork, OneRunAtATime
<1> QED
  BY <1>1, HooksImplementLock, InvHolds, PTL

LEMMA HookInvHolds ==
  ASSUME Orderly
  PROVE  HookSpec => [](HookInv /\ OneRunAtATime /\ TypeOK)
<1> DEFINE L == OneRunAtATime /\ TypeOK
<1>1. HookInit => HookInv
  BY HookInvInit
<1>2. HookInv /\ L /\ L' /\ [HookNext]_hookVars => HookInv'
  BY HookInvNext
<1>3. HookSpec => []L
  BY LockInvHolds, PTL
<1> HIDE DEF L
<1>4. HookSpec => [](HookInv /\ L)
  BY <1>1, <1>2, <1>3, PTL DEF HookSpec
<1> USE DEF L
<1> QED
  BY <1>4, PTL

------------------------------------------------------------------------------
\* An event is posted once per attempt, and once more for each run that dies or fails
\* between the request and the write (webhook-delivery-job.ts, 11), as long as the
\* lock's premises hold.
THEOREM EventsArePostedOnce == ASSUME Orderly PROVE HookSpec => []OnePostPerAttempt
<1>1. HookInv => OnePostPerAttempt
  BY DEF HookInv, Counted, OnePostPerAttempt
<1> QED
  BY <1>1, HookInvHolds, PTL

\* An event that was delivered, or failed for good, is neither posted again nor
\* reopened (webhook-dispatcher.ts, 242).
THEOREM SettledEventsStay == ASSUME Orderly PROVE HookSpec => SettledStays
<1>1. ASSUME HookInv, OneRunAtATime, TypeOK, TypeOK', [HookNext]_hookVars
      PROVE  [\A d \in Rows \ tests :
                row[d] \in Settled => row'[d] = row[d] /\ posts'[d] = posts[d]]_hookVars
  BY <1>1, SettledStepHolds DEF SettledStep
<1> QED
  BY <1>1, HookInvHolds, PTL DEF HookSpec, SettledStays

\* The delivery job works only while it holds its lock, unexpired (locks.ts, 97).
THEOREM HookRunHoldsLock == ASSUME Orderly PROVE HookSpec => []WorkingRunHoldsLock
  BY HooksImplementLock, LockIsKept, PTL

==============================================================================
