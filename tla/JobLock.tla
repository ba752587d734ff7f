------------------------------- MODULE JobLock -------------------------------
(***************************************************************************)
(* Mutual exclusion of the runs of one cron job through its row in         *)
(* job_locks (features/jobs/locks.ts), as executeJob uses it.  Rows of     *)
(* different jobs never meet, so one row is modelled.                      *)
(*                                                                         *)
(* Time advances in ticks.  Instead of timestamps the model keeps the time *)
(* that is left until the row's expires_at, and the age of each run: the   *)
(* time since it read its `now'.                                           *)
(*                                                                         *)
(* Once the row exists a run gets on only if the driver's error names the  *)
(* UNIQUE constraint (locks.ts, 81).  drizzle-orm 0.45.2, as package-lock  *)
(* pins it, says "Failed query" instead: DriverNamesUnique is FALSE of the *)
(* program as it is built, and then the job runs once and never again.     *)
(* Where it is TRUE runs take over from each other, and safety is at stake.*)
(***************************************************************************)
EXTENDS Integers, FiniteSets

CONSTANTS
  Runs,                \* invocations of executeJob, cron or manual
  TTL,                 \* ttlSeconds
  Grace,               \* STALE_GRACE_SECONDS
  MaxCrashes,          \* bound on invocations that die
  DriverNamesUnique,   \* a UNIQUE violation reaches the code with "unique" in its message
  AcquisitionsOverlap, \* two runs may acquire at the same time
  JobsOverrun,         \* a job may run longer than its TTL
  HastyStaff           \* staff may force-release the lock of a job that is running

ASSUME TimesAssumption == TTL \in Nat \ {0} /\ Grace \in Nat /\ MaxCrashes \in Nat
ASSUME SwitchesAssumption ==
  {DriverNamesUnique, AcquisitionsOverlap, JobsOverrun, HastyStaff} \subseteq BOOLEAN
ASSUME NobodyAssumption == "nobody" \notin Runs

VARIABLES
  status,   \* status of the row, "absent" until the job first runs
  left,     \* expires_at - now
  owner,    \* history: the run that last wrote the lock.  (locked_by cannot tell
            \* two cron runs apart, and no statement reads it.)
  at,       \* what each run does next
  age,      \* now - the `now' the run read when it began to acquire
  crashes

vars == <<status, left, owner, at, age, crashes>>

LockStatus == {"absent", "locked", "released", "expired"}
Acquiring  == {"insert", "select", "take_over"}
Working    == {"job", "release"}
Step       == {"idle"} \cup Acquiring \cup Working
Past       == -(Grace + 1)     \* long enough ago for every reader

Init ==
  /\ status = "absent" /\ left = 0 /\ owner = "nobody"
  /\ at = [r \in Runs |-> "idle"] /\ age = [r \in Runs |-> 0]
  /\ crashes = 0

Goto(r, step) == at' = [at EXCEPT ![r] = step]
RowUnchanged  == UNCHANGED <<status, left, owner>>

\* The row now carries the lock of r, which expires TTL after r read its clock.
LockRow(r) ==
  /\ status' = "locked" /\ owner' = r /\ left' = TTL - age[r]
  /\ Goto(r, "job")

------------------------------------------------------------------------------
(* Slips the code could plausibly contain; none is part of the             *)
(* specification.  They show that the properties would notice.             *)

\* A lock counts as free a grace period before it expires, not after.
StillHeldLessGrace(r) == status = "locked" /\ left + age[r] > Grace

\* The status written is one the table's CHECK does not know.
ExpireStaleAsStale ==
  /\ status = "locked" /\ left < -Grace
  /\ status' = "stale"
  /\ UNCHANGED <<left, owner, at, age, crashes>>

------------------------------------------------------------------------------
(* acquireJobLock *)

Begin(r) ==
  /\ at[r] = "idle"
  /\ AcquisitionsOverlap \/ \A q \in Runs : at[q] \notin Acquiring
  /\ Goto(r, "insert")
  /\ age' = [age EXCEPT ![r] = 0]
  /\ RowUnchanged /\ UNCHANGED crashes

\* The first run inserts the row.  Any later run violates UNIQUE(job_key), and
\* goes on to read the row only if it recognises the error, else it throws.
Insert(r) ==
  /\ at[r] = "insert"
  /\ \/ /\ status = "absent"
        /\ LockRow(r)
     \/ /\ status # "absent"
        /\ Goto(r, IF DriverNamesUnique THEN "select" ELSE "idle")
        /\ RowUnchanged
  /\ UNCHANGED <<age, crashes>>

\* stillHeld: expires_at > the run's own `now'.
StillHeld(r) == status = "locked" /\ left + age[r] > 0

Select(r) ==
  /\ at[r] = "select"
  /\ Goto(r, IF StillHeld(r) THEN "idle" ELSE "take_over")
  /\ RowUnchanged /\ UNCHANGED <<age, crashes>>

\* UPDATE ... WHERE id = ...: whatever the row has become since it was read.
TakeOver(r) ==
  /\ at[r] = "take_over"
  /\ LockRow(r)
  /\ UNCHANGED <<age, crashes>>

------------------------------------------------------------------------------
(* The run itself, and releaseJobLock in its finally block *)

Finish(r) ==
  /\ at[r] = "job"
  /\ Goto(r, "release")
  /\ RowUnchanged /\ UNCHANGED <<age, crashes>>

\* The row's id never changes, so this releases whoever's lock the row carries.
Release(r) ==
  /\ at[r] = "release"
  /\ status' = IF status = "locked" THEN "released" ELSE status
  /\ Goto(r, "idle")
  /\ UNCHANGED <<left, owner, age, crashes>>

Crash(r) ==
  /\ crashes < MaxCrashes
  /\ at[r] # "idle"
  /\ Goto(r, "idle")
  /\ crashes' = crashes + 1
  /\ RowUnchanged /\ UNCHANGED age

------------------------------------------------------------------------------
(* Staff: expireStaleJobLocks, forceReleaseJobLock *)

ExpireStale ==
  /\ status = "locked" /\ left < -Grace
  /\ status' = "expired"
  /\ UNCHANGED <<left, owner, at, age, crashes>>

ForceRelease ==
  /\ status = "locked"
  /\ HastyStaff \/ \A r \in Runs : at[r] \notin Working
  /\ status' = "released"
  /\ UNCHANGED <<left, owner, at, age, crashes>>

------------------------------------------------------------------------------
(* Time.  A run is done within its TTL ("bigger than any single job        *)
(* runtime today") unless JobsOverrun, and acquires within it in any case. *)

Tick ==
  /\ \A r \in Runs : at[r] \in Acquiring \/ (at[r] \in Working /\ ~JobsOverrun)
                       => age[r] + 1 < TTL
  /\ left' = IF left > Past THEN left - 1 ELSE left
  /\ age' = [r \in Runs |-> IF at[r] = "idle" \/ age[r] = TTL THEN age[r] ELSE age[r] + 1]
  /\ UNCHANGED <<status, owner, at, crashes>>

Steps(r) == Insert(r) \/ Select(r) \/ TakeOver(r) \/ Finish(r) \/ Release(r)
Next == \/ \E r \in Runs : Begin(r) \/ Steps(r) \/ Crash(r)
        \/ ExpireStale \/ ForceRelease \/ Tick

Spec == Init /\ [][Next]_vars

\* A run that is not killed goes on to its end, the cron fires again and again
\* on each run slot, and time passes.  Staff are not counted on.
FairSpec == Spec /\ WF_vars(Tick) /\ \A r \in Runs : WF_vars(Steps(r)) /\ SF_vars(Begin(r))

------------------------------------------------------------------------------
TypeOK ==
  /\ status \in LockStatus /\ left \in Past..TTL /\ owner \in Runs \cup {"nobody"}
  /\ at \in [Runs -> Step] /\ age \in [Runs -> 0..TTL]
  /\ crashes \in Nat

\* ENVIRONMENT-VARIABLES.md, CRON_MAX_CONCURRENT_PER_JOB: "Always 1 with
\* current `job_locks` model."  At most one run is between acquiring the lock
\* and releasing it.
OneRunAtATime == \A r, q \in Runs : at[r] \in Working /\ at[q] \in Working => r = q

\* While a run works the row carries its lock, unexpired: nobody has taken it
\* over, released it or declared it stale underneath the run.
WorkingRunHoldsLock ==
  \A r \in Runs : at[r] \in Working => status = "locked" /\ owner = r /\ left > 0

\* locks.ts, 56: "If the row already exists (UNIQUE on job_key), drizzle will throw -- we
\* handle that by reading + maybe taking over."  So a job runs again and again: a row that
\* is free, or whose lock has expired, does not shut it out.
JobRunsAgain == []<>(\E r \in Runs : at[r] = "job")

==============================================================================
