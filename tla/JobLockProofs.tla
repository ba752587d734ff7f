---------------------------- MODULE JobLockProofs ----------------------------
(***************************************************************************)
(* The lock does exclude runs of one job from each other as long as they   *)
(* acquire one after the other, end within their TTL, and staff keep their *)
(* hands off running jobs: for any number of runs, any TTL and any grace.  *)
(***************************************************************************)
EXTENDS JobLock, TLAPS

\* The premises locks.ts and ADR-0034 lean on without enforcing them.
Orderly == ~AcquisitionsOverlap /\ ~JobsOverrun /\ ~HastyStaff

OneAcquires == \A r, q \in Runs : at[r] \in Acquiring /\ at[q] \in Acquiring => r = q

InTime == \A r \in Runs : at[r] \in Acquiring \cup Working => age[r] < TTL

\* The time left on the row and the age of the run that works add up.
RowTellsWork ==
  \A r \in Runs : at[r] \in Working => status = "locked" /\ owner = r /\ left = TTL - age[r]

\* A run that decided to take the row over decided so for good reason.
TakeOverIsSafe ==
  \A r, q \in Runs : at[r] = "take_over" => at[q] \notin Working

Inv == TypeOK /\ OneAcquires /\ InTime /\ RowTellsWork /\ TakeOverIsSafe

USE TimesAssumption, SwitchesAssumption, NobodyAssumption

------------------------------------------------------------------------------
(* Types, whatever the switches *)

LEMMA TypeInit == Init => TypeOK
  BY DEF Init, TypeOK, LockStatus, Past, Step

LEMMA TypeNext == TypeOK /\ [Next]_vars => TypeOK'
<1> SUFFICES ASSUME TypeOK, [Next]_vars PROVE TypeOK'
  OBVIOUS
<1> USE DEF TypeOK, LockStatus, Step, Acquiring, Working, Past
<1>1. ASSUME NEW r \in Runs, Begin(r) PROVE TypeOK'
  BY <1>1 DEF Begin, Goto, RowUnchanged
<1>2. ASSUME NEW r \in Runs, Insert(r) PROVE TypeOK'
  BY <1>2 DEF Insert, LockRow, Goto, RowUnchanged
<1>3. ASSUME NEW r \in Runs, Select(r) PROVE TypeOK'
  BY <1>3 DEF Select, Goto, RowUnchanged
<1>4. ASSUME NEW r \in Runs, TakeOver(r) PROVE TypeOK'
  BY <1>4 DEF TakeOver, LockRow, Goto
<1>5. ASSUME NEW r \in Runs, Finish(r) PROVE TypeOK'
  BY <1>5 DEF Finish, Goto, RowUnchanged
<1>6. ASSUME NEW r \in Runs, Release(r) PROVE TypeOK'
  BY <1>6 DEF Release, Goto
<1>7. ASSUME NEW r \in Runs, Crash(r) PROVE TypeOK'
  BY <1>7 DEF Crash, Goto, RowUnchanged
<1>8. CASE ExpireStale
  BY <1>8 DEF ExpireStale
<1>9. CASE ForceRelease
  BY <1>9 DEF ForceRelease
<1>10. CASE Tick
  BY <1>10 DEF Tick
<1>11. CASE UNCHANGED vars
  BY <1>11 DEF vars
<1> QED
  BY <1>1, <1>2, <1>3, <1>4, <1>5, <1>6, <1>7, <1>8, <1>9, <1>10, <1>11 DEF Next, Steps

\* Every row the code writes is one job_locks admits (its status CHECK), with
\* an expiry within reach of the readers, whatever the runs and staff do.
THEOREM TypeCorrect == Spec => []TypeOK
<1>1. Init => TypeOK
  BY TypeInit
<1>2. TypeOK /\ [Next]_vars => TypeOK'
  BY TypeNext
<1> QED
  BY <1>1, <1>2, PTL DEF Spec

------------------------------------------------------------------------------
(* Mutual exclusion *)

LEMMA InvInit == Init => Inv
  BY TypeInit DEF Init, Inv, OneAcquires, InTime, RowTellsWork, TakeOverIsSafe, Acquiring, Working

\* Nobody works on a row that is absent, free, or about to be taken over.
LEMMA LockRowKeepsInv ==
  ASSUME Inv, TypeOK', NEW r \in Runs, LockRow(r), UNCHANGED age,
         at[r] \in {"insert", "take_over"},
         \A q \in Runs : at[q] \notin Working
  PROVE  Inv'
<1> USE DEF TypeOK, Step, Acquiring, Working
<1>0. /\ at' = [at EXCEPT ![r] = "job"]
      /\ status' = "locked" /\ owner' = r /\ left' = TTL - age'[r]
  BY DEF LockRow, Goto
<1>1. OneAcquires'
  BY <1>0 DEF Inv, OneAcquires
<1>2. InTime'
  BY <1>0 DEF Inv, InTime
<1>3. \A q \in Runs : at'[q] \in Working => q = r
  BY <1>0 DEF Inv
<1>4. RowTellsWork'
  BY <1>0, <1>3 DEF RowTellsWork
<1>5. \A q \in Runs : at'[q] # "take_over"
  BY <1>0 DEF Inv, OneAcquires
<1>6. TakeOverIsSafe'
  BY <1>5 DEF TakeOverIsSafe
<1> QED
  BY <1>1, <1>2, <1>4, <1>6 DEF Inv

LEMMA InvNext == Orderly /\ Inv /\ [Next]_vars => Inv'
<1> SUFFICES ASSUME Orderly, Inv, [Next]_vars PROVE Inv'
  OBVIOUS
<1>0. TypeOK'
  BY TypeNext DEF Inv
<1> USE DEF Acquiring, Working, Step
<1>1. ASSUME NEW r \in Runs, Begin(r) PROVE Inv'
  <2>1. /\ at' = [at EXCEPT ![r] = "insert"] /\ age' = [age EXCEPT ![r] = 0]
        /\ UNCHANGED <<status, left, owner>>
        /\ at[r] = "idle" /\ \A q \in Runs : at[q] \notin Acquiring
    BY <1>1 DEF Begin, Goto, RowUnchanged, Orderly
  <2>2. OneAcquires'
    BY <2>1 DEF OneAcquires, Inv, TypeOK
  <2>3. InTime'
    BY <2>1 DEF InTime, Inv, TypeOK
  <2>4. RowTellsWork'
    BY <2>1 DEF RowTellsWork, Inv, TypeOK
  <2>5. TakeOverIsSafe'
    BY <2>1 DEF TakeOverIsSafe, Inv, TypeOK
  <2> QED
    BY <1>0, <2>2, <2>3, <2>4, <2>5 DEF Inv
<1>2. ASSUME NEW r \in Runs, Insert(r) PROVE Inv'
  <2>1. CASE status = "absent" /\ LockRow(r)
    <3>1. \A q \in Runs : at[q] \notin Working
      BY <2>1 DEF Inv, RowTellsWork
    <3>2. at[r] = "insert" /\ UNCHANGED age
      BY <1>2 DEF Insert
    <3> QED
      BY <1>0, <2>1, <3>1, <3>2, LockRowKeepsInv
  <2>2. CASE Goto(r, IF DriverNamesUnique THEN "select" ELSE "idle") /\ RowUnchanged
    <3>1. /\ at[r] = "insert" /\ UNCHANGED <<status, left, owner, age>>
          /\ \/ at' = [at EXCEPT ![r] = "select"]
             \/ at' = [at EXCEPT ![r] = "idle"]
      BY <1>2, <2>2 DEF Insert, Goto, RowUnchanged
    <3>2. OneAcquires' /\ InTime'
      BY <3>1 DEF OneAcquires, InTime, Inv, TypeOK
    <3>3. RowTellsWork' /\ TakeOverIsSafe'
      BY <3>1 DEF RowTellsWork, TakeOverIsSafe, Inv, TypeOK
    <3> QED
      BY <1>0, <3>2, <3>3 DEF Inv
  <2> QED
    BY <1>2, <2>1, <2>2 DEF Insert
<1>3. ASSUME NEW r \in Runs, Select(r) PROVE Inv'
  <2>1. /\ at[r] = "select" /\ UNCHANGED <<status, left, owner, age>>
        /\ at' = [at EXCEPT ![r] = IF StillHeld(r) THEN "idle" ELSE "take_over"]
    BY <1>3 DEF Select, Goto, RowUnchanged
  <2>2. OneAcquires' /\ InTime'
    BY <2>1 DEF OneAcquires, InTime, Inv, TypeOK
  <2>3. RowTellsWork'
    BY <2>1 DEF RowTellsWork, Inv, TypeOK
  <2>4. ASSUME NEW q \in Runs, at[q] \in Working PROVE StillHeld(r)
    <3>1. status = "locked" /\ left = TTL - age[q] /\ age[q] < TTL
      BY <2>4 DEF RowTellsWork, InTime, Inv
    <3>2. age[q] \in Nat /\ age[r] \in Nat
      BY DEF TypeOK, Inv
    <3> QED
      BY <3>1, <3>2 DEF StillHeld
  <2>5. TakeOverIsSafe'
    BY <2>1, <2>4 DEF TakeOverIsSafe, Inv, TypeOK
  <2> QED
    BY <1>0, <2>2, <2>3, <2>5 DEF Inv
<1>4. ASSUME NEW r \in Runs, TakeOver(r) PROVE Inv'
  <2>1. at[r] = "take_over" /\ LockRow(r) /\ UNCHANGED age
    BY <1>4 DEF TakeOver
  <2>2. \A q \in Runs : at[q] \notin Working
    BY <2>1 DEF TakeOverIsSafe, Inv
  <2> QED
    BY <1>0, <2>1, <2>2, LockRowKeepsInv
<1>5. ASSUME NEW r \in Runs, Finish(r) PROVE Inv'
  <2>1. /\ at[r] = "job" /\ at' = [at EXCEPT ![r] = "release"]
        /\ UNCHANGED <<status, left, owner, age>>
    BY <1>5 DEF Finish, Goto, RowUnchanged
  <2>2. OneAcquires' /\ InTime'
    BY <2>1 DEF OneAcquires, InTime, Inv, TypeOK
  <2>3. RowTellsWork' /\ TakeOverIsSafe'
    BY <2>1 DEF RowTellsWork, TakeOverIsSafe, Inv, TypeOK
  <2> QED
    BY <1>0, <2>2, <2>3 DEF Inv
<1>6. ASSUME NEW r \in Runs, Release(r) PROVE Inv'
  <2>1. /\ at[r] = "release" /\ at' = [at EXCEPT ![r] = "idle"]
        /\ UNCHANGED <<left, owner, age>>
    BY <1>6 DEF Release, Goto
  <2>2. OneAcquires' /\ InTime'
    BY <2>1 DEF OneAcquires, InTime, Inv, TypeOK
  <2>3. \A q \in Runs : at'[q] \notin Working
    BY <2>1 DEF RowTellsWork, Inv, TypeOK
  <2>4. RowTellsWork' /\ TakeOverIsSafe'
    BY <2>3 DEF RowTellsWork, TakeOverIsSafe
  <2> QED
    BY <1>0, <2>2, <2>4 DEF Inv
<1>7. ASSUME NEW r \in Runs, Crash(r) PROVE Inv'
  <2>1. at' = [at EXCEPT ![r] = "idle"] /\ UNCHANGED <<status, left, owner, age>>
    BY <1>7 DEF Crash, Goto, RowUnchanged
  <2>2. OneAcquires' /\ InTime'
    BY <2>1 DEF OneAcquires, InTime, Inv, TypeOK
  <2>3. RowTellsWork' /\ TakeOverIsSafe'
    BY <2>1 DEF RowTellsWork, TakeOverIsSafe, Inv, TypeOK
  <2> QED
    BY <1>0, <2>2, <2>3 DEF Inv
<1>8. CASE ExpireStale \/ ForceRelease
  <2>1. UNCHANGED <<left, owner, at, age>>
    BY <1>8 DEF ExpireStale, ForceRelease
  <2>2. \A q \in Runs : at[q] \notin Working
    <3>1. CASE ForceRelease
      BY <3>1 DEF ForceRelease, Orderly
    <3>2. CASE ExpireStale
      <4> SUFFICES ASSUME NEW q \in Runs, at[q] \in Working PROVE FALSE
        OBVIOUS
      <4>1. left = TTL - age[q] /\ age[q] < TTL /\ age[q] \in Nat
        BY DEF RowTellsWork, InTime, TypeOK, Inv
      <4> QED
        BY <3>2, <4>1 DEF ExpireStale
    <3> QED
      BY <1>8, <3>1, <3>2
  <2> QED
    BY <1>0, <2>1, <2>2 DEF OneAcquires, InTime, RowTellsWork, TakeOverIsSafe, Inv
<1>9. CASE Tick
  <2>1. UNCHANGED <<status, owner, at>>
    BY <1>9 DEF Tick
  <2>2. ASSUME NEW q \in Runs, at[q] \in Acquiring \cup Working
        PROVE  age'[q] = age[q] + 1 /\ age'[q] < TTL
    <3>1. age[q] + 1 < TTL /\ age[q] \in Nat
      BY <1>9, <2>2 DEF Tick, Orderly, TypeOK, Inv
    <3> QED
      BY <1>9, <2>2, <3>1 DEF Tick
  <2>3. ASSUME NEW q \in Runs, at[q] \in Working PROVE left' = TTL - age'[q]
    <3>1. left = TTL - age[q] /\ age[q] < TTL /\ age[q] \in Nat
      BY <2>3 DEF RowTellsWork, InTime, TypeOK, Inv
    <3>2. left' = left - 1
      BY <1>9, <3>1 DEF Tick, Past
    <3> QED
      BY <2>2, <2>3, <3>1, <3>2
  <2>4. OneAcquires' /\ TakeOverIsSafe'
    BY <2>1 DEF OneAcquires, TakeOverIsSafe, Inv
  <2>5. InTime' /\ RowTellsWork'
    BY <2>1, <2>2, <2>3 DEF InTime, RowTellsWork, Inv
  <2> QED
    BY <1>0, <2>4, <2>5 DEF Inv
<1>10. CASE UNCHANGED vars
  BY <1>0, <1>10 DEF vars, OneAcquires, InTime, RowTellsWork, TakeOverIsSafe, Inv
<1> QED
  BY <1>1, <1>2, <1>3, <1>4, <1>5, <1>6, <1>7, <1>8, <1>9, <1>10 DEF Next, Steps

LEMMA InvHolds == ASSUME Orderly PROVE Spec => []Inv
<1>1. Init => Inv
  BY InvInit
<1>2. Inv /\ [Next]_vars => Inv'
  BY InvNext
<1> QED
  BY <1>1, <1>2, PTL DEF Spec

\* A run that does its job, or is about to release, still has the lock: nobody
\* took it over, released it or declared it stale under its hands
\* (acquireJobLock, expireStaleJobLocks and forceReleaseJobLock together).
THEOREM LockIsKept == ASSUME Orderly PROVE Spec => []WorkingRunHoldsLock
<1>1. Inv => WorkingRunHoldsLock
  <2> SUFFICES ASSUME Inv, NEW r \in Runs, at[r] \in Working
               PROVE  status = "locked" /\ owner = r /\ left > 0
    BY DEF WorkingRunHoldsLock
  <2>1. status = "locked" /\ owner = r /\ left = TTL - age[r] /\ age[r] < TTL
    BY DEF Inv, RowTellsWork, InTime
  <2>2. age[r] \in Nat
    BY DEF Inv, TypeOK
  <2> QED
    BY <2>1, <2>2
<1> QED
  BY <1>1, InvHolds, PTL

\* "Always 1 with current `job_locks` model" (ENVIRONMENT-VARIABLES.md): at
\* most one run of the job is at work.
THEOREM MutualExclusion == ASSUME Orderly PROVE Spec => []OneRunAtATime
<1>1. Inv => OneRunAtATime
  BY DEF Inv, RowTellsWork, OneRunAtATime
<1> QED
  BY <1>1, InvHolds, PTL

==============================================================================
