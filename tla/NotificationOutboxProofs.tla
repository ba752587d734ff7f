----------------------- MODULE NotificationOutboxProofs -----------------------
(***************************************************************************)
(* What NotificationOutbox promises for any number of notifications,       *)
(* recipients, workers, faults and interventions of staff.  The argument   *)
(* for the copies counts chances: a row in the queue is one chance that a  *)
(* recipient gets a message, and so is a worker that has still to treat    *)
(* the recipient or may send the row back.  A delivery that sent anything  *)
(* never sends the row back, so a copy always uses a chance up, and only a *)
(* retry makes new ones.  On the migrated table no batch gets past its     *)
(* claim, so a row in the queue is no chance there.                        *)
(***************************************************************************)
EXTENDS NotificationOutbox, FiniteSetTheorems, TLAPS

\* An idle worker has nothing, a waiting one has begun nothing, a delivering one
\* has a row.
WorkShape ==
  \A w \in Workers :
    /\ At(w, "idle") => NoteOf(w) = NoNote /\ work[w].batch = {}
    /\ At(w, "next") => NoteOf(w) = NoNote
    /\ At(w, "send") => NoteOf(w) \in Notes /\ NoteOf(w) \notin work[w].batch

\* Whoever said sent of a row had sent something.
SentIsTrue ==
  \A w \in Workers : At(w, "send") /\ "sent" \in work[w].got =>
    \E r \in Recipients : copies[NoteOf(w)][r] > 0

HasChance(w, n, r) ==
  \/ n \in work[w].batch
  \/ NoteOf(w) = n /\ (r \in work[w].left \/ "sent" \notin work[w].got)
Chances(n, r) == {w \in Workers : HasChance(w, n, r)}
Claimable == "processing" \in admits
InQueue(n) == IF status[n] = "queued" /\ Claimable THEN 1 ELSE 0

\* What NoExtraCopies grants.
Granted(n) == IF Claimable THEN 1 + 2 * retries[n] ELSE retries[n]

Budget ==
  \A n \in Notes, r \in Recipients :
    copies[n][r] + Cardinality(Chances(n, r)) + InQueue(n) <= Granted(n)

\* A row that does not exist is nobody's.
NothingYet ==
  \A n \in Notes : status[n] = "absent" =>
    /\ \A w \in Workers : ~Holds(w, n)
    /\ \A r \in Recipients : copies[n][r] = 0

TypeInv   == TypeOK /\ WorkShape
OutboxInv == TypeInv /\ SentIsTrue /\ NothingYet /\ Budget /\ ProcessingIsHeld /\ SentReachedSomeone

USE OutboxNames, OutboxAudience

------------------------------------------------------------------------------
(* Types *)

LEMMA WorkIsFunction == ASSUME TypeOK PROVE \A w \in Workers : work[w] \in Work
  BY DEF TypeOK

LEMMA PutStep ==
  ASSUME TypeOK, NEW w \in Workers, NEW r \in Work, Put(w, r)
  PROVE  /\ work' \in [Workers -> Work]
         /\ work'[w] = r
         /\ \A v \in Workers : v # w => work'[v] = work[v]
  BY DEF Put, TypeOK

LEMMA PutTyped ==
  ASSUME TypeInv, NEW w \in Workers, NEW r \in Work, Put(w, r),
         r.step = "idle" => r.note = NoNote /\ r.batch = {},
         r.step = "next" => r.note = NoNote,
         r.step = "send" => r.note \in Notes /\ r.note \notin r.batch
  PROVE  work' \in [Workers -> Work] /\ WorkShape'
  BY PutStep DEF TypeInv, WorkShape, At, NoteOf

LEMMA WorkValues ==
  /\ Idle \in Work
  /\ \A S \in SUBSET Notes : Waiting(S) \in Work
  /\ \A n \in Notes, S \in SUBSET Notes, k \in Nat, L \in SUBSET Recipients, G \in SUBSET Outcomes :
       Delivering(n, S, k, L, G) \in Work
  BY DEF Idle, Waiting, Delivering, Work

\* What everybody but the claim writes, any of the tables admits.
LEMMA Admitted == TypeOK => Migrated \subseteq admits
                    /\ {"queued", "sent", "failed", "suppressed", "cancelled"} \subseteq admits
  BY OutboxChecks DEF TypeOK, Migrated, Widened

LEMMA TypeInit == Init => TypeInv
  BY WorkValues, OutboxChecks DEF Init, TypeInv, TypeOK, WorkShape, At, NoteOf, Idle

LEMMA OpenTyped == ASSUME TypeInv, NEW w \in Workers, NEW n \in Notes, OpenNote(w, n) PROVE TypeInv'
  <1>1. work[w] \in Work /\ attempts[n] \in Nat /\ Audience[n] \in SUBSET Recipients
    BY DEF TypeInv, TypeOK
  <1>2. work[w].batch \ {n} \in SUBSET Notes /\ {} \in SUBSET Outcomes
    BY <1>1 DEF Work
  <1>3. Delivering(n, work[w].batch \ {n}, attempts[n], Audience[n], {}) \in Work
    BY <1>1, <1>2, WorkValues
  <1>4. work' \in [Workers -> Work] /\ WorkShape'
    BY <1>3, PutTyped DEF OpenNote, Delivering
  <1> QED BY <1>4 DEF OpenNote, TypeInv, TypeOK, queue, history

LEMMA CopiesTyped ==
  ASSUME TypeOK, NEW n \in Notes, NEW r \in Recipients, copies' = [copies EXCEPT ![n][r] = @ + 1]
  PROVE  /\ copies' \in [Notes -> [Recipients -> Nat]]
         /\ copies'[n][r] = copies[n][r] + 1
         /\ \A m \in Notes, q \in Recipients : m # n \/ q # r => copies'[m][q] = copies[m][q]
  <1>1. copies[n] \in [Recipients -> Nat]
    BY DEF TypeOK
  <1>2. [copies[n] EXCEPT ![r] = @ + 1] \in [Recipients -> Nat]
    BY <1>1
  <1>3. copies' = [copies EXCEPT ![n] = [copies[n] EXCEPT ![r] = @ + 1]]
    BY <1>1 DEF TypeOK
  <1> QED BY <1>1, <1>2, <1>3 DEF TypeOK

LEMMA TreatTyped ==
  ASSUME TypeInv, NEW w \in Workers, NEW r \in Recipients, NEW o \in Decisions, Treat(w, r, o)
  PROVE  TypeInv'
  <1>1. work[w] \in Work /\ NoteOf(w) \in Notes /\ NoteOf(w) \notin work[w].batch
    BY DEF TypeInv, TypeOK, WorkShape, Treat
  <1>2. /\ work[w].batch \in SUBSET Notes /\ work[w].seen \in Nat
        /\ work[w].left \ {r} \in SUBSET Recipients /\ work[w].got \cup o \in SUBSET Outcomes
    BY <1>1 DEF Work, Decisions, Outcomes
  <1>3. Delivering(NoteOf(w), work[w].batch, work[w].seen, work[w].left \ {r}, work[w].got \cup o) \in Work
    BY <1>1, <1>2, WorkValues
  <1>4. work' \in [Workers -> Work] /\ WorkShape'
    BY <1>1, <1>3, PutTyped DEF Treat, Delivering
  <1>5. copies' \in [Notes -> [Recipients -> Nat]]
    BY <1>1, CopiesTyped DEF Treat, TypeInv, TypeOK
  <1> QED BY <1>4, <1>5 DEF Treat, TypeInv, TypeOK, queue

LEMMA VerdictTyped == ASSUME TypeInv, NEW w \in Workers, At(w, "send") 
  PROVE  Verdict(w) \in admits \cup {"absent"}
  BY Admitted DEF TypeInv, TypeOK, WorkShape, Verdict

LEMMA GoOnTyped ==
  ASSUME TypeInv, NEW w \in Workers, GoOn(w)
  PROVE  /\ work' \in [Workers -> Work] /\ WorkShape'
         /\ \A v \in Workers : v # w => work'[v] = work[v]
         /\ work'[w].note = NoNote /\ work'[w].batch = work[w].batch /\ work'[w].step # "send"
  <1>1. work[w].batch \in SUBSET Notes
    BY DEF TypeInv, TypeOK, Work
  <1>2. CASE work[w].batch = {}
    BY <1>2, PutTyped, PutStep, WorkValues DEF GoOn, Idle, TypeInv
  <1>3. CASE work[w].batch # {}
    BY <1>1, <1>3, PutTyped, PutStep, WorkValues DEF GoOn, Waiting, TypeInv
  <1> QED BY <1>2, <1>3

LEMMA CloseTyped == ASSUME TypeInv, NEW w \in Workers, Close(w) PROVE TypeInv'
  <1>1. NoteOf(w) \in Notes /\ Verdict(w) \in admits \cup {"absent"} /\ work[w].seen + 1 \in Nat
    BY VerdictTyped DEF TypeInv, TypeOK, WorkShape, Close, Done, Work
  <1>2. work' \in [Workers -> Work] /\ WorkShape'
    BY GoOnTyped DEF Close
  <1>3. stranded' \subseteq Notes
    BY <1>1 DEF Close, TypeInv, TypeOK
  <1> QED BY <1>1, <1>2, <1>3 DEF Close, Write, TypeInv, TypeOK

LEMMA AbandonTyped ==
  ASSUME TypeInv, NEW w \in Workers, Throw(w) \/ Fault(w)
  PROVE  TypeInv'
  <1>1. work' \in [Workers -> Work] /\ WorkShape'
    BY PutTyped, WorkValues DEF Throw, Fault, Abandon, Idle
  <1>2. stranded' \subseteq Notes /\ upsets' \in Nat
    BY DEF Throw, Fault, Abandon, TypeInv, TypeOK
  <1> QED BY <1>1, <1>2 DEF Throw, Fault, TypeInv, TypeOK, queue

LEMMA ClaimTyped == ASSUME TypeInv, NEW b \in Batches, ClaimBatch(b) PROVE TypeInv'
  <1>1. b \in Workers /\ Due \in SUBSET Notes
    BY DEF Workers, Due
  <1>2. work' \in [Workers -> Work] /\ WorkShape'
    BY <1>1, PutTyped, WorkValues DEF ClaimBatch, Waiting
  <1> QED BY <1>2 DEF ClaimBatch, TypeInv, TypeOK, history

LEMMA RetryTyped == ASSUME TypeInv, NEW d \in Desks, NEW n \in Notes, Retry(d, n) PROVE TypeInv'
  <1>1. d \in Workers /\ {n} \in SUBSET Notes
    BY DEF Workers
  <1>2. work' \in [Workers -> Work] /\ WorkShape'
    BY <1>1, PutTyped, WorkValues DEF Retry, Waiting
  <1> QED BY <1>2, Admitted DEF Retry, Write, TypeInv, TypeOK

LEMMA RowTyped ==
  ASSUME TypeInv,
         \/ \E n \in Notes, now \in BOOLEAN : \E k \in Keys[n] : Queue(n, k, now)
         \/ \E n \in Notes, s \in {"sent", "failed", "cancelled"} : Declare(n, s)
         \/ \E n \in Notes : FallDue(n)
         \/ \E b \in Batches : ClaimRaises(b)
         \/ UNCHANGED vars
  PROVE  TypeInv'
  <1>1. work' = work
    BY DEF Queue, Declare, FallDue, ClaimRaises, vars
  <1>2. WorkShape'
    BY <1>1 DEF TypeInv, WorkShape, At, NoteOf
  <1>3. ASSUME NEW n \in Notes, NEW now \in BOOLEAN, NEW k \in Keys[n], Queue(n, k, now) PROVE TypeOK'
    BY <1>3, Admitted DEF Queue, Write, TypeInv, TypeOK, history
  <1>4. ASSUME NEW n \in Notes, NEW s \in {"sent", "failed", "cancelled"}, Declare(n, s) PROVE TypeOK'
    BY <1>4, Admitted DEF Declare, Write, TypeInv, TypeOK
  <1>5. ASSUME NEW n \in Notes, FallDue(n) PROVE TypeOK'
    BY <1>5 DEF FallDue, TypeInv, TypeOK, history
  <1>6. CASE UNCHANGED vars
    <2>1. /\ UNCHANGED <<admits, status, key, attempts, due>>
          /\ UNCHANGED <<upsets, copies, retries, marked, stranded, raised>>
      BY <1>6 DEF vars
    <2> QED BY <1>1, <1>2, <2>1 DEF TypeInv, TypeOK
  <1>7. ASSUME NEW b \in Batches, ClaimRaises(b) PROVE TypeOK'
    BY <1>7 DEF ClaimRaises, TypeInv, TypeOK, queue
  <1> QED BY <1>2, <1>3, <1>4, <1>5, <1>6, <1>7 DEF TypeInv

LEMMA TypeNext == TypeInv /\ [Next]_vars => TypeInv'
  BY OpenTyped, TreatTyped, CloseTyped, AbandonTyped, ClaimTyped, RetryTyped, RowTyped
  DEF Next, Deliver

------------------------------------------------------------------------------
(* Counting chances *)

LEMMA WorkersFinite == IsFiniteSet(Workers)
  BY OutboxFinite, FS_Union DEF Workers

LEMMA Counting ==
  ASSUME NEW S \in SUBSET Workers, NEW T \in SUBSET Workers, NEW w \in Workers
  PROVE  /\ Cardinality(S) \in Nat /\ Cardinality(T) \in Nat
         /\ T \subseteq S => Cardinality(T) <= Cardinality(S)
         /\ T \subseteq S \cup {w} => Cardinality(T) <= Cardinality(S) + 1
         /\ w \in S /\ T \subseteq S \ {w} => Cardinality(T) + 1 <= Cardinality(S)
  <1>1. IsFiniteSet(S) /\ IsFiniteSet(T)
    BY WorkersFinite, FS_Subset
  <1>2. Cardinality(S) \in Nat /\ Cardinality(T) \in Nat
    BY <1>1, FS_CardinalityType
  <1>3. T \subseteq S => Cardinality(T) <= Cardinality(S)
    BY <1>1, FS_Subset
  <1>4. ASSUME T \subseteq S \cup {w} PROVE Cardinality(T) <= Cardinality(S) + 1
    <2>1. IsFiniteSet(S \cup {w}) /\ Cardinality(S \cup {w}) <= Cardinality(S) + 1
      BY <1>1, <1>2, FS_AddElement
    <2>2. Cardinality(T) <= Cardinality(S \cup {w}) /\ Cardinality(S \cup {w}) \in Nat
      BY <1>4, <2>1, FS_Subset, FS_CardinalityType
    <2> QED BY <1>2, <2>1, <2>2
  <1>5. ASSUME w \in S, T \subseteq S \ {w} PROVE Cardinality(T) + 1 <= Cardinality(S)
    <2>1. IsFiniteSet(S \ {w}) /\ Cardinality(S \ {w}) = Cardinality(S) - 1
      BY <1>1, <1>5, FS_RemoveElement
    <2>2. Cardinality(T) <= Cardinality(S \ {w})
      BY <1>5, <2>1, FS_Subset
    <2> QED BY <1>2, <2>1, <2>2
  <1> QED BY <1>2, <1>3, <1>4, <1>5

OthersKeep(w) == \A v \in Workers : v # w => work'[v] = work[v]

\* A step of one worker moves the count of a recipient's chances by that worker alone.
LEMMA OneWorker ==
  ASSUME NEW w \in Workers, OthersKeep(w), NEW n \in Notes, NEW r \in Recipients
  PROVE  /\ Cardinality(Chances(n, r)) \in Nat /\ Cardinality(Chances(n, r)') \in Nat
         /\ Cardinality(Chances(n, r)') <= Cardinality(Chances(n, r)) + 1
         /\ (HasChance(w, n, r)' => HasChance(w, n, r))
              => Cardinality(Chances(n, r)') <= Cardinality(Chances(n, r))
         /\ HasChance(w, n, r) /\ ~HasChance(w, n, r)'
              => Cardinality(Chances(n, r)') + 1 <= Cardinality(Chances(n, r))
  <1>1. Chances(n, r) \in SUBSET Workers /\ Chances(n, r)' \in SUBSET Workers
    BY DEF Chances
  <1>2. \A v \in Workers : v # w => (HasChance(v, n, r)' <=> HasChance(v, n, r))
    BY DEF OthersKeep, HasChance, NoteOf
  <1>3. Chances(n, r)' \subseteq Chances(n, r) \cup {w}
    BY <1>2 DEF Chances
  <1>4. (HasChance(w, n, r)' => HasChance(w, n, r)) => Chances(n, r)' \subseteq Chances(n, r)
    BY <1>2 DEF Chances
  <1>5. HasChance(w, n, r) /\ ~HasChance(w, n, r)'
          => w \in Chances(n, r) /\ Chances(n, r)' \subseteq Chances(n, r) \ {w}
    BY <1>2 DEF Chances
  <1> QED BY <1>1, <1>3, <1>4, <1>5, Counting

LEMMA QueueCount == \A n \in Notes : InQueue(n) \in {0, 1} /\ InQueue(n)' \in {0, 1}
  BY DEF InQueue

\* What one recipient of one notification has had and may still get.
Account(n, r) == copies[n][r] + Cardinality(Chances(n, r)) + InQueue(n)

LEMMA AccountsBalance ==
  ASSUME TypeOK, TypeOK', Budget, retries' = retries, admits' = admits,
         \A n \in Notes, r \in Recipients :
           copies'[n][r] + Cardinality(Chances(n, r)') + InQueue(n)' <= Account(n, r)
  PROVE  Budget'
  <1> SUFFICES ASSUME NEW n \in Notes, NEW r \in Recipients
               PROVE  copies'[n][r] + Cardinality(Chances(n, r)') + InQueue(n)' <= Granted(n)'
    BY DEF Budget
  <1>1. copies[n][r] \in Nat /\ copies'[n][r] \in Nat /\ retries[n] \in Nat
    BY DEF TypeOK
  <1>2. Chances(n, r) \in SUBSET Workers /\ Chances(n, r)' \in SUBSET Workers
    BY DEF Chances
  <1>3. Cardinality(Chances(n, r)) \in Nat /\ Cardinality(Chances(n, r)') \in Nat
    BY <1>2, WorkersFinite, FS_Subset, FS_CardinalityType
  <1>4. Account(n, r) <= Granted(n)
    BY DEF Budget, Account
  <1>5. Granted(n) \in Nat /\ Granted(n)' = Granted(n)
    BY <1>1 DEF Granted, Claimable
  <1> QED BY <1>1, <1>3, <1>4, <1>5, QueueCount DEF Account

------------------------------------------------------------------------------
(* Steps: each keeps the accounts, and what is true of sent, absent, processing *)
(* rows.                                                                       *)

RowFacts == SentIsTrue /\ NothingYet /\ ProcessingIsHeld /\ SentReachedSomeone

LEMMA OpenKeeps ==
  ASSUME OutboxInv, TypeInv', NEW w \in Workers, NEW n \in Notes, OpenNote(w, n)
  PROVE  RowFacts' /\ Budget'
  <1>1. /\ work'[w].step = "send" /\ work'[w].note = n /\ work'[w].batch = work[w].batch \ {n}
        /\ work'[w].left = Audience[n] /\ work'[w].got = {}
        /\ OthersKeep(w)
    BY DEF OutboxInv, TypeInv, TypeOK, OpenNote, Put, Delivering, OthersKeep
  <1>2. /\ UNCHANGED <<admits, status, copies, retries, marked, stranded>>
        /\ n \in work[w].batch /\ NoteOf(w) = NoNote
    BY DEF OutboxInv, TypeInv, WorkShape, OpenNote, queue, history
  <1>3. \A m \in Notes : Holds(w, m)' <=> Holds(w, m)
    BY <1>1, <1>2 DEF Holds, NoteOf
  <1>4. \A v \in Workers, m \in Notes : Holds(v, m)' <=> Holds(v, m)
    BY <1>1, <1>3 DEF Holds, NoteOf, OthersKeep
  <1>5. SentIsTrue'
    BY <1>1, <1>2 DEF OutboxInv, SentIsTrue, At, NoteOf, OthersKeep
  <1>6. NothingYet' /\ ProcessingIsHeld' /\ SentReachedSomeone'
    BY <1>2, <1>4 DEF OutboxInv, NothingYet, ProcessingIsHeld, SentReachedSomeone
  <1>7. \A m \in Notes, r \in Recipients : HasChance(w, m, r)' => HasChance(w, m, r)
    BY <1>1, <1>2 DEF HasChance, NoteOf
  <1>8. ASSUME NEW m \in Notes, NEW r \in Recipients
        PROVE  copies'[m][r] + Cardinality(Chances(m, r)') + InQueue(m)' <= Account(m, r)
    <2>1. copies'[m][r] = copies[m][r] /\ copies[m][r] \in Nat /\ InQueue(m)' = InQueue(m)
      BY <1>2 DEF OutboxInv, TypeInv, TypeOK, InQueue, Claimable
    <2> QED BY <1>1, <1>7, <2>1, OneWorker, QueueCount DEF Account
  <1> QED BY <1>2, <1>5, <1>6, <1>8, AccountsBalance DEF RowFacts, OutboxInv, TypeInv

LEMMA TreatKeeps ==
  ASSUME OutboxInv, TypeInv', NEW w \in Workers, NEW r \in Recipients, NEW o \in Decisions,
         Treat(w, r, o)
  PROVE  RowFacts' /\ Budget'
  <1> DEFINE n == NoteOf(w)
  <1>1. /\ n \in Notes /\ n \notin work[w].batch /\ r \in work[w].left
        /\ work[w].step = "send" /\ work'[w].step = "send" /\ work'[w].note = n
        /\ work'[w].batch = work[w].batch
        /\ work'[w].left = work[w].left \ {r} /\ work'[w].got = work[w].got \cup o
        /\ OthersKeep(w)
    BY DEF OutboxInv, TypeInv, TypeOK, WorkShape, Treat, Put, Delivering, OthersKeep, At, NoteOf
  <1>2. UNCHANGED <<admits, status, retries, marked, stranded>>
    BY DEF Treat, queue
  <1>3. /\ "sent" \in o => copies'[n][r] = copies[n][r] + 1
        /\ \A m \in Notes, q \in Recipients :
             m # n \/ q # r \/ "sent" \notin o => copies'[m][q] = copies[m][q]
    BY <1>1, CopiesTyped DEF Treat, OutboxInv, TypeInv
  <1>4. \A m \in Notes, q \in Recipients : copies[m][q] \in Nat /\ copies'[m][q] \in Nat
    BY DEF OutboxInv, TypeInv, TypeOK
  <1>5. \A m \in Notes, q \in Recipients : copies'[m][q] >= copies[m][q]
    BY <1>1, <1>3, <1>4
  <1>6. \A v \in Workers, m \in Notes : Holds(v, m)' <=> Holds(v, m)
    BY <1>1 DEF Holds, NoteOf, OthersKeep
  <1>7. SentIsTrue'
    <2> SUFFICES ASSUME NEW v \in Workers, At(v, "send")', "sent" \in work'[v].got
                 PROVE  \E q \in Recipients : copies'[NoteOf(v)'][q] > 0
      BY DEF SentIsTrue
    <2>1. CASE v = w /\ "sent" \in o
      BY <2>1, <1>1, <1>3, <1>4 DEF NoteOf
    <2>2. CASE v = w /\ "sent" \notin o
      <3>1. "sent" \in work[w].got
        BY <2>2, <1>1
      <3>2. PICK q \in Recipients : copies[n][q] > 0
        BY <3>1, <1>1 DEF OutboxInv, SentIsTrue, At
      <3>3. copies'[n][q] > 0
        BY <3>2, <1>1, <1>4, <1>5
      <3> QED BY <2>2, <3>3, <1>1 DEF NoteOf
    <2>3. CASE v # w
      <3>1. work'[v] = work[v]
        BY <2>3, <1>1 DEF OthersKeep
      <3>2. NoteOf(v) \in Notes /\ \E q \in Recipients : copies[NoteOf(v)][q] > 0
        BY <3>1 DEF OutboxInv, TypeInv, WorkShape, SentIsTrue, At, NoteOf
      <3>3. \E q \in Recipients : copies'[NoteOf(v)][q] > 0
        BY <3>2, <1>4, <1>5
      <3> QED BY <3>1, <3>3 DEF NoteOf
    <2> QED BY <2>1, <2>2, <2>3
  <1>8. NothingYet'
    <2>1. status[n] # "absent"
      BY <1>1 DEF OutboxInv, NothingYet, Holds
    <2> QED BY <1>2, <1>3, <1>6, <2>1 DEF OutboxInv, NothingYet
  <1>9. ProcessingIsHeld'
    BY <1>2, <1>6 DEF OutboxInv, ProcessingIsHeld
  <1>10. SentReachedSomeone'
    <2>1. \A m \in Notes, q \in Recipients : copies[m][q] > 0 => copies'[m][q] > 0
      BY <1>4, <1>5
    <2> QED BY <1>2, <2>1 DEF OutboxInv, SentReachedSomeone
  <1>11. ASSUME NEW m \in Notes, NEW q \in Recipients
         PROVE  copies'[m][q] + Cardinality(Chances(m, q)') + InQueue(m)' <= Account(m, q)
    <2>1. InQueue(m)' = InQueue(m)
      BY <1>2 DEF InQueue, Claimable
    <2>2. HasChance(w, m, q)' => HasChance(w, m, q)
      BY <1>1 DEF HasChance, NoteOf
    <2>3. CASE m = n /\ q = r /\ "sent" \in o
      <3>1. HasChance(w, m, q) /\ ~HasChance(w, m, q)'
        BY <2>3, <1>1 DEF HasChance, NoteOf
      <3>2. copies'[m][q] = copies[m][q] + 1
        BY <2>3, <1>3
      <3> HIDE DEF n
      <3> QED BY <1>1, <1>4, <2>1, <3>1, <3>2, OneWorker, QueueCount DEF Account
    <2>4. CASE ~(m = n /\ q = r /\ "sent" \in o)
      <3>1. copies'[m][q] = copies[m][q]
        BY <2>4, <1>3
      <3> HIDE DEF n
      <3> QED BY <1>1, <1>4, <2>1, <2>2, <3>1, OneWorker, QueueCount DEF Account
    <2> QED BY <2>3, <2>4
  <1> QED BY <1>2, <1>7, <1>8, <1>9, <1>10, <1>11, AccountsBalance DEF RowFacts, OutboxInv, TypeInv

LEMMA VerdictMeans ==
  ASSUME NEW w \in Workers
  PROVE  /\ Verdict(w) = "queued" => work[w].got = {"failed"} \/ status[NoteOf(w)] = "queued"
         /\ Verdict(w) = "sent" => "sent" \in work[w].got \/ status[NoteOf(w)] = "sent"
         /\ Verdict(w) = "absent" => status[NoteOf(w)] = "absent"
  BY DEF Verdict, AllFailed

LEMMA CloseKeeps ==
  ASSUME OutboxInv, TypeInv', NEW w \in Workers, Close(w)
  PROVE  RowFacts' /\ Budget'
  <1> DEFINE n == NoteOf(w)
  <1>1. n \in Notes /\ n \notin work[w].batch /\ At(w, "send") /\ Holds(w, n)
    BY DEF OutboxInv, TypeInv, WorkShape, Close, Done, Holds
  <1>2. /\ work'[w].note = NoNote /\ work'[w].batch = work[w].batch /\ work'[w].step # "send"
        /\ OthersKeep(w)
    BY GoOnTyped DEF Close, OutboxInv, OthersKeep
  <1>3. /\ status'[n] = Verdict(w) /\ \A m \in Notes : m # n => status'[m] = status[m]
        /\ UNCHANGED <<admits, copies, retries, marked>>
        /\ stranded \subseteq stranded'
        /\ Verdict(w) = "processing" => n \in stranded'
    BY <1>1 DEF Close, Write, OutboxInv, TypeInv, TypeOK
  <1>4. status[n] # "absent" /\ status'[n] # "absent"
    BY <1>1, <1>3, VerdictMeans DEF OutboxInv, NothingYet
  <1>5. \A m \in Notes : /\ Holds(w, m)' => Holds(w, m)
                         /\ m # n => (Holds(w, m) => Holds(w, m)')
    BY <1>2 DEF Holds, NoteOf
  <1>6. \A v \in Workers, m \in Notes : /\ Holds(v, m)' => Holds(v, m)
                                        /\ m # n => (Holds(v, m) => Holds(v, m)')
    BY <1>2, <1>5 DEF Holds, NoteOf, OthersKeep
  <1>7. SentIsTrue'
    BY <1>2, <1>3 DEF OutboxInv, SentIsTrue, At, NoteOf, OthersKeep
  <1>8. NothingYet'
    BY <1>3, <1>4, <1>6 DEF OutboxInv, NothingYet
  <1>9. ProcessingIsHeld'
    BY <1>3, <1>6 DEF OutboxInv, ProcessingIsHeld
  <1>10. SentReachedSomeone'
    <2>1. status'[n] = "sent" => n \in marked \/ \E r \in Recipients : copies[n][r] > 0
      BY <1>1, <1>3, VerdictMeans DEF OutboxInv, SentIsTrue, SentReachedSomeone
    <2> QED BY <1>3, <2>1 DEF OutboxInv, SentReachedSomeone
  <1>11. ASSUME NEW m \in Notes, NEW r \in Recipients
         PROVE  copies'[m][r] + Cardinality(Chances(m, r)') + InQueue(m)' <= Account(m, r)
    <2>1. copies'[m][r] = copies[m][r] /\ copies[m][r] \in Nat
      BY <1>3 DEF OutboxInv, TypeInv, TypeOK
    <2>2. HasChance(w, m, r)' => HasChance(w, m, r)
      BY <1>2 DEF HasChance, NoteOf
    <2>3. CASE m = n /\ work[w].got = {"failed"}
      <3>1. HasChance(w, m, r) /\ ~HasChance(w, m, r)'
        BY <2>3, <1>1, <1>2 DEF HasChance, NoteOf
      <3> HIDE DEF n
      <3> QED BY <1>2, <2>1, <3>1, OneWorker, QueueCount DEF Account
    <2>4. CASE ~(m = n /\ work[w].got = {"failed"})
      <3>1. InQueue(m)' <= InQueue(m)
        BY <2>4, <1>3, VerdictMeans DEF InQueue, Claimable
      <3> HIDE DEF n
      <3> QED BY <1>2, <2>1, <2>2, <3>1, OneWorker, QueueCount DEF Account
    <2> QED BY <2>3, <2>4
  <1> QED BY <1>3, <1>7, <1>8, <1>9, <1>10, <1>11, AccountsBalance DEF RowFacts, OutboxInv, TypeInv

LEMMA AbandonKeeps ==
  ASSUME OutboxInv, TypeInv', NEW w \in Workers, Throw(w) \/ Fault(w)
  PROVE  RowFacts' /\ Budget'
  <1>1. Abandon(w) /\ UNCHANGED <<admits, status, copies, retries, marked>>
    BY DEF Throw, Fault, queue
  <1>2. work'[w] = Idle /\ OthersKeep(w)
    BY <1>1 DEF Abandon, Put, OutboxInv, TypeInv, TypeOK, OthersKeep
  <1>3. /\ stranded \subseteq stranded'
        /\ \A m \in Notes : Holds(w, m) => m \in stranded'
        /\ \A m \in Notes : ~Holds(w, m)'
    BY <1>1, <1>2 DEF Abandon, Holds, NoteOf, Idle
  <1>4. \A v \in Workers, m \in Notes : v # w => (Holds(v, m)' <=> Holds(v, m))
    BY <1>2 DEF Holds, NoteOf, OthersKeep
  <1>5. SentIsTrue'
    BY <1>1, <1>2 DEF OutboxInv, SentIsTrue, At, NoteOf, OthersKeep, Idle
  <1>6. NothingYet' /\ ProcessingIsHeld' /\ SentReachedSomeone'
    BY <1>1, <1>3, <1>4 DEF OutboxInv, NothingYet, ProcessingIsHeld, SentReachedSomeone
  <1>7. ASSUME NEW m \in Notes, NEW r \in Recipients
        PROVE  copies'[m][r] + Cardinality(Chances(m, r)') + InQueue(m)' <= Account(m, r)
    <2>1. copies'[m][r] = copies[m][r] /\ copies[m][r] \in Nat /\ InQueue(m)' = InQueue(m)
      BY <1>1 DEF OutboxInv, TypeInv, TypeOK, InQueue, Claimable
    <2>2. ~HasChance(w, m, r)'
      BY <1>2 DEF HasChance, NoteOf, Idle
    <2> QED BY <1>2, <2>1, <2>2, OneWorker, QueueCount DEF Account
  <1> QED BY <1>1, <1>5, <1>6, <1>7, AccountsBalance DEF RowFacts, OutboxInv, TypeInv

\* An idle worker has no chance of anything.
LEMMA IdleHasNone ==
  ASSUME TypeInv, NEW w \in Workers, At(w, "idle"), NEW n \in Notes, NEW r \in Recipients
  PROVE  ~Holds(w, n) /\ ~HasChance(w, n, r)
  BY DEF TypeInv, WorkShape, Holds, HasChance

LEMMA ClaimKeeps ==
  ASSUME OutboxInv, TypeInv', NEW b \in Batches, ClaimBatch(b)
  PROVE  RowFacts' /\ Budget'
  <1>1. b \in Workers /\ At(b, "idle")
    BY DEF Workers, ClaimBatch, Free
  <1>2. work'[b] = Waiting(Due) /\ OthersKeep(b)
    BY <1>1 DEF ClaimBatch, Put, OutboxInv, TypeInv, TypeOK, OthersKeep
  <1>3. /\ \A m \in Notes : status'[m] = IF m \in Due THEN "processing" ELSE status[m]
        /\ \A m \in Due : status[m] = "queued"
        /\ UNCHANGED <<admits, copies, retries, marked, stranded>> /\ Claimable
    BY DEF ClaimBatch, Due, history, Claimable
  <1>4. \A m \in Notes : (Holds(b, m)' <=> m \in Due) /\ ~Holds(b, m)
    BY <1>1, <1>2 DEF Holds, NoteOf, Waiting, OutboxInv, TypeInv, WorkShape
  <1>5. \A v \in Workers, m \in Notes : v # b => (Holds(v, m)' <=> Holds(v, m))
    BY <1>2 DEF Holds, NoteOf, OthersKeep
  <1>6. SentIsTrue'
    BY <1>2, <1>3 DEF OutboxInv, SentIsTrue, At, NoteOf, OthersKeep, Waiting
  <1>7. NothingYet' /\ SentReachedSomeone'
    BY <1>3, <1>4, <1>5 DEF OutboxInv, NothingYet, SentReachedSomeone
  <1>8. ProcessingIsHeld'
    BY <1>1, <1>3, <1>4, <1>5 DEF OutboxInv, ProcessingIsHeld
  <1>9. ASSUME NEW m \in Notes, NEW r \in Recipients
        PROVE  copies'[m][r] + Cardinality(Chances(m, r)') + InQueue(m)' <= Account(m, r)
    <2>1. copies'[m][r] = copies[m][r] /\ copies[m][r] \in Nat
      BY <1>3 DEF OutboxInv, TypeInv, TypeOK
    <2>2. CASE m \in Due
      <3>1. InQueue(m) = 1 /\ InQueue(m)' = 0
        BY <2>2, <1>3 DEF InQueue, Claimable
      <3> QED BY <1>1, <1>2, <2>1, <3>1, OneWorker DEF Account
    <2>3. CASE m \notin Due
      <3>1. InQueue(m)' = InQueue(m)
        BY <2>3, <1>3 DEF InQueue, Claimable
      <3>2. ~HasChance(b, m, r)'
        BY <2>3, <1>2 DEF HasChance, NoteOf, Waiting
      <3> QED BY <1>1, <1>2, <2>1, <3>1, <3>2, OneWorker, QueueCount DEF Account
    <2> QED BY <2>2, <2>3
  <1> QED BY <1>3, <1>6, <1>7, <1>8, <1>9, AccountsBalance DEF RowFacts, OutboxInv, TypeInv

\* The one step that opens new chances: one for the desk, one for the queue.
LEMMA RetryKeeps ==
  ASSUME OutboxInv, TypeInv', NEW d \in Desks, NEW n \in Notes, Retry(d, n)
  PROVE  RowFacts' /\ Budget'
  <1>1. d \in Workers /\ At(d, "idle") /\ status[n] # "absent"
    BY DEF Workers, Retry, Free
  <1>2. work'[d] = Waiting({n}) /\ OthersKeep(d)
    BY <1>1 DEF Retry, Put, OutboxInv, TypeInv, TypeOK, OthersKeep
  <1>3. /\ status'[n] = "queued" /\ \A m \in Notes : m # n => status'[m] = status[m]
        /\ retries'[n] = retries[n] + 1 /\ \A m \in Notes : m # n => retries'[m] = retries[m]
        /\ UNCHANGED <<admits, copies, marked>>
        /\ \A m \in Notes : m # n => (m \in stranded' <=> m \in stranded)
    BY DEF Retry, Write, OutboxInv, TypeInv, TypeOK
  <1>4. \A m \in Notes : (Holds(d, m)' <=> m = n) /\ ~Holds(d, m)
    BY <1>1, <1>2 DEF Holds, NoteOf, Waiting, OutboxInv, TypeInv, WorkShape
  <1>5. \A v \in Workers, m \in Notes : v # d => (Holds(v, m)' <=> Holds(v, m))
    BY <1>2 DEF Holds, NoteOf, OthersKeep
  <1>6. SentIsTrue'
    BY <1>2, <1>3 DEF OutboxInv, SentIsTrue, At, NoteOf, OthersKeep, Waiting
  <1>7. NothingYet' /\ SentReachedSomeone'
    BY <1>1, <1>3, <1>4, <1>5 DEF OutboxInv, NothingYet, SentReachedSomeone
  <1>8. ProcessingIsHeld'
    BY <1>3, <1>4, <1>5 DEF OutboxInv, ProcessingIsHeld
  <1>9. ASSUME NEW m \in Notes, NEW r \in Recipients
        PROVE  copies'[m][r] + Cardinality(Chances(m, r)') + InQueue(m)' <= Granted(m)'
    <2>1. copies'[m][r] = copies[m][r] /\ copies[m][r] \in Nat /\ retries[m] \in Nat
      BY <1>3 DEF OutboxInv, TypeInv, TypeOK
    <2>2. Account(m, r) <= Granted(m)
      BY DEF OutboxInv, Budget, Account
    <2>3. CASE m = n
      <3>1. retries'[m] = retries[m] + 1
        BY <2>3, <1>3
      <3>2. Granted(m) + 1 + InQueue(m)' <= Granted(m)' /\ Granted(m) \in Nat /\ Granted(m)' \in Nat
        BY <1>3, <2>1, <3>1 DEF Granted, InQueue, Claimable
      <3> QED BY <1>1, <1>2, <2>1, <2>2, <3>2, OneWorker, QueueCount DEF Account
    <2>4. CASE m # n
      <3>1. InQueue(m)' = InQueue(m) /\ retries'[m] = retries[m]
        BY <2>4, <1>3 DEF InQueue, Claimable
      <3>2. ~HasChance(d, m, r)'
        BY <2>4, <1>2 DEF HasChance, NoteOf, Waiting
      <3>3. Granted(m) \in Nat /\ Granted(m)' = Granted(m)
        BY <1>3, <2>1, <3>1 DEF Granted, Claimable
      <3> QED BY <1>1, <1>2, <2>1, <2>2, <3>1, <3>2, <3>3, OneWorker, QueueCount DEF Account
    <2> QED BY <2>3, <2>4
  <1>10. Budget'
    BY <1>9 DEF Budget
  <1> QED BY <1>6, <1>7, <1>8, <1>10 DEF RowFacts

\* Nobody works: the rows change by a new request, a declaration or the clock.
LEMMA ChancesStand ==
  ASSUME work' = work
  PROVE  /\ \A n \in Notes, r \in Recipients : Chances(n, r)' = Chances(n, r)
         /\ \A v \in Workers, n \in Notes : Holds(v, n)' <=> Holds(v, n)
  BY DEF Chances, HasChance, Holds, NoteOf

LEMMA QueueKeeps ==
  ASSUME OutboxInv, TypeInv', NEW n \in Notes, NEW k \in Keys[n], NEW now \in BOOLEAN, Queue(n, k, now)
  PROVE  RowFacts' /\ Budget'
  <1>1. /\ status[n] = "absent" /\ status'[n] = "queued"
        /\ \A m \in Notes : m # n => status'[m] = status[m]
        /\ UNCHANGED <<admits, work, copies, retries, marked, stranded>>
    BY DEF Queue, Write, OutboxInv, TypeInv, TypeOK, history
  <1>2. SentIsTrue'
    BY <1>1 DEF OutboxInv, SentIsTrue, At, NoteOf
  <1>3. NothingYet' /\ ProcessingIsHeld' /\ SentReachedSomeone'
    BY <1>1, ChancesStand DEF OutboxInv, NothingYet, ProcessingIsHeld, SentReachedSomeone
  <1>4. ASSUME NEW m \in Notes, NEW r \in Recipients
        PROVE  copies'[m][r] + Cardinality(Chances(m, r)') + InQueue(m)' <= Granted(m)'
    <2>1. /\ copies'[m][r] = copies[m][r] /\ copies[m][r] \in Nat
          /\ retries'[m] = retries[m] /\ retries[m] \in Nat
          /\ Cardinality(Chances(m, r)') = Cardinality(Chances(m, r))
      BY <1>1, ChancesStand DEF OutboxInv, TypeInv, TypeOK
    <2>2. /\ Granted(m)' = Granted(m) /\ Granted(m) \in Nat
          /\ InQueue(m)' <= Granted(m)
      BY <1>1, <2>1 DEF Granted, InQueue, Claimable
    <2>3. CASE m = n
      <3>1. copies[m][r] = 0 /\ \A v \in Workers : ~Holds(v, m)
        BY <2>3, <1>1 DEF OutboxInv, NothingYet
      <3>2. Chances(m, r) = {}
        BY <3>1 DEF Chances, HasChance, Holds
      <3> QED BY <2>1, <2>2, <3>1, <3>2, FS_EmptySet, QueueCount
    <2>4. CASE m # n
      <3>1. InQueue(m)' = InQueue(m)
        BY <2>4, <1>1 DEF InQueue, Claimable
      <3>2. Account(m, r) <= Granted(m)
        BY DEF OutboxInv, Budget, Account
      <3> QED BY <2>1, <2>2, <3>1, <3>2, QueueCount DEF Account
    <2> QED BY <2>3, <2>4
  <1>5. Budget'
    BY <1>4 DEF Budget
  <1> QED BY <1>2, <1>3, <1>5 DEF RowFacts

RowsOnly ==
  /\ UNCHANGED <<admits, work, copies, retries, stranded>> /\ marked \subseteq marked'
  /\ \A m \in Notes : \/ status'[m] = status[m]
                      \/ /\ status'[m] \in {"sent", "failed", "cancelled"}
                         /\ status'[m] = "sent" => m \in marked'

LEMMA RowKeeps ==
  ASSUME OutboxInv, TypeInv',
         \/ \E n \in Notes, s \in {"sent", "failed", "cancelled"} : Declare(n, s)
         \/ \E n \in Notes : FallDue(n)
         \/ \E b \in Batches : ClaimRaises(b)
         \/ UNCHANGED vars
  PROVE  RowFacts' /\ Budget'
  <1>1. RowsOnly
    <2>1. ASSUME NEW n \in Notes, NEW s \in {"sent", "failed", "cancelled"}, Declare(n, s) PROVE RowsOnly
      BY <2>1 DEF RowsOnly, Declare, Write, OutboxInv, TypeInv, TypeOK
    <2>2. ASSUME NEW n \in Notes, FallDue(n) PROVE RowsOnly
      BY <2>2 DEF RowsOnly, FallDue, history
    <2>3. CASE UNCHANGED vars
      BY <2>3 DEF RowsOnly, vars
    <2>4. ASSUME NEW b \in Batches, ClaimRaises(b) PROVE RowsOnly
      BY <2>4 DEF RowsOnly, ClaimRaises, queue
    <2> QED BY <2>1, <2>2, <2>3, <2>4
  <1>2. SentIsTrue'
    BY <1>1 DEF RowsOnly, OutboxInv, SentIsTrue, At, NoteOf
  <1>3. NothingYet' /\ ProcessingIsHeld' /\ SentReachedSomeone'
    BY <1>1, ChancesStand DEF RowsOnly, OutboxInv, NothingYet, ProcessingIsHeld, SentReachedSomeone
  <1>4. ASSUME NEW m \in Notes, NEW r \in Recipients
        PROVE  copies'[m][r] + Cardinality(Chances(m, r)') + InQueue(m)' <= Account(m, r)
    <2>1. copies'[m][r] = copies[m][r] /\ Chances(m, r)' = Chances(m, r) /\ InQueue(m)' <= InQueue(m)
      BY <1>1, ChancesStand DEF RowsOnly, InQueue, Claimable
    <2>2. copies[m][r] \in Nat /\ Chances(m, r) \in SUBSET Workers
      BY DEF OutboxInv, TypeInv, TypeOK, Chances
    <2>3. Cardinality(Chances(m, r)) \in Nat
      BY <2>2, WorkersFinite, FS_Subset, FS_CardinalityType
    <2>4. Cardinality(Chances(m, r)') = Cardinality(Chances(m, r))
      BY <2>1
    <2> QED BY <2>1, <2>2, <2>3, <2>4, QueueCount DEF Account
  <1> QED BY <1>1, <1>2, <1>3, <1>4, AccountsBalance DEF RowsOnly, RowFacts, OutboxInv, TypeInv

LEMMA OutboxInit == Init => OutboxInv
  <1> SUFFICES ASSUME Init PROVE OutboxInv
    OBVIOUS
  <1>1. TypeInv
    BY TypeInit
  <1>2. \A w \in Workers : work[w] = Idle
    BY DEF Init
  <1>3. RowFacts
    BY <1>2 DEF Init, RowFacts, SentIsTrue, NothingYet, ProcessingIsHeld, SentReachedSomeone,
                Holds, NoteOf, At, Idle
  <1>4. Budget
    <2> SUFFICES ASSUME NEW n \in Notes, NEW r \in Recipients
                 PROVE  copies[n][r] + Cardinality(Chances(n, r)) + InQueue(n) <= Granted(n)
      BY DEF Budget
    <2>1. Chances(n, r) = {}
      BY <1>2 DEF Chances, HasChance, NoteOf, Idle
    <2>2. copies[n][r] = 0 /\ InQueue(n) = 0 /\ Granted(n) \in Nat
      BY DEF Init, InQueue, Granted
    <2> QED BY <2>1, <2>2, FS_EmptySet
  <1> QED BY <1>1, <1>3, <1>4 DEF OutboxInv, RowFacts

LEMMA OutboxNext == OutboxInv /\ [Next]_vars => OutboxInv'
  <1> SUFFICES ASSUME OutboxInv, [Next]_vars PROVE RowFacts' /\ Budget' /\ TypeInv'
    BY DEF OutboxInv, RowFacts
  <1>1. TypeInv'
    BY TypeNext DEF OutboxInv
  <1>2. ASSUME NEW w \in Workers, Deliver(w) \/ Fault(w) PROVE RowFacts' /\ Budget'
    BY <1>1, <1>2, OpenKeeps, TreatKeeps, CloseKeeps, AbandonKeeps DEF Deliver
  <1>3. ASSUME NEW b \in Batches, ClaimBatch(b) PROVE RowFacts' /\ Budget'
    BY <1>1, <1>3, ClaimKeeps
  <1>4. ASSUME NEW d \in Desks, NEW n \in Notes, Retry(d, n) PROVE RowFacts' /\ Budget'
    BY <1>1, <1>4, RetryKeeps
  <1>5. ASSUME NEW n \in Notes, NEW now \in BOOLEAN, NEW k \in Keys[n], Queue(n, k, now)
        PROVE  RowFacts' /\ Budget'
    BY <1>1, <1>5, QueueKeeps
  <1>6. CASE \/ \E n \in Notes, s \in {"sent", "failed", "cancelled"} : Declare(n, s)
             \/ \E n \in Notes : FallDue(n)
             \/ \E b \in Batches : ClaimRaises(b)
             \/ UNCHANGED vars
    BY <1>1, <1>6, RowKeeps
  <1> QED BY <1>1, <1>2, <1>3, <1>4, <1>5, <1>6 DEF Next

LEMMA OutboxAlways == Spec => []OutboxInv
  BY OutboxInit, OutboxNext, PTL DEF Spec

------------------------------------------------------------------------------
\* Every row, key, worker and history keeps its type.  A row has a status its table
\* admits, also when a verdict leaves it as it was (delivery.ts, 374): under the CHECK of
\* migration 0008 no row is ever in `processing', for the claim (delivery.ts, 533) raises.
THEOREM OutboxTypes == Spec => []TypeOK
  <1>1. OutboxInv => TypeOK
    BY DEF OutboxInv, TypeInv
  <1> QED BY <1>1, OutboxAlways, PTL

\* However many batches and desks work at the same time: on the migrated table nobody
\* gets a notification more often than staff retry it (actions.ts, 298), for no batch
\* delivers; under a CHECK that lets batches claim, once more, and once more for each
\* retry (delivery.ts, 513).
THEOREM CopiesAreBounded == Spec => []NoExtraCopies
  <1>1. OutboxInv => NoExtraCopies
    <2> SUFFICES ASSUME OutboxInv, NEW n \in Notes, NEW r \in Recipients
                 PROVE  copies[n][r] <= Granted(n)
      BY DEF NoExtraCopies, Granted, Claimable
    <2>1. copies[n][r] \in Nat /\ retries[n] \in Nat /\ Chances(n, r) \in SUBSET Workers
      BY DEF OutboxInv, TypeInv, TypeOK, Chances
    <2>2. Cardinality(Chances(n, r)) \in Nat
      BY <2>1, WorkersFinite, FS_Subset, FS_CardinalityType
    <2>3. copies[n][r] + Cardinality(Chances(n, r)) + InQueue(n) <= Granted(n)
      BY DEF OutboxInv, Budget
    <2>4. Granted(n) \in Nat
      BY <2>1 DEF Granted
    <2> QED BY <2>1, <2>2, <2>3, <2>4, QueueCount
  <1> QED BY <1>1, OutboxAlways, PTL

\* Should the CHECK be widened for the claim, a row stays in `processing' only in the
\* hands of a worker or after one let go of it (delivery.ts, 552); under the CHECK of
\* migration 0008 there is no such row.
THEOREM ProcessingRowsAreHeld == Spec => []ProcessingIsHeld
  <1>1. OutboxInv => ProcessingIsHeld
    BY DEF OutboxInv
  <1> QED BY <1>1, OutboxAlways, PTL

\* `sent' is said of a row only when a recipient got it or staff declared it
\* (delivery.ts, 418), whatever the table admits and whoever delivered it: a batch, or
\* staff who retry, which the migrated table allows.
THEOREM SentRowsWereDelivered == Spec => []SentReachedSomeone
  <1>1. OutboxInv => SentReachedSomeone
    BY DEF OutboxInv
  <1> QED BY <1>1, OutboxAlways, PTL

==============================================================================
