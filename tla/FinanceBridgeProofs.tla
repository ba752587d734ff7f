------------------------- MODULE FinanceBridgeProofs -------------------------
(***************************************************************************)
(* The invariants of FinanceBridge for any set of workers, any finite set  *)
(* of requests and any bounds.                                             *)
(*                                                                         *)
(* Types and LinkOwnsLine rest on what an invocation in flight knows       *)
(* (Knows).  That revenue counts once rests on a second strengthening,     *)
(* Orderly: as long as nothing went wrong with a request, at most one      *)
(* worker is at work on it, and the step it is at says exactly how far     *)
(* ledger, link and request have come apart (OnTrack).                     *)
(***************************************************************************)
EXTENDS FinanceBridge, SequenceTheorems, FiniteSetTheorems, TLAPS

------------------------------------------------------------------------------
(* The inductive invariant *)

\* The steps on a request that has a link, and those that may end in a posting.
OnLink  == {"update", "reverse_line", "reverse_link", "reverse_mirror"}
Written == {"find", "update", "insert", "mirror", "notify"}

Knows(c) ==
  /\ c.request = "none" => c = Idle
  /\ c.at = "idle" => c.request = "none"
  /\ c.request \in Requests /\ c.at \in OnLink => Exists(c.request)
  /\ c.at = "insert" => c.code # 0
  /\ c.status = "posted" => c.at \in Written /\ c.line # 0
  /\ c.at = "reverse_line" => c.line # 0
  /\ c.line # 0 => c.line \in DOMAIN lines /\ lines[c.line].request = c.request

KnowsAll == \A w \in Workers : Knows(call[w])

\* What LedgerAgrees says of a request at rest.
Settled(r)  == PostedLines(r) = IF link[r].status = "posted" THEN {link[r].line} ELSE {}
Mirrored(r) == bridgeStatus[r] = IF Exists(r) THEN link[r].status ELSE "pending"

\* How far the worker with call record c has come with request r.
OnTrack(c, r) ==
  /\ c.at \in {"context", "link", "period", "line", "notify", "reverse", "reverse_line"} =>
       Settled(r) /\ Mirrored(r)
  /\ c.at \in {"period", "line"} => link[r].status # "posted"
  /\ c.at \in {"find", "update", "insert"} =>
       /\ Mirrored(r) /\ link[r].status # "posted"
       /\ PostedLines(r) = IF c.status = "posted" THEN {c.line} ELSE {}
  /\ c.at = "mirror" => Settled(r) /\ link[r].status = c.status
  /\ c.at = "reverse_line" => link[r].status = "posted" /\ c.line = link[r].line
  /\ c.at = "reverse_link" => PostedLines(r) = {}
  /\ c.at = "reverse_mirror" => Settled(r) /\ link[r].status = "reversed"

Alone(r)   == \A v, w \in Workers : call[v].request = r /\ call[w].request = r => v = w
Orderly(r) == /\ Alone(r)
              /\ \A w \in Workers : call[w].request = r => OnTrack(call[w], r)
              /\ ~Busy(r) => Settled(r) /\ Mirrored(r)

Tidy == TypeOK /\ LinkOwnsLine /\ KnowsAll
Inv  == Tidy /\ \A r \in Requests : ~mishap[r] => Orderly(r)

------------------------------------------------------------------------------
(* Ledger and codes *)

\* A new line counts for its request.
LEMMA LineAdded ==
  ASSUME NEW q \in Requests, NEW r \in Requests, lines \in Seq(LineRow),
         lines' = Append(lines, [request |-> q, status |-> "posted"])
  PROVE  PostedLines(r)' = IF r = q THEN PostedLines(r) \cup {Len(lines) + 1} ELSE PostedLines(r)
<1>1. /\ DOMAIN lines = 1..Len(lines) /\ Len(lines) \in Nat
      /\ DOMAIN lines' = 1..(Len(lines) + 1)
      /\ \A i \in 1..Len(lines) : lines'[i] = lines[i]
      /\ lines'[Len(lines) + 1] = [request |-> q, status |-> "posted"]
  BY AppendProperties, LenProperties DEF LineRow
<1>2. ASSUME NEW i \in 1..(Len(lines) + 1)
      PROVE  i \in PostedLines(r)' <=> i \in PostedLines(r) \/ (i = Len(lines) + 1 /\ r = q)
  BY <1>1 DEF PostedLines
<1>3. PostedLines(r) \subseteq 1..Len(lines) /\ PostedLines(r)' \subseteq 1..(Len(lines) + 1)
  BY <1>1 DEF PostedLines
<1>4. ASSUME NEW i
      PROVE  i \in PostedLines(r)' <=> i \in PostedLines(r) \/ (i = Len(lines) + 1 /\ r = q)
  <2>1. 1..Len(lines) \subseteq 1..(Len(lines) + 1) /\ Len(lines) + 1 \in 1..(Len(lines) + 1)
    BY <1>1
  <2> QED
    BY <1>2, <1>3, <2>1, Zenon
<1> QED
  BY <1>4, Zenon

\* A reversed line no longer counts.
LEMMA LineReversed ==
  ASSUME NEW r \in Requests, NEW k \in DOMAIN lines, lines \in Seq(LineRow),
         lines' = [lines EXCEPT ![k].status = "reversed"]
  PROVE  /\ lines' \in Seq(LineRow) /\ DOMAIN lines' = DOMAIN lines
         /\ \A i \in DOMAIN lines : lines'[i].request = lines[i].request
         /\ PostedLines(r)' = PostedLines(r) \ {k}
<1> DEFINE e == [lines[k] EXCEPT !.status = "reversed"]
<1>1. /\ DOMAIN lines = 1..Len(lines) /\ Len(lines) \in Nat
      /\ \A i \in DOMAIN lines : lines[i] \in LineRow
  BY LenProperties
<1>2. e \in LineRow /\ e.request = lines[k].request /\ e.status = "reversed"
  BY <1>1 DEF LineRow
<1>3. lines' = [lines EXCEPT ![k] = e]
  OBVIOUS
<1>4. /\ lines' \in Seq(LineRow) /\ DOMAIN lines' = DOMAIN lines
      /\ \A i \in DOMAIN lines : lines'[i] = IF i = k THEN e ELSE lines[i]
  <2> HIDE DEF e
  <2> QED
    BY <1>1, <1>2, <1>3, ExceptSeq, LenProperties
<1>5. PostedLines(r)' = PostedLines(r) \ {k}
  <2>1. e # [request |-> r, status |-> "posted"]
    BY <1>2
  <2> HIDE DEF e
  <2> QED
    BY <1>4, <2>1 DEF PostedLines
<1> QED
  BY <1>2, <1>4, <1>5

\* The next code is a positive number.
LEMMA CodeIsPositive == TypeOK => NextCode \in Nat \ {0}
<1> SUFFICES ASSUME TypeOK PROVE NextCode \in Nat \ {0}
  OBVIOUS
<1> DEFINE S == {q \in Requests : Exists(q)}
           f == [r \in S |-> link[r].code]
<1>1. IsFiniteSet(S)
  BY RequestsAssumption, FS_Subset
<1>2. f \in Surjection(S, Codes)
  BY DEF Surjection, Codes
<1>3. IsFiniteSet(Codes)
  <2> HIDE DEF f, S
  <2> QED
    BY <1>1, <1>2, FS_Surjection
<1> QED
  BY <1>3, FS_CardinalityType DEF NextCode

------------------------------------------------------------------------------
(* One worker takes a step *)

\* Rows never vanish and never change hands.
RowsKept ==
  /\ \A i \in DOMAIN lines : i \in DOMAIN lines' /\ lines'[i].request = lines[i].request
  /\ \A r \in Requests : Exists(r) => Exists(r)'

\* Only what belongs to the worker's own request changes.
OthersKept(w) ==
  \A r \in Requests : r # call[w].request =>
    PostedLines(r)' = PostedLines(r) /\ link'[r] = link[r] /\ bridgeStatus'[r] = bridgeStatus[r]

\* The worker goes on, lets go of its request, or turns to another one, and
\* then either nobody is at work on that or it is marked.
Moves(w) ==
  /\ call' \in [Workers -> Call] /\ \A v \in Workers \ {w} : call'[v] = call[v]
  /\ Knows(call[w])'
  /\ mishap' \in [Requests -> BOOLEAN] /\ \A r \in Requests : mishap[r] => mishap'[r]
  /\ \A r \in Requests : call'[w].request = r =>
       \/ r = call[w].request \/ mishap'[r]
       \/ ~Busy(r) /\ call'[w].at \in {"context", "reverse"}

\* The request it was at work on is left in order.
OwnInOrder(w) ==
  \A r \in Requests : r = call[w].request /\ ~mishap'[r] =>
    IF call'[w].request = r THEN OnTrack(call[w], r)' ELSE (Settled(r) /\ Mirrored(r))'

\* Such a step keeps every request orderly.
LEMMA OrderKept ==
  ASSUME Inv, NEW w \in Workers, Moves(w), OthersKept(w), OwnInOrder(w),
         NEW r \in Requests, ~mishap'[r]
  PROVE  Orderly(r)'
<1>1. ~mishap[r] /\ Orderly(r)
  BY DEF Inv, Moves
<1>2. ASSUME NEW v \in Workers, v # w PROVE call'[v] = call[v]
  BY <1>2 DEF Moves
<1>3. CASE r = call[w].request
  <2>1. ASSUME NEW v \in Workers, v # w PROVE call'[v].request # r
    BY <1>1, <1>2, <1>3, <2>1 DEF Orderly, Alone
  <2>2. CASE call'[w].request = r
    <3>1. OnTrack(call[w], r)'
      BY <1>3, <2>2 DEF OwnInOrder
    <3> QED
      BY <2>1, <2>2, <3>1 DEF Orderly, Alone, Busy
  <2>3. CASE call'[w].request # r
    <3>1. (Settled(r) /\ Mirrored(r))'
      BY <1>3, <2>3 DEF OwnInOrder
    <3> QED
      BY <2>1, <2>3, <3>1 DEF Orderly, Alone, Busy
  <2> QED
    BY <2>2, <2>3
<1>4. CASE r # call[w].request
  <2>1. PostedLines(r)' = PostedLines(r) /\ link'[r] = link[r] /\ bridgeStatus'[r] = bridgeStatus[r]
    BY <1>4 DEF OthersKept
  <2>2. Settled(r)' = Settled(r) /\ Mirrored(r)' = Mirrored(r)
    BY <2>1 DEF Settled, Mirrored, Exists, NoLink
  <2>3. CASE call'[w].request = r
    <3>1. ~Busy(r) /\ call'[w].at \in {"context", "reverse"}
      BY <1>4, <2>3 DEF Moves
    <3>2. Settled(r)' /\ Mirrored(r)'
      BY <1>1, <2>2, <3>1 DEF Orderly
    <3>3. OnTrack(call[w], r)'
      BY <3>1, <3>2 DEF OnTrack
    <3>4. ASSUME NEW v \in Workers, v # w PROVE call'[v].request # r
      BY <1>2, <3>1, <3>4 DEF Busy
    <3> QED
      BY <2>3, <3>3, <3>4 DEF Orderly, Alone, Busy
  <2>4. CASE call'[w].request # r
    <3>1. ASSUME NEW v \in Workers, call'[v].request = r
          PROVE  v # w /\ call'[v] = call[v] /\ call[v].request = r
      BY <1>2, <2>4, <3>1
    <3>2. Alone(r)'
      BY <1>1, <3>1 DEF Orderly, Alone
    <3>3. ASSUME NEW v \in Workers, call'[v].request = r PROVE OnTrack(call[v], r)'
      <4>1. OnTrack(call[v], r) /\ call'[v] = call[v]
        BY <1>1, <3>1, <3>3 DEF Orderly
      <4> QED
        BY <4>1, <2>1, <2>2 DEF OnTrack
    <3>4. ASSUME ~Busy(r)' PROVE ~Busy(r)
      BY <1>2, <1>4, <3>4 DEF Busy
    <3> QED
      BY <1>1, <2>2, <3>2, <3>3, <3>4 DEF Orderly
  <2> QED
    BY <2>3, <2>4
<1> QED
  BY <1>3, <1>4

\* Such a step keeps the invariant, once the tables are known to be in order.
LEMMA StepKeepsInv ==
  ASSUME Inv, NEW w \in Workers, Moves(w), RowsKept, OthersKept(w), OwnInOrder(w),
         TypeOK', LinkOwnsLine'
  PROVE  Inv'
<1>1. KnowsAll'
  <2> SUFFICES ASSUME NEW v \in Workers PROVE Knows(call[v])'
    BY DEF KnowsAll
  <2>1. CASE v = w
    BY <2>1 DEF Moves
  <2>2. CASE v # w
    <3>1. Knows(call[v]) /\ call'[v] = call[v]
      BY <2>2 DEF Inv, Tidy, KnowsAll, Moves
    <3> QED
      BY <3>1 DEF Knows, RowsKept, Idle
  <2> QED
    BY <2>1, <2>2
<1> QED
  BY <1>1, OrderKept DEF Inv, Tidy

\* What is known of a worker that is not idle.
LEMMA AtWork ==
  ASSUME Inv, NEW w \in Workers, call[w] # Idle
  PROVE  /\ call[w] \in Call /\ Knows(call[w]) /\ call[w].request \in Requests
         /\ ~mishap[call[w].request] => OnTrack(call[w], call[w].request)
<1>1. call[w] \in Call /\ Knows(call[w])
  BY DEF Inv, Tidy, TypeOK, KnowsAll
<1>2. call[w].request \in Requests
  BY <1>1 DEF Knows, Call
<1> QED
  BY <1>1, <1>2 DEF Inv, Orderly

------------------------------------------------------------------------------
(* The ways a worker moves on *)

LEMMA TakeUpMoves ==
  ASSUME Tidy, NEW w \in Workers, NEW step \in {"context", "reverse"}, NEW q \in Requests,
         NEW todo \in SUBSET Requests, TakeUp(w, step, q, todo)
  PROVE  Moves(w) /\ \A r \in Requests : r = call[w].request /\ call'[w].request = r => mishap'[r]
<1> DEFINE c == [Idle EXCEPT !.at = step, !.request = q, !.todo = todo]
<1>1. /\ call' = [call EXCEPT ![w] = c]
      /\ mishap' = [mishap EXCEPT ![q] = @ \/ Busy(q)]
      /\ call \in [Workers -> Call] /\ mishap \in [Requests -> BOOLEAN]
  BY DEF Tidy, TypeOK, TakeUp, Continue
<1>2. /\ c \in Call /\ c.at = step /\ c.request = q /\ c.status = "pending" /\ c.line = 0
  BY DEF Idle, Call, Step, LinkStatus
<1> HIDE DEF c
<1>3. call' \in [Workers -> Call] /\ call'[w] = c /\ \A v \in Workers \ {w} : call'[v] = call[v]
  BY <1>1, <1>2
<1>4. Knows(call[w])'
  BY <1>2, <1>3, RequestsAssumption DEF Knows, OnLink
<1>5. Busy(q) \in BOOLEAN
  BY DEF Busy
<1>6. /\ mishap' \in [Requests -> BOOLEAN] /\ \A r \in Requests : mishap[r] => mishap'[r]
      /\ Busy(q) => mishap'[q]
  BY <1>1, <1>5
<1>7. call[w].request = q => Busy(q)
  BY DEF Busy
<1> QED
  BY <1>2, <1>3, <1>4, <1>6, <1>7 DEF Moves

LEMMA ReturnMoves ==
  ASSUME Tidy, NEW w \in Workers, Return(w),
         mishap' \in [Requests -> BOOLEAN], \A r \in Requests : mishap[r] => mishap'[r]
  PROVE  Moves(w) /\ call'[w].request = "none"
<1>1. Idle \in Call /\ Idle.request = "none" /\ Idle.line = 0
      /\ Idle.status = "pending" /\ Idle.at = "idle"
  BY DEF Idle, Call, Step, LinkStatus
<1>2. /\ call' \in [Workers -> Call] /\ call'[w] = Idle
      /\ \A v \in Workers \ {w} : call'[v] = call[v]
  BY <1>1 DEF Tidy, TypeOK, Return, Continue
<1>3. Idle' = Idle
  BY DEF Idle
<1>4. Knows(call[w])'
  BY <1>1, <1>2, <1>3 DEF Knows, OnLink
<1> QED
  BY <1>1, <1>2, <1>4, RequestsAssumption DEF Moves

LEMMA FinishMoves ==
  ASSUME Tidy, NEW w \in Workers, Finish(w)
  PROVE  Moves(w) /\ \A r \in Requests : r = call[w].request /\ call'[w].request = r => mishap'[r]
<1>1. mishap \in [Requests -> BOOLEAN] /\ call[w].todo \in SUBSET Requests
  BY DEF Tidy, TypeOK, Call
<1>2. CASE Return(w) /\ UNCHANGED mishap
  BY <1>1, <1>2, ReturnMoves, RequestsAssumption
<1>3. CASE PostNext(w, call[w].todo)
  <2>1. PICK q \in call[w].todo : TakeUp(w, "context", q, call[w].todo \ {q})
    BY <1>3 DEF PostNext
  <2> QED
    BY <1>1, <2>1, TakeUpMoves
<1> QED
  BY <1>2, <1>3 DEF Finish

\* The worker stays with its request.
LEMMA GoesOn ==
  ASSUME Tidy, NEW w \in Workers, call' \in [Workers -> Call],
         \A v \in Workers \ {w} : call'[v] = call[v], call'[w].request = call[w].request,
         Knows(call[w])', UNCHANGED mishap
  PROVE  Moves(w)
  BY DEF Tidy, TypeOK, Moves

LEMMA CatchMoves ==
  ASSUME Tidy, NEW w \in Workers, call[w].request \in Requests, Catch(w)
  PROVE  /\ Moves(w) /\ call'[w].request = call[w].request
         /\ call'[w].at = "find" /\ call'[w].status = "failed"
         /\ call[w].line # 0 => mishap'[call[w].request]
<1> DEFINE c == [call[w] EXCEPT !.at = "find", !.status = "failed", !.line = 0, !.code = 0]
           q == call[w].request
<1>1. /\ call' = [call EXCEPT ![w] = c] /\ call[w] \in Call
      /\ mishap' = [mishap EXCEPT ![q] = @ \/ call[w].line # 0]
      /\ call \in [Workers -> Call] /\ mishap \in [Requests -> BOOLEAN]
  BY DEF Tidy, TypeOK, Catch, Continue
<1>2. /\ c \in Call /\ c.at = "find" /\ c.request = q /\ c.status = "failed" /\ c.line = 0
  BY <1>1 DEF Call, Step, LinkStatus
<1> HIDE DEF c
<1>3. /\ call' \in [Workers -> Call] /\ call'[w] = c
      /\ \A v \in Workers \ {w} : call'[v] = call[v]
  BY <1>1, <1>2
<1>4. Knows(call[w])'
  BY <1>2, <1>3, RequestsAssumption DEF Knows, OnLink
<1>5. /\ mishap' \in [Requests -> BOOLEAN] /\ \A r \in Requests : mishap[r] => mishap'[r]
      /\ call[w].line # 0 => mishap'[q]
  BY <1>1
<1> QED
  BY <1>2, <1>3, <1>4, <1>5 DEF Moves

------------------------------------------------------------------------------
(* Steps that leave the tables alone *)

LEMMA TablesAlone ==
  ASSUME UNCHANGED tables, NEW r \in Requests
  PROVE  /\ PostedLines(r)' = PostedLines(r) /\ Settled(r)' = Settled(r)
         /\ Mirrored(r)' = Mirrored(r) /\ Exists(r)' = Exists(r)
  BY DEF tables, PostedLines, Settled, Mirrored, Exists, NoLink

LEMMA ReadKeepsInv ==
  ASSUME Inv, NEW w \in Workers, Moves(w), OwnInOrder(w), UNCHANGED tables,
         calls' \in Nat, faults' \in Nat
  PROVE  Inv'
<1>1. RowsKept /\ OthersKept(w)
  BY TablesAlone DEF RowsKept, OthersKept, tables
<1>2. TypeOK'
  BY DEF Inv, Tidy, TypeOK, Moves, tables, LineRow
<1>3. LinkOwnsLine'
  BY DEF Inv, Tidy, LinkOwnsLine, tables, Exists, NoLink
<1> QED
  BY <1>1, <1>2, <1>3, StepKeepsInv

\* An idle worker has no request to leave.
LEMMA IdleOwnsNothing ==
  ASSUME NEW w \in Workers, call[w] = Idle
  PROVE  OwnInOrder(w)
BY RequestsAssumption DEF OwnInOrder, Idle

LEMMA StartKeepsInv ==
  ASSUME Inv, NEW w \in Workers,
         \/ \E r \in Requests : StartPost(w, r) \/ StartReverse(w, r)
         \/ StartBatch(w)
  PROVE  Inv'
<1>1. Starting(w)
  BY DEF StartPost, StartReverse, StartBatch
<1>2. Moves(w)
  <2>1. ASSUME NEW r \in Requests, StartPost(w, r) PROVE Moves(w)
    BY <2>1, TakeUpMoves DEF StartPost, Inv
  <2>2. ASSUME NEW r \in Requests, StartReverse(w, r) PROVE Moves(w)
    BY <2>2, TakeUpMoves DEF StartReverse, Inv
  <2>3. ASSUME StartBatch(w) PROVE Moves(w)
    <3> DEFINE unposted == {r \in converted : link[r].status \notin {"posted", "reversed"}}
    <3>1. PICK r \in unposted : TakeUp(w, "context", r, unposted \ {r})
      BY <2>3 DEF StartBatch, PostNext
    <3>2. unposted \subseteq Requests
      BY DEF Inv, Tidy, TypeOK
    <3> HIDE DEF unposted
    <3> QED
      BY <3>1, <3>2, TakeUpMoves DEF Inv
  <2> QED
    BY <2>1, <2>2, <2>3
<1>3. OwnInOrder(w)
  BY <1>1, IdleOwnsNothing DEF Starting
<1>4. UNCHANGED tables /\ calls' \in Nat /\ faults' \in Nat
  BY <1>1 DEF Starting, Inv, Tidy, TypeOK
<1> QED
  BY <1>2, <1>3, <1>4, ReadKeepsInv

LEMMA ReadContextKeepsInv ==
  ASSUME Inv, NEW w \in Workers, ReadContext(w)
  PROVE  Inv'
<1>1. call[w].at = "context" /\ call[w] # Idle
  BY DEF ReadContext, At, Idle
<1> PICK q \in Requests : q = call[w].request
  BY <1>1, AtWork
<1>2. /\ call[w] \in Call /\ Knows(call[w])
      /\ ~mishap[q] => OnTrack(call[w], q)
  BY <1>1, AtWork
<1>3. PICK s \in {"pending", "failed", "skipped_no_booking"} :
        call' = [call EXCEPT ![w] = [call[w] EXCEPT !.at = "link", !.status = s]]
  BY DEF ReadContext, Gate, Continue
<1>4. /\ call' \in [Workers -> Call] /\ \A v \in Workers \ {w} : call'[v] = call[v]
      /\ call'[w].at = "link" /\ call'[w].request = q /\ call'[w].line = call[w].line
      /\ call'[w].status # "posted"
  BY <1>2, <1>3 DEF Inv, Tidy, TypeOK, Call, Step, LinkStatus
<1>5. UNCHANGED tables /\ calls' \in Nat /\ faults' \in Nat /\ UNCHANGED mishap
  BY DEF ReadContext, Reading, Inv, Tidy, TypeOK
<1>6. Moves(w)
  <2>1. Knows(call[w])'
    BY <1>2, <1>4, <1>5, RequestsAssumption DEF Knows, OnLink, tables
  <2> QED
    BY <1>4, <1>5, <2>1, GoesOn DEF Inv
<1>7. OwnInOrder(w)
  BY <1>1, <1>2, <1>4, <1>5, TablesAlone DEF OwnInOrder, OnTrack
<1> QED
  BY <1>5, <1>6, <1>7, ReadKeepsInv

LEMMA ReadLinkKeepsInv ==
  ASSUME Inv, NEW w \in Workers, ReadLink(w)
  PROVE  Inv'
<1>1. call[w].at = "link" /\ call[w] # Idle
  BY DEF ReadLink, At, Idle
<1> PICK q \in Requests : q = call[w].request
  BY <1>1, AtWork
<1>2. /\ call[w] \in Call /\ Knows(call[w])
      /\ ~mishap[q] => OnTrack(call[w], q)
  BY <1>1, AtWork
<1>3. UNCHANGED tables /\ calls' \in Nat /\ faults' \in Nat
  BY DEF ReadLink, Reading, Inv, Tidy, TypeOK
<1>4. CASE Finish(w)
  <2>1. Moves(w) /\ \A r \in Requests : r = q /\ call'[w].request = r => mishap'[r]
    BY <1>4, FinishMoves DEF Inv
  <2>2. OwnInOrder(w)
    BY <1>1, <1>2, <1>3, <2>1, TablesAlone DEF OwnInOrder, OnTrack, Moves
  <2> QED
    BY <1>3, <2>1, <2>2, ReadKeepsInv
<1>5. CASE /\ ~AlreadyPosted(w) /\ UNCHANGED mishap
           /\ Goto(w, IF call[w].status = "pending" THEN "period" ELSE "find")
  <2>1. PICK step \in {"period", "find"} : call' = [call EXCEPT ![w] = [call[w] EXCEPT !.at = step]]
    BY <1>5 DEF Goto, Continue
  <2>2. /\ call' \in [Workers -> Call] /\ \A v \in Workers \ {w} : call'[v] = call[v]
        /\ call'[w].at = step /\ call'[w].request = q /\ call'[w].line = call[w].line
        /\ call'[w].status = call[w].status
    BY <1>2, <2>1 DEF Inv, Tidy, TypeOK, Call, Step
  <2>3. call[w].status # "posted"
    BY <1>1, <1>2 DEF Knows, Written
  <2>4. Moves(w)
    <3>1. Knows(call[w])'
      BY <1>2, <1>3, <2>2, <2>3, RequestsAssumption DEF Knows, OnLink, tables
    <3> QED
      BY <1>5, <2>2, <3>1, GoesOn DEF Inv
  <2>5. OwnInOrder(w)
    <3> SUFFICES ASSUME ~mishap'[q] PROVE OnTrack(call[w], q)'
      BY <2>2 DEF OwnInOrder
    <3>1. Settled(q) /\ Mirrored(q) /\ link[q].status # "posted"
      BY <1>1, <1>2, <1>5 DEF OnTrack, AlreadyPosted
    <3>2. /\ (Settled(q) /\ Mirrored(q))' /\ link'[q].status # "posted"
          /\ PostedLines(q)' = {}
      BY <1>2, <1>3, <3>1, TablesAlone DEF Settled, tables
    <3> QED
      BY <2>2, <2>3, <3>2 DEF OnTrack
  <2> QED
    BY <1>3, <2>4, <2>5, ReadKeepsInv
<1> QED
  BY <1>4, <1>5 DEF ReadLink

LEMMA ReadPeriodKeepsInv ==
  ASSUME Inv, NEW w \in Workers, ReadPeriod(w)
  PROVE  Inv'
<1>1. call[w].at = "period" /\ call[w] # Idle
  BY DEF ReadPeriod, At, Idle
<1> PICK q \in Requests : q = call[w].request
  BY <1>1, AtWork
<1>2. /\ call[w] \in Call /\ Knows(call[w])
      /\ ~mishap[q] => OnTrack(call[w], q)
  BY <1>1, AtWork
<1>3. UNCHANGED tables /\ calls' \in Nat /\ faults' \in Nat /\ UNCHANGED mishap
  BY DEF ReadPeriod, Reading, Inv, Tidy, TypeOK
<1>4. /\ call' \in [Workers -> Call] /\ \A v \in Workers \ {w} : call'[v] = call[v]
      /\ call'[w].request = q /\ call'[w].line = call[w].line
      /\ call'[w].at \in {"find", "line"} /\ call'[w].status # "posted"
  <2>1. call[w].status # "posted"
    BY <1>1, <1>2 DEF Knows, Written
  <2>2. CASE locked
    <3>1. call' = [call EXCEPT ![w] =
                     [call[w] EXCEPT !.at = "find", !.status = "skipped_locked_period"]]
      BY <2>2 DEF ReadPeriod, Continue
    <3> QED
      BY <1>2, <3>1 DEF Inv, Tidy, TypeOK, Call, Step, LinkStatus
  <2>3. CASE ~locked
    <3>1. call' = [call EXCEPT ![w] = [call[w] EXCEPT !.at = "line"]]
      BY <2>3 DEF ReadPeriod, Continue
    <3> QED
      BY <1>2, <2>1, <3>1 DEF Inv, Tidy, TypeOK, Call, Step, LinkStatus
  <2> QED
    BY <2>2, <2>3
<1>5. Moves(w)
  <2>1. Knows(call[w])'
    BY <1>2, <1>3, <1>4, RequestsAssumption DEF Knows, OnLink, tables
  <2> QED
    BY <1>3, <1>4, <2>1, GoesOn DEF Inv
<1>6. OwnInOrder(w)
  <2> SUFFICES ASSUME ~mishap'[q] PROVE OnTrack(call[w], q)'
    BY <1>4 DEF OwnInOrder
  <2>1. Settled(q) /\ Mirrored(q) /\ link[q].status # "posted"
    BY <1>1, <1>2, <1>3 DEF OnTrack
  <2>2. /\ (Settled(q) /\ Mirrored(q))' /\ link'[q].status # "posted"
        /\ PostedLines(q)' = {}
    BY <1>2, <1>3, <2>1, TablesAlone DEF Settled, tables
  <2> QED
    BY <1>4, <2>2 DEF OnTrack
<1> QED
  BY <1>3, <1>5, <1>6, ReadKeepsInv

LEMMA FindLinkKeepsInv ==
  ASSUME Inv, NEW w \in Workers, FindLink(w)
  PROVE  Inv'
<1>1. call[w].at = "find" /\ call[w] # Idle
  BY DEF FindLink, At, Idle
<1> PICK q \in Requests : q = call[w].request
  BY <1>1, AtWork
<1>2. /\ call[w] \in Call /\ Knows(call[w])
      /\ ~mishap[q] => OnTrack(call[w], q)
  BY <1>1, AtWork
<1>3. UNCHANGED tables /\ calls' \in Nat /\ faults' \in Nat /\ UNCHANGED mishap
  BY DEF FindLink, Reading, Inv, Tidy, TypeOK
<1>4. /\ call' \in [Workers -> Call] /\ \A v \in Workers \ {w} : call'[v] = call[v]
      /\ call'[w].request = q /\ call'[w].line = call[w].line /\ call'[w].status = call[w].status
      /\ \/ call'[w].at = "update" /\ Exists(q)
         \/ call'[w].at = "insert" /\ call'[w].code # 0
  <2>1. CASE Exists(q)
    <3>1. call' = [call EXCEPT ![w] = [call[w] EXCEPT !.at = "update"]]
      BY <2>1 DEF FindLink, Continue
    <3> QED
      BY <1>2, <2>1, <3>1 DEF Inv, Tidy, TypeOK, Call, Step
  <2>2. CASE ~Exists(q)
    <3>1. call' = [call EXCEPT ![w] = [call[w] EXCEPT !.at = "insert", !.code = NextCode]]
      BY <2>2 DEF FindLink, Continue
    <3>2. NextCode \in Nat \ {0}
      BY CodeIsPositive DEF Inv, Tidy
    <3> QED
      BY <1>2, <3>1, <3>2 DEF Inv, Tidy, TypeOK, Call, Step
  <2> QED
    BY <2>1, <2>2
<1>5. Moves(w)
  <2>1. Knows(call[w])'
    BY <1>2, <1>3, <1>4, TablesAlone, RequestsAssumption DEF Knows, OnLink, Written, tables
  <2> QED
    BY <1>3, <1>4, <2>1, GoesOn DEF Inv
<1>6. OwnInOrder(w)
  <2> SUFFICES ASSUME ~mishap'[q] PROVE OnTrack(call[w], q)'
    BY <1>4 DEF OwnInOrder
  <2>1. /\ Mirrored(q) /\ link[q].status # "posted"
        /\ PostedLines(q) = IF call[w].status = "posted" THEN {call[w].line} ELSE {}
    BY <1>1, <1>2, <1>3 DEF OnTrack
  <2>2. /\ Mirrored(q)' /\ link'[q].status # "posted" /\ PostedLines(q)' = PostedLines(q)
    BY <1>2, <1>3, <2>1, TablesAlone DEF tables
  <2> QED
    BY <1>4, <2>1, <2>2 DEF OnTrack
<1> QED
  BY <1>3, <1>5, <1>6, ReadKeepsInv

LEMMA NotifyKeepsInv ==
  ASSUME Inv, NEW w \in Workers, Notify(w)
  PROVE  Inv'
<1>1. call[w].at = "notify" /\ call[w] # Idle
  BY DEF Notify, At, Idle
<1> PICK q \in Requests : q = call[w].request
  BY <1>1, AtWork
<1>2. ~mishap[q] => OnTrack(call[w], q)
  BY <1>1, AtWork
<1>3. UNCHANGED tables /\ calls' \in Nat /\ faults' \in Nat
  BY DEF Notify, Reading, Inv, Tidy, TypeOK
<1>4. Moves(w) /\ \A r \in Requests : r = q /\ call'[w].request = r => mishap'[r]
  BY FinishMoves DEF Notify, Inv
<1>5. OwnInOrder(w)
  BY <1>1, <1>2, <1>3, <1>4, TablesAlone DEF OwnInOrder, OnTrack, Moves
<1> QED
  BY <1>3, <1>4, <1>5, ReadKeepsInv

LEMMA ReverseReadKeepsInv ==
  ASSUME Inv, NEW w \in Workers, ReverseRead(w)
  PROVE  Inv'
<1>1. call[w].at = "reverse" /\ call[w] # Idle
  BY DEF ReverseRead, At, Idle
<1> PICK q \in Requests : q = call[w].request
  BY <1>1, AtWork
<1>2. /\ call[w] \in Call /\ Knows(call[w])
      /\ ~mishap[q] => OnTrack(call[w], q)
  BY <1>1, AtWork
<1>3. UNCHANGED tables /\ calls' \in Nat /\ faults' \in Nat /\ UNCHANGED mishap
  BY DEF ReverseRead, Reading, Inv, Tidy, TypeOK
<1>4. CASE Return(w)
  <2>1. Moves(w) /\ call'[w].request = "none"
    BY <1>3, <1>4, ReturnMoves DEF Inv, Tidy, TypeOK
  <2>2. OwnInOrder(w)
    BY <1>1, <1>2, <1>3, <2>1, TablesAlone, RequestsAssumption DEF OwnInOrder, OnTrack
  <2> QED
    BY <1>3, <2>1, <2>2, ReadKeepsInv
<1>5. CASE ~Return(w)
  <2>1. /\ link[q].status = "posted"
        /\ call' = [call EXCEPT ![w] = [call[w] EXCEPT !.at = "reverse_line", !.line = link[q].line]]
    BY <1>5 DEF ReverseRead, Continue
  <2>2. Exists(q) /\ link[q].line \in Nat /\ link[q].line # 0
        /\ link[q].line \in DOMAIN lines /\ lines[link[q].line].request = q
    <3>1. Exists(q)
      BY <2>1 DEF Exists, NoLink
    <3> QED
      BY <1>2, <2>1, <3>1 DEF Exists, Inv, Tidy, TypeOK, LinkOwnsLine, LinkRow
  <2>3. /\ call' \in [Workers -> Call] /\ \A v \in Workers \ {w} : call'[v] = call[v]
        /\ call'[w].request = q /\ call'[w].line = link[q].line
        /\ call'[w].status = call[w].status /\ call'[w].at = "reverse_line"
    BY <1>2, <2>1, <2>2 DEF Inv, Tidy, TypeOK, Call, Step
  <2>4. call[w].status # "posted"
    BY <1>1, <1>2 DEF Knows, Written
  <2>5. Moves(w)
    <3>1. Knows(call[w])'
      BY <1>2, <1>3, <2>2, <2>3, <2>4, TablesAlone, RequestsAssumption DEF Knows, tables
    <3> QED
      BY <1>3, <2>3, <3>1, GoesOn DEF Inv
  <2>6. OwnInOrder(w)
    <3> SUFFICES ASSUME ~mishap'[q] PROVE OnTrack(call[w], q)'
      BY <2>3 DEF OwnInOrder
    <3>1. (Settled(q) /\ Mirrored(q))' /\ link'[q] = link[q]
      BY <1>1, <1>2, <1>3, TablesAlone DEF OnTrack, tables
    <3> QED
      BY <2>1, <2>3, <3>1 DEF OnTrack
  <2> QED
    BY <1>3, <2>5, <2>6, ReadKeepsInv
<1> QED
  BY <1>4, <1>5

LEMMA FaultKeepsInv ==
  ASSUME Inv, NEW w \in Workers, Die(w) \/ StatementRaises(w)
  PROVE  Inv'
<1> DEFINE q == call[w].request
<1>1. UNCHANGED tables /\ calls' \in Nat /\ faults' \in Nat
  BY DEF Die, StatementRaises, Inv, Tidy, TypeOK
<1>2. call[w] # Idle
  BY DEF Die, StatementRaises, Idle
<1>3. q \in Requests /\ Knows(call[w])
  BY <1>2, AtWork
<1>4. Moves(w) /\ mishap'[q]
  <2>1. CASE Die(w)
    <3>1. /\ mishap' \in [Requests -> BOOLEAN] /\ \A r \in Requests : mishap[r] => mishap'[r]
          /\ mishap'[q]
      BY <1>3, <2>1 DEF Die, Inv, Tidy, TypeOK
    <3> QED
      BY <2>1, <3>1, ReturnMoves DEF Die, Inv
  <2>2. CASE StatementRaises(w)
    BY <1>3, <2>2, CatchMoves DEF StatementRaises, Knows, Inv
  <2> QED
    BY <2>1, <2>2
<1>5. OwnInOrder(w)
  BY <1>4 DEF OwnInOrder
<1> QED
  BY <1>1, <1>4, <1>5, ReadKeepsInv

------------------------------------------------------------------------------
(* Steps that write the ledger *)

LEMMA InsertLineKeepsInv ==
  ASSUME Inv, NEW w \in Workers, InsertLine(w)
  PROVE  Inv'
<1>1. call[w].at = "line" /\ call[w] # Idle
  BY DEF InsertLine, At, Idle
<1> PICK q \in Requests : q = call[w].request
  BY <1>1, AtWork
<1>2. /\ call[w] \in Call /\ Knows(call[w])
      /\ ~mishap[q] => OnTrack(call[w], q)
  BY <1>1, AtWork
<1>3. ASSUME ~mishap[q]
      PROVE  Mirrored(q) /\ link[q].status # "posted" /\ PostedLines(q) = {}
  BY <1>1, <1>2, <1>3 DEF OnTrack, Settled
<1>4. UNCHANGED <<converted, locked, link, bridgeStatus>> /\ calls' \in Nat /\ faults' \in Nat
  BY DEF InsertLine, Inv, Tidy, TypeOK
<1>5. CASE Catch(w) /\ UNCHANGED lines
  <2>1. UNCHANGED tables
    BY <1>4, <1>5 DEF tables
  <2>2. /\ Moves(w) /\ call'[w].request = q
        /\ call'[w].at = "find" /\ call'[w].status = "failed"
    BY <1>5, CatchMoves DEF Inv
  <2>3. OwnInOrder(w)
    <3> SUFFICES ASSUME ~mishap'[q] PROVE OnTrack(call[w], q)'
      BY <2>2 DEF OwnInOrder
    <3>1. ~mishap[q]
      BY <2>2 DEF Moves
    <3>2. Mirrored(q)' /\ link'[q].status # "posted" /\ PostedLines(q)' = {}
      BY <1>3, <1>4, <2>1, <3>1, TablesAlone
    <3> QED
      BY <2>2, <3>2 DEF OnTrack
  <2> QED
    BY <1>4, <2>1, <2>2, <2>3, ReadKeepsInv
<1>6. CASE /\ lines' = Append(lines, [request |-> q, status |-> "posted"]) /\ UNCHANGED mishap
           /\ call' = [call EXCEPT ![w] =
                 [call[w] EXCEPT !.at = "find", !.status = "posted", !.line = Len(lines) + 1]]
  <2>1. lines \in Seq(LineRow) /\ [request |-> q, status |-> "posted"] \in LineRow
    BY DEF LineRow, Inv, Tidy, TypeOK
  <2>2. /\ lines' \in Seq(LineRow) /\ Len(lines) \in Nat /\ DOMAIN lines = 1..Len(lines)
        /\ DOMAIN lines' = 1..(Len(lines) + 1)
        /\ \A i \in 1..Len(lines) : lines'[i] = lines[i]
        /\ lines'[Len(lines) + 1].request = q
    BY <1>6, <2>1, AppendProperties, LenProperties
  <2>3. /\ call' \in [Workers -> Call] /\ \A v \in Workers \ {w} : call'[v] = call[v]
        /\ call'[w].request = q /\ call'[w].at = "find"
        /\ call'[w].status = "posted" /\ call'[w].line = Len(lines) + 1
    <3> DEFINE n == Len(lines) + 1
               c == [call[w] EXCEPT !.at = "find", !.status = "posted", !.line = n]
    <3>1. n \in Nat
      BY <2>2
    <3> HIDE DEF n
    <3>2. c \in Call /\ c.request = q /\ c.at = "find" /\ c.status = "posted" /\ c.line = n
      BY <1>2, <3>1 DEF Call, Step, LinkStatus
    <3>3. call' = [call EXCEPT ![w] = c] /\ call \in [Workers -> Call]
      BY <1>6 DEF n, Inv, Tidy, TypeOK
    <3> HIDE DEF c
    <3> QED
      BY <3>2, <3>3 DEF n
  <2>4. RowsKept
    BY <1>4, <2>2 DEF RowsKept, Exists, NoLink
  <2>5. OthersKept(w)
    BY <1>4, <1>6, <2>1, LineAdded DEF OthersKept
  <2>6. Moves(w)
    <3>1. Knows(call[w])'
      BY <2>2, <2>3, RequestsAssumption DEF Knows, OnLink, Written
    <3> QED
      BY <1>6, <2>3, <3>1, GoesOn DEF Inv
  <2>7. OwnInOrder(w)
    <3> SUFFICES ASSUME ~mishap'[q] PROVE OnTrack(call[w], q)'
      BY <2>3 DEF OwnInOrder
    <3>1. Mirrored(q) /\ link[q].status # "posted" /\ PostedLines(q) = {}
      BY <1>3, <1>6
    <3>2. PostedLines(q)' = {Len(lines) + 1}
      BY <1>6, <2>1, <3>1, LineAdded
    <3>3. Mirrored(q)' /\ link'[q].status # "posted"
      BY <1>4, <3>1 DEF Mirrored, Exists, NoLink
    <3> QED
      BY <2>3, <3>2, <3>3 DEF OnTrack
  <2>8. TypeOK'
    BY <1>4, <1>6, <2>2, <2>3 DEF Inv, Tidy, TypeOK, LineRow
  <2>9. LinkOwnsLine'
    BY <1>4, <2>4 DEF Inv, Tidy, LinkOwnsLine, RowsKept, Exists, NoLink
  <2> QED
    BY <2>4, <2>5, <2>6, <2>7, <2>8, <2>9, StepKeepsInv
<1> QED
  BY <1>5, <1>6 DEF InsertLine, Continue

LEMMA ReverseLineKeepsInv ==
  ASSUME Inv, NEW w \in Workers, ReverseLine(w)
  PROVE  Inv'
<1>1. call[w].at = "reverse_line" /\ call[w] # Idle
  BY DEF ReverseLine, At, Idle
<1> PICK q \in Requests : q = call[w].request
  BY <1>1, AtWork
<1>2. /\ call[w] \in Call /\ Knows(call[w])
      /\ ~mishap[q] => OnTrack(call[w], q)
  BY <1>1, AtWork
<1>3. /\ UNCHANGED <<converted, locked, link, bridgeStatus, mishap>>
      /\ calls' \in Nat /\ faults' \in Nat
  BY DEF ReverseLine, Inv, Tidy, TypeOK
<1>4. CASE Return(w) /\ UNCHANGED lines
  <2>1. UNCHANGED tables
    BY <1>3, <1>4 DEF tables
  <2>2. Moves(w) /\ call'[w].request = "none"
    BY <1>3, <1>4, ReturnMoves DEF Inv, Tidy, TypeOK
  <2>3. OwnInOrder(w)
    BY <1>1, <1>2, <1>3, <2>1, <2>2, TablesAlone, RequestsAssumption DEF OwnInOrder, OnTrack
  <2> QED
    BY <1>3, <2>1, <2>2, <2>3, ReadKeepsInv
<1>5. CASE /\ lines' = [lines EXCEPT ![call[w].line].status = "reversed"]
           /\ call' = [call EXCEPT ![w] = [call[w] EXCEPT !.at = "reverse_link"]]
  <2>1. call[w].line \in DOMAIN lines /\ lines[call[w].line].request = q /\ lines \in Seq(LineRow)
    BY <1>1, <1>2 DEF Knows, Inv, Tidy, TypeOK
  <2> PICK k \in DOMAIN lines : k = call[w].line
    BY <2>1
  <2>2. /\ lines' \in Seq(LineRow) /\ DOMAIN lines' = DOMAIN lines
        /\ \A i \in DOMAIN lines : lines'[i].request = lines[i].request
        /\ \A r \in Requests : PostedLines(r)' = PostedLines(r) \ {k}
    BY <1>5, <2>1, LineReversed
  <2>3. /\ call' \in [Workers -> Call] /\ \A v \in Workers \ {w} : call'[v] = call[v]
        /\ call'[w].request = q /\ call'[w].at = "reverse_link"
        /\ call'[w].status = call[w].status /\ call'[w].line = k
    BY <1>2, <1>5 DEF Inv, Tidy, TypeOK, Call, Step
  <2>4. RowsKept
    BY <1>3, <2>2 DEF RowsKept, Exists, NoLink
  <2>5. OthersKept(w)
    <3>1. ASSUME NEW r \in Requests, r # q PROVE PostedLines(r)' = PostedLines(r)
      <4>1. k \notin PostedLines(r)
        BY <2>1, <3>1 DEF PostedLines
      <4>2. PostedLines(r)' = PostedLines(r) \ {k}
        BY <2>2
      <4> QED
        BY <4>1, <4>2
    <3> QED
      BY <1>3, <3>1 DEF OthersKept
  <2>6. Moves(w)
    <3>1. Knows(call[w])'
      BY <1>1, <1>2, <1>3, <2>1, <2>2, <2>3, <2>4, RequestsAssumption
         DEF Knows, OnLink, Written, RowsKept
    <3> QED
      BY <1>3, <2>3, <3>1, GoesOn DEF Inv
  <2>7. OwnInOrder(w)
    <3> SUFFICES ASSUME ~mishap'[q] PROVE OnTrack(call[w], q)'
      BY <2>3 DEF OwnInOrder
    <3>1. PostedLines(q) = {k}
      BY <1>1, <1>2, <1>3 DEF OnTrack, Settled
    <3>2. PostedLines(q)' = {}
      BY <2>2, <3>1
    <3> QED
      BY <2>3, <3>2 DEF OnTrack
  <2>8. TypeOK'
    BY <1>3, <2>2, <2>3 DEF Inv, Tidy, TypeOK, LineRow
  <2>9. LinkOwnsLine'
    BY <1>3, <2>4 DEF Inv, Tidy, LinkOwnsLine, RowsKept, Exists, NoLink
  <2> QED
    BY <2>4, <2>5, <2>6, <2>7, <2>8, <2>9, StepKeepsInv
<1> QED
  BY <1>4, <1>5 DEF ReverseLine, Goto, Continue

------------------------------------------------------------------------------
(* Steps that write the link or its mirror *)

\* A write of one link that points at the request's own line.
LEMMA LinkWrite ==
  ASSUME Tidy, NEW q \in Requests, NEW l \in LinkRow, link' = [link EXCEPT ![q] = l],
         UNCHANGED lines,
         l.status = "posted" => l.line # 0,
         l.line # 0 => l.line \in DOMAIN lines /\ lines[l.line].request = q,
         \A r \in Requests \ {q} : link[r].code # l.code
  PROVE  /\ link' \in [Requests -> LinkRow \cup {NoLink}] /\ link'[q] = l
         /\ LinkOwnsLine' /\ RowsKept /\ Exists(q)'
         /\ \A r \in Requests : r # q => link'[r] = link[r]
         /\ \A r \in Requests : PostedLines(r)' = PostedLines(r)
<1>1. /\ link' \in [Requests -> LinkRow \cup {NoLink}] /\ link'[q] = l
      /\ \A r \in Requests : r # q => link'[r] = link[r]
  BY DEF Tidy, TypeOK
<1>2. l # NoLink /\ l.code # 0
  BY DEF LinkRow, NoLink
<1>3. Exists(q)'
  BY <1>1, <1>2 DEF Exists, NoLink
<1>4. \A r \in Requests : r # q => Exists(r)' = Exists(r)
  BY <1>1 DEF Exists, NoLink
<1>5. RowsKept
  BY <1>3, <1>4 DEF RowsKept
<1>6. \A r \in Requests : PostedLines(r)' = PostedLines(r)
  BY DEF PostedLines
<1>7. LinkOwnsLine'
  <2> SUFFICES ASSUME NEW r \in Requests, Exists(r)'
               PROVE  /\ link'[r].status = "posted" => link'[r].line # 0
                      /\ link'[r].line # 0 =>
                           link'[r].line \in DOMAIN lines /\ lines[link'[r].line].request = r
                      /\ \A p \in Requests : link'[p].code = link'[r].code => p = r
    BY DEF LinkOwnsLine
  <2>1. CASE r = q
    BY <1>1, <2>1
  <2>2. CASE r # q
    BY <1>1, <1>4, <2>2 DEF Tidy, LinkOwnsLine
  <2> QED
    BY <2>1, <2>2
<1> QED
  BY <1>1, <1>3, <1>5, <1>6, <1>7

LEMMA UpdateLinkKeepsInv ==
  ASSUME Inv, NEW w \in Workers, UpdateLink(w)
  PROVE  Inv'
<1>1. call[w].at = "update" /\ call[w] # Idle
  BY DEF UpdateLink, At, Idle
<1> PICK q \in Requests : q = call[w].request
  BY <1>1, AtWork
<1>2. /\ call[w] \in Call /\ Knows(call[w])
      /\ ~mishap[q] => OnTrack(call[w], q)
  BY <1>1, AtWork
<1>3. /\ UNCHANGED <<converted, locked, lines, bridgeStatus, mishap>>
      /\ calls' \in Nat /\ faults' \in Nat
  BY DEF UpdateLink, Inv, Tidy, TypeOK
<1>4. Exists(q) /\ link[q] \in LinkRow
  BY <1>1, <1>2 DEF Knows, OnLink, Exists, Inv, Tidy, TypeOK
<1> DEFINE k == IF call[w].line # 0 THEN call[w].line ELSE link[q].line
           l == [link[q] EXCEPT !.status = call[w].status, !.line = k]
<1>5. k \in Nat /\ call[w].status \in LinkStatus
  BY <1>2, <1>4 DEF Call, LinkRow
<1>6. /\ l \in LinkRow /\ l.status = call[w].status /\ l.line = k /\ l.code = link[q].code
  <2> HIDE DEF k
  <2> QED
    BY <1>4, <1>5 DEF LinkRow
<1>7. link' = [link EXCEPT ![q] = l]
  BY DEF UpdateLink
<1>8. /\ call[w].status = "posted" => k = call[w].line /\ k # 0
      /\ k # 0 => k \in DOMAIN lines /\ lines[k].request = q
  BY <1>2, <1>4 DEF Knows, Inv, Tidy, LinkOwnsLine
<1>9. \A r \in Requests \ {q} : link[r].code # link[q].code
  BY <1>4 DEF Inv, Tidy, LinkOwnsLine
<1> HIDE DEF k, l
<1>10. /\ link' \in [Requests -> LinkRow \cup {NoLink}] /\ link'[q] = l
       /\ LinkOwnsLine' /\ RowsKept
       /\ \A r \in Requests : r # q => link'[r] = link[r]
       /\ \A r \in Requests : PostedLines(r)' = PostedLines(r)
  <2>1. /\ l.status = "posted" => l.line # 0
        /\ l.line # 0 => l.line \in DOMAIN lines /\ lines[l.line].request = q
        /\ \A r \in Requests \ {q} : link[r].code # l.code
    BY <1>6, <1>8, <1>9
  <2>2. l \in LinkRow /\ UNCHANGED lines /\ Tidy
    BY <1>3, <1>6 DEF Inv
  <2> QED
    BY <1>7, <2>1, <2>2, LinkWrite
<1>11. /\ call' \in [Workers -> Call] /\ \A v \in Workers \ {w} : call'[v] = call[v]
       /\ call'[w].request = q /\ call'[w].at = "mirror"
       /\ call'[w].status = call[w].status /\ call'[w].line = call[w].line
  <2>1. call' = [call EXCEPT ![w] = [call[w] EXCEPT !.at = "mirror"]]
    BY DEF UpdateLink, Goto, Continue
  <2> QED
    BY <1>2, <2>1 DEF Inv, Tidy, TypeOK, Call, Step
<1>12. Moves(w)
  <2>1. Knows(call[w])'
    BY <1>2, <1>3, <1>11, RequestsAssumption DEF Knows, OnLink, Written
  <2> QED
    BY <1>3, <1>11, <2>1, GoesOn DEF Inv
<1>13. OthersKept(w)
  BY <1>3, <1>10 DEF OthersKept
<1>14. OwnInOrder(w)
  <2> SUFFICES ASSUME ~mishap'[q] PROVE OnTrack(call[w], q)'
    BY <1>11 DEF OwnInOrder
  <2>1. PostedLines(q)' = IF call[w].status = "posted" THEN {call[w].line} ELSE {}
    BY <1>1, <1>2, <1>3, <1>10 DEF OnTrack
  <2>2. Settled(q)'
    BY <1>6, <1>8, <1>10, <2>1 DEF Settled
  <2> QED
    BY <1>6, <1>10, <1>11, <2>2 DEF OnTrack
<1>15. TypeOK'
  BY <1>3, <1>10, <1>11 DEF Inv, Tidy, TypeOK, LineRow, LinkRow, NoLink
<1> QED
  BY <1>10, <1>12, <1>13, <1>14, <1>15, StepKeepsInv

LEMMA InsertLinkKeepsInv ==
  ASSUME Inv, NEW w \in Workers, InsertLink(w)
  PROVE  Inv'
<1>1. call[w].at = "insert" /\ call[w] # Idle
  BY DEF InsertLink, At, Idle
<1> PICK q \in Requests : q = call[w].request
  BY <1>1, AtWork
<1>2. /\ call[w] \in Call /\ Knows(call[w])
      /\ ~mishap[q] => OnTrack(call[w], q)
  BY <1>1, AtWork
<1>3. /\ UNCHANGED <<converted, locked, lines, bridgeStatus>>
      /\ calls' \in Nat /\ faults' \in Nat
  BY DEF InsertLink, Inv, Tidy, TypeOK
<1>4. ASSUME ~mishap[q]
      PROVE  /\ Mirrored(q) /\ link[q].status # "posted"
             /\ PostedLines(q) = IF call[w].status = "posted" THEN {call[w].line} ELSE {}
  BY <1>1, <1>2, <1>4 DEF OnTrack
<1>5. CASE /\ ~InsertRefused(w) /\ UNCHANGED mishap
           /\ link' = [link EXCEPT ![q] =
                 [status |-> call[w].status, line |-> call[w].line, code |-> call[w].code]]
           /\ call' = [call EXCEPT ![w] = [call[w] EXCEPT !.at = "mirror", !.code = 0]]
  <2> DEFINE l == [status |-> call[w].status, line |-> call[w].line, code |-> call[w].code]
  <2>1. l \in LinkRow /\ l.status = call[w].status /\ l.line = call[w].line
    BY <1>1, <1>2 DEF LinkRow, Call, Knows
  <2>2. \A r \in Requests \ {q} : link[r].code # l.code
    <3>1. call[w].code # 0 /\ call[w].code \notin Codes
      BY <1>1, <1>2, <1>5 DEF Knows, InsertRefused
    <3> QED
      BY <3>1 DEF Codes, Exists, NoLink
  <2>3. /\ l.status = "posted" => l.line # 0
        /\ l.line # 0 => l.line \in DOMAIN lines /\ lines[l.line].request = q
    BY <1>2 DEF Knows
  <2>4. link' = [link EXCEPT ![q] = l]
    BY <1>5
  <2> HIDE DEF l
  <2>5. /\ link' \in [Requests -> LinkRow \cup {NoLink}] /\ link'[q] = l
        /\ LinkOwnsLine' /\ RowsKept
        /\ \A r \in Requests : r # q => link'[r] = link[r]
        /\ \A r \in Requests : PostedLines(r)' = PostedLines(r)
    BY <1>3, <2>1, <2>2, <2>3, <2>4, LinkWrite DEF Inv
  <2>6. /\ call' \in [Workers -> Call] /\ \A v \in Workers \ {w} : call'[v] = call[v]
        /\ call'[w].request = q /\ call'[w].at = "mirror"
        /\ call'[w].status = call[w].status /\ call'[w].line = call[w].line
    BY <1>2, <1>5 DEF Inv, Tidy, TypeOK, Call, Step
  <2>7. Moves(w)
    <3>1. Knows(call[w])'
      BY <1>2, <1>3, <2>6, RequestsAssumption DEF Knows, OnLink, Written
    <3> QED
      BY <1>5, <2>6, <3>1, GoesOn DEF Inv
  <2>8. OthersKept(w)
    BY <1>3, <2>5 DEF OthersKept
  <2>9. OwnInOrder(w)
    <3> SUFFICES ASSUME ~mishap'[q] PROVE OnTrack(call[w], q)'
      BY <2>6 DEF OwnInOrder
    <3>1. PostedLines(q)' = IF call[w].status = "posted" THEN {call[w].line} ELSE {}
      BY <1>4, <1>5, <2>5
    <3>2. Settled(q)'
      BY <2>1, <2>5, <3>1 DEF Settled
    <3> QED
      BY <2>1, <2>5, <2>6, <3>2 DEF OnTrack
  <2>10. TypeOK'
    BY <1>3, <1>5, <2>5, <2>6 DEF Inv, Tidy, TypeOK, LineRow, LinkRow, NoLink
  <2> QED
    BY <2>5, <2>7, <2>8, <2>9, <2>10, StepKeepsInv
<1>6. CASE UNCHANGED link /\ call[w].status = "posted" /\ Catch(w)
  <2>1. UNCHANGED tables
    BY <1>3, <1>6 DEF tables
  <2>2. Moves(w) /\ mishap'[q]
    BY <1>2, <1>6, CatchMoves DEF Inv, Knows
  <2>3. OwnInOrder(w)
    BY <2>2 DEF OwnInOrder
  <2> QED
    BY <1>3, <2>1, <2>2, <2>3, ReadKeepsInv
<1>7. CASE UNCHANGED link /\ call[w].status # "posted" /\ Return(w) /\ UNCHANGED mishap
  <2>1. UNCHANGED tables
    BY <1>3, <1>7 DEF tables
  <2>2. Moves(w) /\ call'[w].request = "none"
    BY <1>7, ReturnMoves DEF Inv, Tidy, TypeOK
  <2>3. OwnInOrder(w)
    <3> SUFFICES ASSUME ~mishap'[q] PROVE (Settled(q) /\ Mirrored(q))'
      BY <2>2, RequestsAssumption DEF OwnInOrder
    <3>1. Settled(q) /\ Mirrored(q)
      BY <1>4, <1>7 DEF Settled
    <3> QED
      BY <2>1, <3>1, TablesAlone
  <2> QED
    BY <1>3, <2>1, <2>2, <2>3, ReadKeepsInv
<1> QED
  BY <1>5, <1>6, <1>7 DEF InsertLink, Continue

LEMMA MirrorKeepsInv ==
  ASSUME Inv, NEW w \in Workers, Moves(w), OwnInOrder(w),
         UNCHANGED <<converted, locked, lines, link>>, calls' \in Nat, faults' \in Nat,
         bridgeStatus' \in [Requests -> LinkStatus],
         \A r \in Requests : r # call[w].request => bridgeStatus'[r] = bridgeStatus[r]
  PROVE  Inv'
<1>1. \A r \in Requests : PostedLines(r)' = PostedLines(r) /\ Exists(r)' = Exists(r)
  BY DEF PostedLines, Exists, NoLink
<1>2. RowsKept /\ OthersKept(w)
  BY <1>1 DEF RowsKept, OthersKept
<1>3. TypeOK'
  BY DEF Inv, Tidy, TypeOK, LineRow, Moves
<1>4. LinkOwnsLine'
  BY <1>1 DEF Inv, Tidy, LinkOwnsLine
<1> QED
  BY <1>2, <1>3, <1>4, StepKeepsInv

LEMMA MirrorStatusKeepsInv ==
  ASSUME Inv, NEW w \in Workers, MirrorStatus(w)
  PROVE  Inv'
<1>1. call[w].at = "mirror" /\ call[w] # Idle
  BY DEF MirrorStatus, At, Idle
<1> PICK q \in Requests : q = call[w].request
  BY <1>1, AtWork
<1>2. /\ call[w] \in Call /\ Knows(call[w])
      /\ ~mishap[q] => OnTrack(call[w], q)
  BY <1>1, AtWork
<1>3. /\ UNCHANGED <<converted, locked, lines, link>> /\ calls' \in Nat /\ faults' \in Nat
      /\ bridgeStatus' = [bridgeStatus EXCEPT ![q] = call[w].status]
  BY DEF MirrorStatus, Inv, Tidy, TypeOK
<1>4. /\ bridgeStatus' \in [Requests -> LinkStatus] /\ bridgeStatus'[q] = call[w].status
      /\ \A r \in Requests : r # q => bridgeStatus'[r] = bridgeStatus[r]
      /\ \A r \in Requests : PostedLines(r)' = PostedLines(r) /\ Exists(r)' = Exists(r)
  BY <1>2, <1>3 DEF Inv, Tidy, TypeOK, Call, PostedLines, Exists, NoLink
<1>5. ASSUME ~mishap[q] PROVE (Settled(q) /\ Mirrored(q))'
  <2>1. Settled(q) /\ link[q].status = call[w].status
    BY <1>1, <1>2, <1>5 DEF OnTrack
  <2>2. Exists(q)
    BY <1>2, <2>1 DEF Exists, NoLink, Call, LinkStatus
  <2> QED
    BY <1>3, <1>4, <2>1, <2>2 DEF Settled, Mirrored
<1>6. CASE Goto(w, "notify") /\ UNCHANGED mishap
  <2>1. /\ call' \in [Workers -> Call] /\ \A v \in Workers \ {w} : call'[v] = call[v]
        /\ call'[w].request = q /\ call'[w].at = "notify"
        /\ call'[w].status = call[w].status /\ call'[w].line = call[w].line
    BY <1>2, <1>6 DEF Goto, Continue, Inv, Tidy, TypeOK, Call, Step
  <2>2. Moves(w)
    <3>1. Knows(call[w])'
      BY <1>2, <1>3, <2>1, RequestsAssumption DEF Knows, OnLink, Written
    <3> QED
      BY <1>6, <2>1, <3>1, GoesOn DEF Inv
  <2>3. OwnInOrder(w)
    BY <1>5, <1>6, <2>1 DEF OwnInOrder, OnTrack
  <2> QED
    BY <1>3, <1>4, <2>2, <2>3, MirrorKeepsInv
<1>7. CASE Finish(w)
  <2>1. Moves(w) /\ \A r \in Requests : r = q /\ call'[w].request = r => mishap'[r]
    BY <1>7, FinishMoves DEF Inv
  <2>2. OwnInOrder(w)
    BY <1>5, <2>1 DEF OwnInOrder, Moves
  <2> QED
    BY <1>3, <1>4, <2>1, <2>2, MirrorKeepsInv
<1> QED
  BY <1>6, <1>7 DEF MirrorStatus

LEMMA ReverseLinkKeepsInv ==
  ASSUME Inv, NEW w \in Workers, ReverseLink(w)
  PROVE  Inv'
<1>1. call[w].at = "reverse_link" /\ call[w] # Idle
  BY DEF ReverseLink, At, Idle
<1> PICK q \in Requests : q = call[w].request
  BY <1>1, AtWork
<1>2. /\ call[w] \in Call /\ Knows(call[w])
      /\ ~mishap[q] => OnTrack(call[w], q)
  BY <1>1, AtWork
<1>3. /\ UNCHANGED <<converted, locked, lines, bridgeStatus, mishap>>
      /\ calls' \in Nat /\ faults' \in Nat
  BY DEF ReverseLink, Inv, Tidy, TypeOK
<1>4. Exists(q) /\ link[q] \in LinkRow
  BY <1>1, <1>2 DEF Knows, OnLink, Exists, Inv, Tidy, TypeOK
<1> DEFINE l == [link[q] EXCEPT !.status = "reversed"]
<1>5. l \in LinkRow /\ l.status = "reversed" /\ l.line = link[q].line /\ l.code = link[q].code
  BY <1>4 DEF LinkRow, LinkStatus
<1>6. link' = [link EXCEPT ![q] = l]
  BY DEF ReverseLink
<1> HIDE DEF l
<1>7. /\ link' \in [Requests -> LinkRow \cup {NoLink}] /\ link'[q] = l
      /\ LinkOwnsLine' /\ RowsKept /\ Exists(q)'
      /\ \A r \in Requests : r # q => link'[r] = link[r]
      /\ \A r \in Requests : PostedLines(r)' = PostedLines(r)
  <2>1. /\ l.line # 0 => l.line \in DOMAIN lines /\ lines[l.line].request = q
        /\ \A r \in Requests \ {q} : link[r].code # l.code
    BY <1>4, <1>5 DEF Inv, Tidy, LinkOwnsLine
  <2>2. l \in LinkRow /\ l.status # "posted" /\ UNCHANGED lines /\ Tidy
    BY <1>3, <1>5 DEF Inv
  <2> QED
    BY <1>6, <2>1, <2>2, LinkWrite
<1>8. /\ call' \in [Workers -> Call] /\ \A v \in Workers \ {w} : call'[v] = call[v]
      /\ call'[w].request = q /\ call'[w].at = "reverse_mirror"
      /\ call'[w].status = call[w].status /\ call'[w].line = call[w].line
  <2>1. call' = [call EXCEPT ![w] = [call[w] EXCEPT !.at = "reverse_mirror"]]
    BY DEF ReverseLink, Goto, Continue
  <2> QED
    BY <1>2, <2>1 DEF Inv, Tidy, TypeOK, Call, Step
<1>9. Moves(w)
  <2>1. Knows(call[w])'
    BY <1>1, <1>2, <1>3, <1>7, <1>8, RequestsAssumption DEF Knows, OnLink, Written
  <2> QED
    BY <1>3, <1>8, <2>1, GoesOn DEF Inv
<1>10. OthersKept(w)
  BY <1>3, <1>7 DEF OthersKept
<1>11. OwnInOrder(w)
  <2> SUFFICES ASSUME ~mishap'[q] PROVE OnTrack(call[w], q)'
    BY <1>8 DEF OwnInOrder
  <2>1. PostedLines(q)' = {}
    BY <1>1, <1>2, <1>3, <1>7 DEF OnTrack
  <2> QED
    BY <1>5, <1>7, <1>8, <2>1 DEF OnTrack, Settled
<1>12. TypeOK'
  BY <1>3, <1>7, <1>8 DEF Inv, Tidy, TypeOK, LineRow, LinkRow, NoLink
<1> QED
  BY <1>7, <1>9, <1>10, <1>11, <1>12, StepKeepsInv

LEMMA ReverseMirrorKeepsInv ==
  ASSUME Inv, NEW w \in Workers, ReverseMirror(w)
  PROVE  Inv'
<1>1. call[w].at = "reverse_mirror" /\ call[w] # Idle
  BY DEF ReverseMirror, At, Idle
<1> PICK q \in Requests : q = call[w].request
  BY <1>1, AtWork
<1>2. /\ Knows(call[w])
      /\ ~mishap[q] => OnTrack(call[w], q)
  BY <1>1, AtWork
<1>3. /\ UNCHANGED <<converted, locked, lines, link, mishap>>
      /\ calls' \in Nat /\ faults' \in Nat
      /\ bridgeStatus' = [bridgeStatus EXCEPT ![q] = "reversed"]
  BY DEF ReverseMirror, Inv, Tidy, TypeOK
<1>4. /\ bridgeStatus' \in [Requests -> LinkStatus] /\ bridgeStatus'[q] = "reversed"
      /\ \A r \in Requests : r # q => bridgeStatus'[r] = bridgeStatus[r]
      /\ \A r \in Requests : PostedLines(r)' = PostedLines(r) /\ Exists(r)' = Exists(r)
  BY <1>3 DEF Inv, Tidy, TypeOK, LinkStatus, PostedLines, Exists, NoLink
<1>5. Moves(w) /\ call'[w].request = "none"
  BY <1>3, ReturnMoves DEF ReverseMirror, Inv, Tidy, TypeOK
<1>6. OwnInOrder(w)
  <2> SUFFICES ASSUME ~mishap[q] PROVE (Settled(q) /\ Mirrored(q))'
    BY <1>3, <1>5, RequestsAssumption DEF OwnInOrder
  <2>1. Settled(q) /\ link[q].status = "reversed" /\ Exists(q)
    BY <1>1, <1>2 DEF OnTrack, Knows, OnLink
  <2> QED
    BY <1>3, <1>4, <2>1 DEF Settled, Mirrored
<1> QED
  BY <1>3, <1>4, <1>5, <1>6, MirrorKeepsInv

------------------------------------------------------------------------------
(* What others do, and the whole *)

LEMMA AmbientKeepsInv ==
  ASSUME Inv,
         UNCHANGED <<lines, link, bridgeStatus, call, faults, mishap>>, calls' = calls,
         converted' \subseteq Requests, locked' \in BOOLEAN
  PROVE  Inv'
<1>1. \A r \in Requests : /\ PostedLines(r)' = PostedLines(r) /\ Settled(r)' = Settled(r)
                          /\ Mirrored(r)' = Mirrored(r) /\ Exists(r)' = Exists(r)
  BY DEF PostedLines, Settled, Mirrored, Exists, NoLink
<1>2. TypeOK' /\ LinkOwnsLine'
  BY <1>1 DEF Inv, Tidy, TypeOK, LinkOwnsLine, LineRow
<1>3. KnowsAll'
  BY <1>1 DEF Inv, Tidy, KnowsAll, Knows, Idle
<1>4. ASSUME NEW r \in Requests, ~mishap[r] PROVE Orderly(r)'
  <2>1. Orderly(r)
    BY <1>4 DEF Inv
  <2>2. Alone(r)'
    BY <2>1 DEF Orderly, Alone
  <2>3. ASSUME NEW w \in Workers, call[w].request = r PROVE OnTrack(call[w], r)'
    <3>1. OnTrack(call[w], r)
      BY <2>1, <2>3 DEF Orderly
    <3> QED
      BY <1>1, <3>1 DEF OnTrack
  <2>4. Busy(r)' = Busy(r)
    BY DEF Busy
  <2> QED
    BY <1>1, <2>1, <2>2, <2>3, <2>4 DEF Orderly
<1> QED
  BY <1>2, <1>3, <1>4 DEF Inv, Tidy

LEMMA InitInv == Init => Inv
<1> SUFFICES ASSUME Init PROVE Inv
  OBVIOUS
<1>1. Idle \in Call /\ Knows(Idle)
  BY RequestsAssumption DEF Idle, Call, Step, LinkStatus, Knows, OnLink, Written
<1>2. TypeOK
  <2>1. lines \in Seq(LineRow)
    BY DEF Init
  <2>2. link \in [Requests -> LinkRow \cup {NoLink}] /\ mishap \in [Requests -> BOOLEAN]
    BY DEF Init
  <2>3. bridgeStatus \in [Requests -> LinkStatus]
    BY DEF Init, LinkStatus
  <2>4. call \in [Workers -> Call]
    BY <1>1 DEF Init
  <2>5. converted \subseteq Requests /\ {calls, faults} \subseteq Nat
    BY DEF Init
  <2>6. locked \in BOOLEAN
    BY Zenon DEF Init
  <2> QED
    BY <2>1, <2>2, <2>3, <2>4, <2>5, <2>6 DEF TypeOK
<1>3. LinkOwnsLine
  BY DEF Init, LinkOwnsLine, Exists
<1>4. KnowsAll
  BY <1>1 DEF Init, KnowsAll
<1>5. ASSUME NEW r \in Requests PROVE Orderly(r)
  <2>1. \A w \in Workers : call[w].request # r
    BY RequestsAssumption DEF Init, Idle
  <2>2. Settled(r) /\ Mirrored(r)
    BY DEF Init, Settled, Mirrored, PostedLines, Exists, NoLink
  <2> QED
    BY <2>1, <2>2 DEF Orderly, Alone
<1> QED
  BY <1>2, <1>3, <1>4, <1>5 DEF Inv, Tidy

LEMMA NextInv == Inv /\ [Next]_vars => Inv'
<1> SUFFICES ASSUME Inv, [Next]_vars PROVE Inv'
  OBVIOUS
<1>1. ASSUME NEW w \in Workers,
             (\E r \in Requests : StartPost(w, r) \/ StartReverse(w, r)) \/ StartBatch(w)
      PROVE  Inv'
  BY <1>1, StartKeepsInv
<1>2. ASSUME NEW w \in Workers, Post(w) PROVE Inv'
  BY <1>2, ReadContextKeepsInv, ReadLinkKeepsInv, ReadPeriodKeepsInv, InsertLineKeepsInv,
     FindLinkKeepsInv, UpdateLinkKeepsInv, InsertLinkKeepsInv, MirrorStatusKeepsInv,
     NotifyKeepsInv DEF Post
<1>3. ASSUME NEW w \in Workers, Reverse(w) PROVE Inv'
  BY <1>3, ReverseReadKeepsInv, ReverseLineKeepsInv, ReverseLinkKeepsInv,
     ReverseMirrorKeepsInv DEF Reverse
<1>4. ASSUME NEW w \in Workers, Die(w) \/ StatementRaises(w) PROVE Inv'
  BY <1>4, FaultKeepsInv
<1>5. ASSUME (\E r \in Requests : Convert(r)) \/ SetPeriodStatus \/ UNCHANGED vars PROVE Inv'
  <2>1. /\ UNCHANGED <<lines, link, bridgeStatus, call, faults, mishap>> /\ calls' = calls
        /\ converted' \subseteq Requests /\ locked' \in BOOLEAN
    BY <1>5 DEF Convert, SetPeriodStatus, vars, tables, Inv, Tidy, TypeOK
  <2> QED
    BY <2>1, AmbientKeepsInv
<1> QED
  BY <1>1, <1>2, <1>3, <1>4, <1>5 DEF Next

LEMMA InvHolds == Spec => []Inv
BY InitInv, NextInv, PTL DEF Spec

------------------------------------------------------------------------------

\* Tables and call records keep their types.
THEOREM BridgeTypes == Spec => []TypeOK
<1>1. Inv => TypeOK
  BY DEF Inv, Tidy
<1> QED
  BY InvHolds, <1>1, PTL

\* However many post, reverse and die at once, a link never points at a line of
\* another request, never says posted without one, and has a code of its own.
THEOREM LinksOwnLines == Spec => []LinkOwnsLine
<1>1. Inv => LinkOwnsLine
  BY DEF Inv, Tidy
<1> QED
  BY InvHolds, <1>1, PTL

\* The revenue of a request counts at most once, however often it is posted and
\* reversed, unless two invocations met on it or one was interrupted.
THEOREM CountsOnce == Spec => []RevenueCountsOnce
<1>1. Inv => RevenueCountsOnce
  <2> SUFFICES ASSUME Inv, NEW r \in Requests, ~mishap[r] PROVE CountedOnce(r)
    BY DEF RevenueCountsOnce
  <2>1. Orderly(r) /\ call \in [Workers -> Call]
    BY DEF Inv, Tidy, TypeOK
  <2>2. ASSUME Settled(r) PROVE CountedOnce(r)
    BY <2>2 DEF Settled, CountedOnce
  <2>3. ASSUME NEW w \in Workers, call[w].request = r PROVE CountedOnce(r)
    <3>1. OnTrack(call[w], r) /\ call[w] \in Call /\ Knows(call[w])
      BY <2>1, <2>3 DEF Orderly, Inv, Tidy, KnowsAll
    <3>2. call[w].at # "idle"
      BY <3>1, <2>3, RequestsAssumption DEF Knows
    <3>3. Settled(r) \/ \E k : PostedLines(r) \subseteq {k}
      BY <3>1, <3>2 DEF OnTrack, Call, Step
    <3> QED
      BY <2>2, <3>3 DEF CountedOnce
  <2> QED
    BY <2>1, <2>2, <2>3 DEF Orderly, Busy
<1> QED
  BY InvHolds, <1>1, PTL

\* At rest, ledger, link and request agree on every such request.
THEOREM BridgeAgrees == Spec => []LedgerAgrees
<1>1. Inv => LedgerAgrees
  BY DEF Inv, LedgerAgrees, Orderly, Settled, Mirrored
<1> QED
  BY InvHolds, <1>1, PTL

\* No step of anybody touches the lines of a closed period.
THEOREM ClosedStaysClosed == Spec => ClosedPeriodFrozen
<1>1. [Next]_vars => [locked => lines' = lines]_vars
  BY DEF Next, Post, Reverse, StartPost, StartReverse, StartBatch, Starting, Reading, tables, vars,
         ReadContext, ReadLink, ReadPeriod, InsertLine, FindLink, UpdateLink, InsertLink,
         MirrorStatus, Notify, ReverseRead, ReverseLine, ReverseLink, ReverseMirror,
         Die, StatementRaises, Convert, SetPeriodStatus
<1> QED
  BY <1>1, PTL DEF Spec, ClosedPeriodFrozen

------------------------------------------------------------------------------
(* The bridge keeps the promise of RevenueLedger.  A statement either      *)
(* leaves lines and links alone and gives one request up at most, or it is *)
(* one of the five that write, and then OnTrack says where it is.          *)

\* Past the gate a posting is one of a booked request.
PastGate(c) ==
  c.at \in {"period", "line"} \/ (c.at = "link" /\ c.status = "pending") => c.request \in converted
Gated == \A w \in Workers : PastGate(call[w])

Starts(w) == (\E r \in Requests : StartPost(w, r) \/ StartReverse(w, r)) \/ StartBatch(w)
Runs(w)   == Post(w) \/ Reverse(w) \/ Die(w) \/ StatementRaises(w)

\* Workers neither convert requests nor close periods.
LEMMA WorkersLeave ==
  ASSUME NEW w \in Workers, Starts(w) \/ Runs(w)
  PROVE  converted' = converted /\ locked' = locked
<1>1. CASE Starts(w) \/ Die(w) \/ StatementRaises(w)
  BY <1>1 DEF Starts, StartPost, StartReverse, StartBatch, Starting, Die, StatementRaises, tables
<1>2. CASE Post(w)
  BY <1>2 DEF Post, Reading, ReadContext, ReadLink, ReadPeriod, InsertLine, FindLink, UpdateLink,
       InsertLink, MirrorStatus, Notify, tables
<1>3. CASE Reverse(w)
  BY <1>3 DEF Reverse, Reading, ReverseRead, ReverseLine, ReverseLink, ReverseMirror, tables
<1> QED
  BY <1>1, <1>2, <1>3 DEF Runs

\* A step of one worker keeps what the others know of the gate.
LEMMA GateOfOne ==
  ASSUME Gated, NEW w \in Workers, \A v \in Workers \ {w} : call'[v] = call[v],
         converted' = converted, PastGate(call[w])'
  PROVE  Gated'
BY DEF Gated, PastGate

\* A worker that turns to a request, or to none, has not read the gate yet.
LEMMA TurningIsBeforeGate ==
  ASSUME Tidy, NEW w \in Workers,
         \/ \E r, rest : \E step \in {"context", "reverse"} : TakeUp(w, step, r, rest)
         \/ Return(w) \/ Finish(w) \/ Catch(w)
  PROVE  (\A v \in Workers \ {w} : call'[v] = call[v]) /\ PastGate(call[w])'
<1>1. call \in [Workers -> Call] /\ call[w] \in Call
  BY DEF Tidy, TypeOK
<1>2. ASSUME NEW r, NEW rest, NEW step \in {"context", "reverse"}, TakeUp(w, step, r, rest)
      PROVE  (\A v \in Workers \ {w} : call'[v] = call[v]) /\ PastGate(call[w])'
  <2> DEFINE c == [Idle EXCEPT !.at = step, !.request = r, !.todo = rest]
  <2>1. call' = [call EXCEPT ![w] = c]
    BY <1>2 DEF TakeUp, Continue
  <2>2. c.at = step
    BY DEF Idle
  <2> HIDE DEF c
  <2> QED
    BY <1>1, <2>1, <2>2 DEF PastGate
<1>3. ASSUME Return(w)
      PROVE  (\A v \in Workers \ {w} : call'[v] = call[v]) /\ PastGate(call[w])'
  BY <1>1, <1>3 DEF Return, Continue, PastGate, Idle
<1>4. ASSUME Catch(w)
      PROVE  (\A v \in Workers \ {w} : call'[v] = call[v]) /\ PastGate(call[w])'
  BY <1>1, <1>4 DEF Catch, Continue, PastGate, Call
<1> QED
  BY <1>2, <1>3, <1>4 DEF Finish, PostNext

LEMMA GatedNext ==
  ASSUME Inv, Gated, [Next]_vars
  PROVE  Gated'
<1>1. call \in [Workers -> Call] /\ Tidy
  BY DEF Inv, Tidy, TypeOK
<1>2. ASSUME NEW w \in Workers, Starts(w) PROVE Gated'
  <2>1. converted' = converted
    BY <1>2, WorkersLeave
  <2>2. \E r, rest : \E step \in {"context", "reverse"} : TakeUp(w, step, r, rest)
    BY <1>2 DEF Starts, StartPost, StartReverse, StartBatch, PostNext
  <2> QED
    BY <1>1, <2>1, <2>2, TurningIsBeforeGate, GateOfOne
<1>3. ASSUME NEW w \in Workers, Runs(w) PROVE Gated'
  <2>1. converted' = converted
    BY <1>3, WorkersLeave
  <2>2. call[w] \in Call /\ PastGate(call[w])
    BY <1>1 DEF Gated
  <2>3. CASE Return(w) \/ Finish(w) \/ Catch(w)
    BY <1>1, <2>1, <2>3, TurningIsBeforeGate, GateOfOne
  <2>4. CASE ReadContext(w)
    <3>1. PICK s \in Gate(call[w].request) :
            call' = [call EXCEPT ![w] = [call[w] EXCEPT !.at = "link", !.status = s]]
      BY <2>4, Zenon DEF ReadContext, Continue
    <3>2. call'[w].at = "link" /\ call'[w].status = s /\ call'[w].request = call[w].request
      BY <1>1, <2>2, <3>1 DEF Call
    <3>3. s = "pending" => call[w].request \in converted
      BY DEF Gate
    <3> QED
      BY <1>1, <2>1, <3>1, <3>2, <3>3, GateOfOne DEF PastGate
  <2>5. CASE /\ ReadLink(w)
             /\ Goto(w, IF call[w].status = "pending" THEN "period" ELSE "find")
    <3>1. /\ call'[w].at = IF call[w].status = "pending" THEN "period" ELSE "find"
          /\ call'[w].request = call[w].request
          /\ \A v \in Workers \ {w} : call'[v] = call[v]
      BY <1>1, <2>2, <2>5 DEF Goto, Continue, Call
    <3> QED
      BY <2>1, <2>2, <2>5, <3>1, GateOfOne DEF PastGate, ReadLink, At
  <2>6. CASE ReadPeriod(w)
    <3>1. /\ call'[w].at \in {"find", "line"} /\ call'[w].request = call[w].request
          /\ \A v \in Workers \ {w} : call'[v] = call[v]
      BY <1>1, <2>2, <2>6 DEF ReadPeriod, Continue, Call
    <3> QED
      BY <2>1, <2>2, <2>6, <3>1, GateOfOne DEF PastGate, ReadPeriod, At
  <2>7. CASE /\ call'[w].at \notin {"link", "period", "line"}
             /\ \A v \in Workers \ {w} : call'[v] = call[v]
    BY <2>1, <2>7, GateOfOne DEF PastGate
  <2>8. ASSUME \/ \E step \in {"notify", "reverse_link", "reverse_mirror", "mirror"} : Goto(w, step)
               \/ InsertLine(w) \/ FindLink(w) \/ InsertLink(w) \/ ReverseRead(w)
        PROVE  Gated'
    <3>1. ASSUME NEW c \in {[call[w] EXCEPT !.at = "update"],
                            [call[w] EXCEPT !.at = "insert", !.code = NextCode],
                            [call[w] EXCEPT !.at = "find", !.status = "posted",
                                            !.line = Len(lines) + 1],
                            [call[w] EXCEPT !.at = "mirror", !.code = 0],
                            [call[w] EXCEPT !.at = "reverse_line",
                                            !.line = link[call[w].request].line]}
          PROVE  c.at \notin {"link", "period", "line"}
      BY <2>2, <3>1 DEF Call
    <3>2. ASSUME NEW c, c.at \notin {"link", "period", "line"}, Continue(w, c)
          PROVE  Gated'
      BY <1>1, <2>7, <3>2 DEF Continue
    <3>3. ASSUME NEW step \in {"notify", "reverse_link", "reverse_mirror", "mirror"}, Goto(w, step)
          PROVE  Gated'
      BY <1>1, <2>2, <2>7, <3>3 DEF Goto, Continue, Call
    <3> QED
      BY <2>3, <2>8, <3>1, <3>2, <3>3 DEF InsertLine, FindLink, InsertLink, ReverseRead
  <2> QED
    BY <1>3, <2>3, <2>4, <2>5, <2>6, <2>8 DEF Runs, Post, Reverse, Die, StatementRaises,
         ReadLink, UpdateLink, MirrorStatus, Notify, ReverseLine, ReverseLink, ReverseMirror
<1>4. ASSUME (\E r \in Requests : Convert(r)) \/ SetPeriodStatus \/ UNCHANGED vars
      PROVE  Gated'
  <2>1. call' = call /\ converted \subseteq converted'
    BY <1>4 DEF Convert, SetPeriodStatus, vars, tables
  <2> QED
    BY <2>1 DEF Gated, PastGate
<1> QED
  BY <1>2, <1>3, <1>4 DEF Next, Starts, Runs

\* What RevenueLedger sees.
Seen == <<converted, locked, Strayed, Counted, Shown>>

\* What a step on request q alone does to it.
LEMMA SeenOfOne ==
  ASSUME NEW q \in Requests, mishap \in [Requests -> BOOLEAN], mishap' \in [Requests -> BOOLEAN],
         \A r \in Requests \ {q} : /\ mishap'[r] = mishap[r] /\ link'[r] = link[r]
                                   /\ PostedLines(r)' = PostedLines(r)
  PROVE  /\ Counted' = [Counted EXCEPT ![q] = IF mishap'[q] THEN {} ELSE PostedLines(q)']
         /\ Shown' = [Shown EXCEPT ![q] =
              IF ~mishap'[q] /\ link'[q].status = "posted" THEN {link'[q].line} ELSE {}]
         /\ mishap'[q] => Strayed' = Strayed \cup {q}
         /\ mishap'[q] = mishap[q] => Strayed' = Strayed
<1>1. Counted' = [Counted EXCEPT ![q] = IF mishap'[q] THEN {} ELSE PostedLines(q)']
  BY DEF Counted
<1>2. Shown' = [Shown EXCEPT ![q] =
        IF ~mishap'[q] /\ link'[q].status = "posted" THEN {link'[q].line} ELSE {}]
  BY DEF Shown
<1>3. mishap'[q] => Strayed' = Strayed \cup {q}
  BY DEF Strayed
<1>4. mishap'[q] = mishap[q] => Strayed' = Strayed
  BY DEF Strayed
<1> QED
  BY <1>1, <1>2, <1>3, <1>4

\* At most one request is given up.
GivesUp ==
  \/ UNCHANGED mishap
  \/ \E q \in Requests : /\ \A r \in Requests \ {q} : mishap'[r] = mishap[r]
                         /\ mishap[q] => mishap'[q]

LEMMA GivingUp ==
  ASSUME TypeOK, TypeOK', UNCHANGED <<converted, locked, lines, link>>, GivesUp
  PROVE  [Ledger!Next]_Seen
<1>1. /\ mishap \in [Requests -> BOOLEAN] /\ mishap' \in [Requests -> BOOLEAN]
      /\ \A r \in Requests : PostedLines(r)' = PostedLines(r) /\ link'[r] = link[r]
  BY DEF TypeOK, PostedLines
<1>2. CASE UNCHANGED mishap
  BY <1>1, <1>2 DEF Seen, Strayed, Counted, Shown
<1>3. ASSUME NEW q \in Requests, \A r \in Requests \ {q} : mishap'[r] = mishap[r],
             mishap[q] => mishap'[q]
      PROVE  [Ledger!Next]_Seen
  <2>1. CASE mishap'[q]
    <3>1. /\ Counted' = [Counted EXCEPT ![q] = {}] /\ Shown' = [Shown EXCEPT ![q] = {}]
          /\ Strayed' = Strayed \cup {q}
      BY <1>1, <1>3, <2>1, SeenOfOne
    <3> QED
      BY <3>1 DEF Ledger!Next, Ledger!GiveUp
  <2>2. CASE ~mishap'[q]
    <3>1. UNCHANGED mishap
      BY <1>1, <1>3, <2>2
    <3> QED
      BY <1>2, <3>1
  <2> QED
    BY <2>1, <2>2
<1> QED
  BY <1>2, <1>3 DEF GivesUp

LEMMA WaysOfGivingUp ==
  ASSUME Tidy, NEW w \in Workers
  PROVE  /\ \A r \in Requests : \A step, rest : TakeUp(w, step, r, rest) => GivesUp
         /\ Finish(w) => GivesUp
         /\ Catch(w) => GivesUp
         /\ Die(w) => GivesUp
<1>1. mishap \in [Requests -> BOOLEAN] /\ call[w] \in Call
  BY DEF Tidy, TypeOK
<1>2. ASSUME NEW r \in Requests, NEW step, NEW rest, TakeUp(w, step, r, rest) PROVE GivesUp
  BY <1>1, <1>2 DEF TakeUp, GivesUp
<1>3. ASSUME Finish(w) PROVE GivesUp
  <2>1. call[w].todo \subseteq Requests
    BY <1>1 DEF Call
  <2> QED
    BY <1>2, <1>3, <2>1 DEF Finish, PostNext, GivesUp
<1>4. ASSUME Catch(w) PROVE GivesUp
  <2> DEFINE q == call[w].request
  <2>1. CASE q \in Requests
    BY <1>1, <1>4, <2>1 DEF Catch, GivesUp
  <2>2. CASE q \notin Requests
    BY <1>1, <1>4, <2>2 DEF Catch, GivesUp
  <2> QED
    BY <2>1, <2>2
<1>5. ASSUME Die(w) PROVE GivesUp
  <2> DEFINE q == call[w].request
  <2>1. mishap' = [r \in Requests |-> mishap[r] \/ q = r]
    BY <1>5 DEF Die
  <2>2. CASE q \in Requests
    BY <1>1, <2>1, <2>2 DEF GivesUp
  <2>3. CASE q \notin Requests
    BY <1>1, <2>1, <2>3 DEF GivesUp
  <2> QED
    BY <2>2, <2>3
<1> QED
  BY <1>2, <1>3, <1>4, <1>5

\* Statements that write neither line nor link are stutters, or give a request up.
LEMMA OthersAreUnseen ==
  ASSUME Inv, Inv', NEW w \in Workers, Starts(w) \/ Runs(w), UNCHANGED <<lines, link>>
  PROVE  [Ledger!Next]_Seen
<1>1. Tidy /\ TypeOK /\ TypeOK'
  BY DEF Inv, Tidy
<1>2. UNCHANGED <<converted, locked>>
  BY WorkersLeave
<1>3. ASSUME StartBatch(w) PROVE GivesUp
  <2>1. PICK r \in converted : \E rest : TakeUp(w, "context", r, rest)
    BY <1>3 DEF StartBatch, PostNext
  <2> QED
    BY <1>1, <2>1, WaysOfGivingUp, Zenon DEF TypeOK
<1>4. ASSUME \E r \in Requests : StartPost(w, r) \/ StartReverse(w, r) PROVE GivesUp
  BY <1>1, <1>4, WaysOfGivingUp, Zenon DEF StartPost, StartReverse
<1>5. ASSUME Runs(w) PROVE GivesUp
  <2>1. Post(w) => UNCHANGED mishap \/ Finish(w) \/ Catch(w)
    BY DEF Post, ReadContext, ReadLink, ReadPeriod, InsertLine, FindLink, UpdateLink, InsertLink,
         MirrorStatus, Notify
  <2>2. Reverse(w) => UNCHANGED mishap
    BY DEF Reverse, ReverseRead, ReverseLine, ReverseLink, ReverseMirror
  <2>3. StatementRaises(w) => Catch(w)
    BY DEF StatementRaises
  <2>4. UNCHANGED mishap => GivesUp
    BY DEF GivesUp
  <2> QED
    BY <1>1, <1>5, <2>1, <2>2, <2>3, <2>4, WaysOfGivingUp, Zenon DEF Runs
<1>6. GivesUp
  BY <1>3, <1>4, <1>5, Zenon DEF Starts
<1> QED
  BY <1>1, <1>2, <1>6, GivingUp

\* A line is inserted: the revenue of a booked request counts.
LEMMA InsertingCounts ==
  ASSUME Inv, Inv', Gated, NEW w \in Workers, InsertLine(w), lines' # lines
  PROVE  [Ledger!Next]_Seen
<1>1. call[w].at = "line" /\ call[w] # Idle
  BY DEF InsertLine, At, Idle
<1> PICK q \in Requests : q = call[w].request
  BY <1>1, AtWork
<1> DEFINE n == Len(lines) + 1
<1>2. /\ UNCHANGED <<converted, locked, link, mishap>> /\ ~locked /\ Len(lines) < MaxLines
      /\ lines' = Append(lines, [request |-> q, status |-> "posted"])
  BY DEF InsertLine
<1>3. /\ lines \in Seq(LineRow) /\ mishap \in [Requests -> BOOLEAN]
      /\ Len(lines) \in Nat /\ DOMAIN lines = 1..Len(lines) /\ MaxLines \in Nat
  BY LenProperties, BoundsAssumption DEF Inv, Tidy, TypeOK
<1>4. \A r \in Requests :
        PostedLines(r)' = IF r = q THEN PostedLines(r) \cup {n} ELSE PostedLines(r)
  <2> SUFFICES ASSUME NEW r \in Requests
               PROVE  PostedLines(r)' = IF r = q THEN PostedLines(r) \cup {n} ELSE PostedLines(r)
    OBVIOUS
  <2> QED
    BY <1>2, <1>3, LineAdded
<1>5. /\ Counted' = [Counted EXCEPT ![q] = IF mishap[q] THEN {} ELSE PostedLines(q)']
      /\ Shown' = [Shown EXCEPT ![q] =
           IF ~mishap[q] /\ link[q].status = "posted" THEN {link[q].line} ELSE {}]
      /\ Strayed' = Strayed
  <2>1. \A r \in Requests \ {q} : /\ mishap'[r] = mishap[r] /\ link'[r] = link[r]
                                  /\ PostedLines(r)' = PostedLines(r)
    BY <1>2, <1>4
  <2> QED
    BY <1>2, <1>3, <2>1, SeenOfOne
<1>6. Shown' = Shown
  BY <1>5 DEF Shown
<1>7. CASE mishap[q]
  <2>1. Counted' = Counted
    BY <1>5, <1>7 DEF Counted
  <2> QED
    BY <1>2, <1>5, <1>6, <2>1 DEF Seen
<1>8. CASE ~mishap[q]
  <2>1. PostedLines(q) = {} /\ link[q].status # "posted"
    BY <1>1, <1>8, AtWork DEF OnTrack, Settled
  <2>2. Counted[q] = {} /\ Shown[q] = {} /\ Counted' = [Counted EXCEPT ![q] = {n}]
    BY <1>4, <1>5, <1>8, <2>1 DEF Counted, Shown
  <2>3. q \in converted \ Strayed
    BY <1>1, <1>8 DEF Gated, PastGate, Strayed
  <2>4. n \in 1..MaxLines
    <3>1. Len(lines) < MaxLines /\ Len(lines) \in Nat /\ MaxLines \in Nat
      BY <1>2, <1>3, Zenon
    <3> QED
      BY <3>1
  <2>5. \A r \in Requests : n \notin Counted[r]
    BY <1>3 DEF Counted, PostedLines
  <2>6. Ledger!Count(q)
    <3> HIDE DEF n
    <3> QED
      BY <1>2, <1>5, <1>6, <2>2, <2>3, <2>4, <2>5 DEF Ledger!Count
  <2> QED
    BY <2>6 DEF Ledger!Next
<1> QED
  BY <1>3, <1>7, <1>8

\* A line is reversed: revenue that was reported is taken back.
LEMMA ReversingTakesBack ==
  ASSUME Inv, Inv', NEW w \in Workers, ReverseLine(w), lines' # lines
  PROVE  [Ledger!Next]_Seen
<1>1. call[w].at = "reverse_line" /\ call[w] # Idle
  BY DEF ReverseLine, At, Idle
<1> PICK q \in Requests : q = call[w].request
  BY <1>1, AtWork
<1> DEFINE k == call[w].line
<1>2. /\ UNCHANGED <<converted, locked, link, mishap>> /\ ~locked
      /\ lines' = [lines EXCEPT ![k].status = "reversed"]
  BY DEF ReverseLine
<1>3. /\ lines \in Seq(LineRow) /\ mishap \in [Requests -> BOOLEAN]
      /\ k \in DOMAIN lines /\ lines[k].request = q
  BY <1>1, AtWork DEF Inv, Tidy, TypeOK, Knows
<1>4. \A r \in Requests : PostedLines(r)' = PostedLines(r) \ {k}
  BY <1>2, <1>3, LineReversed
<1>5. \A r \in Requests \ {q} : k \notin PostedLines(r)
  BY <1>3 DEF PostedLines
<1>6. /\ Counted' = [Counted EXCEPT ![q] = IF mishap[q] THEN {} ELSE PostedLines(q)']
      /\ Shown' = [Shown EXCEPT ![q] =
           IF ~mishap[q] /\ link[q].status = "posted" THEN {link[q].line} ELSE {}]
      /\ Strayed' = Strayed
  <2>1. \A r \in Requests \ {q} : /\ mishap'[r] = mishap[r] /\ link'[r] = link[r]
                                  /\ PostedLines(r)' = PostedLines(r)
    BY <1>2, <1>4, <1>5
  <2> QED
    BY <1>2, <1>3, <2>1, SeenOfOne
<1>7. Shown' = Shown
  BY <1>6 DEF Shown
<1>8. CASE mishap[q]
  <2>1. Counted' = Counted
    BY <1>6, <1>8 DEF Counted
  <2> QED
    BY <1>2, <1>6, <1>7, <2>1 DEF Seen
<1>9. CASE ~mishap[q]
  <2>1. PostedLines(q) = {k} /\ link[q].status = "posted" /\ link[q].line = k
    BY <1>1, <1>9, AtWork DEF OnTrack, Settled
  <2>2. Counted[q] = {k} /\ Shown[q] = {k} /\ Counted' = [Counted EXCEPT ![q] = {}]
    BY <1>4, <1>6, <1>9, <2>1 DEF Counted, Shown
  <2>3. Ledger!TakeBack(q)
    <3> HIDE DEF k
    <3> QED
      BY <1>2, <1>6, <1>7, <2>2 DEF Ledger!TakeBack
  <2> QED
    BY <2>3 DEF Ledger!Next
<1> QED
  BY <1>3, <1>8, <1>9

\* A link is written: it reports what counts.
LEMMA WritingLinksShows ==
  ASSUME Inv, Inv', NEW w \in Workers, UpdateLink(w) \/ InsertLink(w) \/ ReverseLink(w),
         link' # link
  PROVE  [Ledger!Next]_Seen
<1>1. call[w].at \in {"update", "insert", "reverse_link"} /\ call[w] # Idle
  BY DEF UpdateLink, InsertLink, ReverseLink, At, Idle
<1> PICK q \in Requests : q = call[w].request
  BY <1>1, AtWork
<1>2. /\ call[w] \in Call /\ Knows(call[w])
      /\ ~mishap[q] => OnTrack(call[w], q)
  BY <1>1, AtWork
<1>3. UNCHANGED <<converted, locked, lines, mishap>>
  BY DEF UpdateLink, InsertLink, ReverseLink
<1>4. /\ link \in [Requests -> LinkRow \cup {NoLink}] /\ mishap \in [Requests -> BOOLEAN]
      /\ \A r \in Requests : PostedLines(r)' = PostedLines(r)
  BY <1>3 DEF Inv, Tidy, TypeOK, PostedLines
<1>5. /\ \A r \in Requests \ {q} : link'[r] = link[r]
      /\ call[w].at = "reverse_link" => link'[q].status = "reversed"
      /\ call[w].at # "reverse_link" =>
           /\ link'[q].status = call[w].status
           /\ call[w].line # 0 => link'[q].line = call[w].line
  <2>1. CASE UpdateLink(w)
    <3>1. Exists(q) /\ link[q] \in LinkRow
      BY <1>2, <1>4, <2>1 DEF UpdateLink, At, Knows, OnLink, Exists
    <3> QED
      BY <1>4, <2>1, <3>1 DEF UpdateLink, At, LinkRow
  <2>2. CASE InsertLink(w)
    BY <1>4, <2>2 DEF InsertLink, At
  <2>3. CASE ReverseLink(w)
    <3>1. Exists(q) /\ link[q] \in LinkRow
      BY <1>2, <1>4, <2>3 DEF ReverseLink, At, Knows, OnLink, Exists
    <3> QED
      BY <1>4, <2>3, <3>1 DEF ReverseLink, At, LinkRow
  <2> QED
    BY <2>1, <2>2, <2>3
<1>6. /\ Counted' = [Counted EXCEPT ![q] = IF mishap[q] THEN {} ELSE PostedLines(q)]
      /\ Shown' = [Shown EXCEPT ![q] =
           IF ~mishap[q] /\ link'[q].status = "posted" THEN {link'[q].line} ELSE {}]
      /\ Strayed' = Strayed
  BY <1>3, <1>4, <1>5, SeenOfOne
<1>7. Counted' = Counted
  BY <1>6 DEF Counted
<1>8. ASSUME ~mishap[q]
      PROVE  PostedLines(q) = IF link'[q].status = "posted" THEN {link'[q].line} ELSE {}
  <2>1. CASE call[w].at = "reverse_link"
    BY <1>2, <1>5, <1>8, <2>1 DEF OnTrack
  <2>2. CASE call[w].at # "reverse_link"
    BY <1>1, <1>2, <1>5, <1>8, <2>2 DEF OnTrack, Knows
  <2> QED
    BY <2>1, <2>2
<1>9. Shown' = [Shown EXCEPT ![q] = Counted[q]]
  <2>1. Counted[q] = IF ~mishap[q] /\ link'[q].status = "posted" THEN {link'[q].line} ELSE {}
    BY <1>8 DEF Counted
  <2> QED
    BY <1>6, <2>1
<1>10. Ledger!Show(q)
  BY <1>3, <1>6, <1>7, <1>9 DEF Ledger!Show
<1> QED
  BY <1>10 DEF Ledger!Next

LEMMA LedgerStep ==
  ASSUME Inv, Gated, [Next]_vars
  PROVE  [Ledger!Next]_Seen
<1>1. Inv'
  BY NextInv
<1>2. ASSUME NEW w \in Workers, Starts(w) \/ Runs(w) PROVE [Ledger!Next]_Seen
  <2>1. CASE Starts(w) \/ Die(w) \/ StatementRaises(w)
    <3>1. UNCHANGED <<lines, link>>
      BY <2>1 DEF Starts, StartPost, StartReverse, StartBatch, Starting, Die, StatementRaises, tables
    <3> QED
      BY <1>1, <1>2, <3>1, OthersAreUnseen
  <2>2. CASE Post(w)
    <3>1. \/ UNCHANGED <<lines, link>>
          \/ InsertLine(w) /\ lines' # lines
          \/ (UpdateLink(w) \/ InsertLink(w)) /\ link' # link
      BY <2>2 DEF Post, Reading, ReadContext, ReadLink, ReadPeriod, InsertLine, FindLink,
           UpdateLink, InsertLink, MirrorStatus, Notify, tables
    <3> QED
      BY <1>1, <1>2, <3>1, OthersAreUnseen, InsertingCounts, WritingLinksShows
  <2>3. CASE Reverse(w)
    <3>1. \/ UNCHANGED <<lines, link>>
          \/ ReverseLine(w) /\ lines' # lines
          \/ ReverseLink(w) /\ link' # link
      BY <2>3 DEF Reverse, Reading, ReverseRead, ReverseLine, ReverseLink, ReverseMirror, tables
    <3> QED
      BY <1>1, <1>2, <3>1, OthersAreUnseen, ReversingTakesBack, WritingLinksShows
  <2> QED
    BY <1>2, <2>1, <2>2, <2>3 DEF Runs
<1>3. ASSUME (\E r \in Requests : Convert(r)) \/ SetPeriodStatus \/ UNCHANGED vars
      PROVE  [Ledger!Next]_Seen
  <2>1. UNCHANGED <<Strayed, Counted, Shown>>
    BY <1>3 DEF Convert, SetPeriodStatus, vars, tables, Strayed, Counted, Shown, PostedLines
  <2> QED
    BY <1>3, <2>1 DEF Convert, SetPeriodStatus, vars, tables, Seen,
         Ledger!Next, Ledger!Book, Ledger!SetPeriod
<1> QED
  BY <1>2, <1>3 DEF Next, Starts, Runs

\* Lines and links, each written in a statement of its own by postings, batches
\* and reversals that overlap, die and raise, are seen from outside as
\* RevenueLedger: only a booked request counts, once, in an open period; only
\* what was reported is taken back.  Requests on which two invocations met, or
\* one was interrupted, are given up, and do not affect the others.
THEOREM BridgeImplementsLedger == Spec => LedgerSpec
<1>1. Init => Ledger!Init /\ Gated
  <2>1. ASSUME Init PROVE Ledger!Init
    BY <2>1 DEF Init, Ledger!Init, Strayed, Counted, Shown, PostedLines, NoLink
  <2>2. ASSUME Init PROVE Gated
    BY <2>2 DEF Init, Gated, PastGate, Idle
  <2> QED
    BY <2>1, <2>2
<1>2. Inv /\ Gated /\ [Next]_vars => Gated' /\ [Ledger!Next]_Seen
  BY GatedNext, LedgerStep
<1> QED
  BY <1>1, <1>2, InvHolds, PTL DEF Spec, LedgerSpec, Ledger!Spec, Ledger!ledger, Seen

==============================================================================
