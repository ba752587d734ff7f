------------------------ MODULE OwnerStatementsProofs ------------------------
(***************************************************************************)
(* The invariants of OwnerStatements for any sets of subjects and workers  *)
(* and any bounds.                                                         *)
(*                                                                         *)
(* Types rest on what an invocation in flight knows whatever others do     *)
(* (Knows): rows never vanish and never change their subject.  The rest    *)
(* is said of subjects without mishap (Orderly): at most one invocation is *)
(* at work on such a subject, and the step it is at says how far totals,   *)
(* lines and revisions have come apart (OnTrack).                          *)
(***************************************************************************)
EXTENDS OwnerStatements, SequenceTheorems, FiniteSetTheorems, TLAPS

------------------------------------------------------------------------------
(* The inductive invariant *)

\* The steps that concern one statement, a revision, payout lines.
OnOne     == {"header", "wipe", "lines", "auto_approve", "auto_send", "set_status", "send",
              "own", "reissue", "copy", "copy_lines", "supersede", "line_new"}
Revising  == {"copy", "copy_lines", "supersede"}
OnPayouts == {"line_check", "line_set", "batch_check", "batch_pay"}

Knows(c) ==
  /\ c.at = "idle" => c.on = {}
  /\ c.at \in {"existing", "insert"} => \E x \in Subjects : c.on = {x}
  /\ c.at \in OnOne => c.stmt \in DOMAIN stmts /\ c.on = {stmts[c.stmt].subject}
  /\ c.at \in Revising => /\ c.new \in DOMAIN stmts /\ c.stmt < c.new
                          /\ stmts[c.new].subject = stmts[c.stmt].subject
  /\ c.at = "own" => c.to \in {"viewed", "acknowledged", "disputed"}
  /\ c.at = "sweep" => c.rows \subseteq DOMAIN stmts /\ c.on = {stmts[s].subject : s \in c.rows}
  /\ c.at \in OnPayouts =>
       c.rows \subseteq DOMAIN payouts /\ c.on = {SubjectOf(p) : p \in c.rows}
  /\ c.at \in {"line_check", "line_set"} => c.to \in LineStatus

KnowsAll == \A w \in Workers : Knows(call[w])

\* The columns that tell where a statement stands.
Linked(x) ==
  \A s \in Of(x) : /\ stmts[s].thread <=> stmts[s].owner \in {"disputed", "superseded"}
                   /\ stmts[s].next # 0 <=> stmts[s].owner = "superseded"

Told(S)  == \A s \in S : stmts[s].lines = <<stmts[s].totals>>
Chain(S) ==
  \A r, s \in S : /\ Live(r) /\ Live(s) => r = s
                  /\ ~Live(s) => stmts[s].next \in S /\ s < stmts[s].next
                  /\ ~Live(r) /\ ~Live(s) /\ stmts[r].next = stmts[s].next => r = s
Rest(x) == Chain(Of(x)) /\ Told(Of(x))

\* How far the worker with call record c has come with subject x.
OnTrack(c, x) ==
  /\ c.at \notin {"wipe", "lines"} \cup Revising => Rest(x)
  /\ c.at = "insert" => Of(x) = {}
  /\ c.at \in {"header", "wipe", "lines"} => stmts[c.stmt].status = "draft"
  /\ c.at \in {"wipe", "lines"} =>
       Chain(Of(x)) /\ Told(Of(x) \ {c.stmt}) /\ stmts[c.stmt].totals = c.seen
  /\ c.at = "lines" => stmts[c.stmt].lines = <<>>
  /\ c.at = "set_status" /\ c.to = "draft" => stmts[c.stmt].status = "draft"
  /\ c.at = "own" => c.to \in OwnerMoves(stmts[c.stmt].owner)
  /\ c.at = "sweep" => \A s \in Of(x) : s \in c.rows => Awaiting(s)
  /\ c.at \in {"reissue"} \cup Revising =>
       stmts[c.stmt].owner = "disputed" /\ stmts[c.stmt].totals = c.seen
  /\ c.at \in Revising =>
       /\ Chain(Of(x) \ {c.new}) /\ Told(Of(x) \ {c.new})
       /\ Live(c.new) /\ stmts[c.new].status = "draft" /\ stmts[c.new].totals = c.seen
       /\ stmts[c.new].lines = IF c.at = "supersede" THEN <<c.seen>> ELSE <<>>
  /\ c.at = "copy_lines" => c.copy = <<c.seen>>
  /\ (c.at = "line_set" /\ c.to = "paid") \/ c.at = "batch_pay" =>
       \A p \in c.rows : SubjectOf(p) = x => ~Disputed(payouts[p].stmt)

Alone(x)   == \A v, w \in Workers : x \in call[v].on /\ x \in call[w].on => v = w
Orderly(x) == /\ Alone(x) /\ Linked(x)
              /\ \A w \in Workers : x \in call[w].on => OnTrack(call[w], x)
              /\ ~Busy(x) => Rest(x)

Inv == TypeOK /\ KnowsAll /\ \A x \in Subjects : ~mishap[x] => Orderly(x)

\* What the two action properties say of one step.
Frozen ==
  \A s \in DOMAIN stmts :
    stmts[s].status # "draft" /\ ~mishap'[stmts[s].subject] =>
      /\ stmts'[s].status # "draft"
      /\ stmts'[s].totals = stmts[s].totals /\ stmts'[s].lines = stmts[s].lines
Held ==
  \A p \in DOMAIN payouts :
    BecomesPaid(p) /\ ~mishap'[SubjectOf(p)] => ~UnderDispute(payouts[p].stmt)

------------------------------------------------------------------------------
(* What a step may do to the rows *)

\* Rows never vanish and keep their subject.
RowsKept ==
  /\ \A s \in DOMAIN stmts : s \in DOMAIN stmts' /\ stmts'[s].subject = stmts[s].subject
  /\ \A p \in DOMAIN payouts : p \in DOMAIN payouts' /\ payouts'[p].stmt = payouts[p].stmt

\* Nothing the invariant speaks of changes about statement s, about subject x.
Same(s) ==
  /\ stmts'[s].subject = stmts[s].subject /\ stmts'[s].status = stmts[s].status
  /\ stmts'[s].owner = stmts[s].owner /\ stmts'[s].thread = stmts[s].thread
  /\ stmts'[s].next = stmts[s].next /\ stmts'[s].totals = stmts[s].totals
  /\ stmts'[s].lines = stmts[s].lines
Untouched(x) == Of(x)' = Of(x) /\ \A s \in Of(x) : Same(s)

LEMMA UntouchedRows ==
  ASSUME NEW x \in Subjects, Untouched(x)
  PROVE  /\ Linked(x)' = Linked(x) /\ Rest(x)' = Rest(x)
         /\ \A S \in SUBSET Of(x) : Chain(S)' = Chain(S) /\ Told(S)' = Told(S)
<1>1. \A S \in SUBSET Of(x) : Chain(S)' = Chain(S) /\ Told(S)' = Told(S)
  BY DEF Untouched, Same, Chain, Told, Live
<1>2. Linked(x)' = Linked(x)
  BY DEF Untouched, Same, Linked
<1>3. Rest(x)' = Rest(x)
  BY <1>1 DEF Rest, Untouched
<1> QED
  BY <1>1, <1>2, <1>3

\* A worker that others leave its subject to stays on track.
LEMMA UntouchedTrack ==
  ASSUME TypeOK, NEW x \in Subjects, NEW w \in Workers, Knows(call[w]), x \in call[w].on,
         OnTrack(call[w], x), Untouched(x), RowsKept, call'[w] = call[w]
  PROVE  OnTrack(call[w], x)'
<1> DEFINE c == call[w]
<1>0. /\ \A S \in SUBSET Of(x) : Chain(S)' = Chain(S) /\ Told(S)' = Told(S)
      /\ Rest(x)' = Rest(x) /\ Of(x)' = Of(x)
  BY UntouchedRows DEF Untouched
<1>1. c.at \in OnOne => c.stmt \in Of(x)
  BY DEF Knows, Of
<1>2. c.at \in Revising => c.new \in Of(x)
  BY <1>1 DEF Knows, Of, OnOne, Revising
<1>3. \A s \in Of(x) : Same(s) /\ Live(s)' = Live(s) /\ Awaiting(s)' = Awaiting(s)
                       /\ Disputed(s)' = Disputed(s)
  BY DEF Untouched, Same, Live, Awaiting, Disputed
<1>4. c.at \in OnPayouts => \A p \in c.rows : /\ p \in DOMAIN payouts /\ SubjectOf(p)' = SubjectOf(p)
                                              /\ payouts'[p].stmt = payouts[p].stmt
                                              /\ SubjectOf(p) = x => payouts[p].stmt \in Of(x)
  BY DEF Knows, TypeOK, SubjectOf, RowsKept, Of
<1>a. c.at \notin {"wipe", "lines"} \cup Revising => Rest(x)'
  BY <1>0 DEF OnTrack
<1>b. c.at = "insert" => Of(x)' = {}
  BY <1>0 DEF OnTrack
<1>c. c.at \in {"header", "wipe", "lines"} => stmts'[c.stmt].status = "draft"
  BY <1>1, <1>3 DEF OnTrack, OnOne, Same
<1>d. c.at \in {"wipe", "lines"} =>
        (Chain(Of(x)) /\ Told(Of(x) \ {c.stmt}))' /\ stmts'[c.stmt].totals = c.seen
  <2>1. Chain(Of(x))' = Chain(Of(x)) /\ Told(Of(x) \ {c.stmt})' = Told(Of(x) \ {c.stmt})
    BY <1>0
  <2> QED
    BY <1>1, <1>3, <2>1 DEF OnTrack, OnOne, Same
<1>e. c.at = "lines" => stmts'[c.stmt].lines = <<>>
  BY <1>1, <1>3 DEF OnTrack, OnOne, Same
<1>f. c.at = "set_status" /\ c.to = "draft" => stmts'[c.stmt].status = "draft"
  BY <1>1, <1>3 DEF OnTrack, OnOne, Same
<1>g. c.at = "own" => c.to \in OwnerMoves(stmts'[c.stmt].owner)
  BY <1>1, <1>3 DEF OnTrack, OnOne, Same
<1>h. c.at = "sweep" => \A s \in Of(x)' : s \in c.rows => Awaiting(s)'
  BY <1>0, <1>3 DEF OnTrack
<1>i. c.at \in {"reissue"} \cup Revising =>
        stmts'[c.stmt].owner = "disputed" /\ stmts'[c.stmt].totals = c.seen
  BY <1>1, <1>3 DEF OnTrack, OnOne, Revising, Same
<1>j. c.at \in Revising =>
        /\ (Chain(Of(x) \ {c.new}) /\ Told(Of(x) \ {c.new}))'
        /\ Live(c.new)' /\ stmts'[c.new].status = "draft" /\ stmts'[c.new].totals = c.seen
        /\ stmts'[c.new].lines = IF c.at = "supersede" THEN <<c.seen>> ELSE <<>>
  <2>1. Chain(Of(x) \ {c.new})' = Chain(Of(x) \ {c.new}) /\ Told(Of(x) \ {c.new})' = Told(Of(x) \ {c.new})
    BY <1>0
  <2> QED
    BY <1>2, <1>3, <2>1 DEF OnTrack, Same
<1>k. (c.at = "line_set" /\ c.to = "paid") \/ c.at = "batch_pay" =>
        \A p \in c.rows : SubjectOf(p)' = x => ~Disputed(payouts[p].stmt)'
  BY <1>3, <1>4 DEF OnTrack, OnPayouts
<1>l. c.at = "copy_lines" => c.copy = <<c.seen>>
  BY DEF OnTrack
<1> QED
  BY <1>4, <1>a, <1>b, <1>c, <1>d, <1>e, <1>f, <1>g, <1>h, <1>i, <1>j, <1>k, <1>l
     DEF OnTrack, OnPayouts, Disputed

\* What is known stays known.
LEMMA KnowledgeLasts ==
  ASSUME NEW w \in Workers, TypeOK, Knows(call[w]), RowsKept, call'[w] = call[w]
  PROVE  Knows(call[w])'
<1> DEFINE c == call[w]
<1>1. /\ c.at = "idle" => c.on = {}
      /\ c.at \in {"existing", "insert"} => \E x \in Subjects : c.on = {x}
      /\ c.at = "own" => c.to \in {"viewed", "acknowledged", "disputed"}
      /\ c.at \in {"line_check", "line_set"} => c.to \in LineStatus
  BY DEF Knows
<1>2. c.at \in OnOne => c.stmt \in DOMAIN stmts' /\ c.on = {stmts'[c.stmt].subject}
  BY DEF Knows, RowsKept
<1>3. c.at \in Revising => /\ c.new \in DOMAIN stmts' /\ c.stmt < c.new
                           /\ stmts'[c.new].subject = stmts'[c.stmt].subject
  BY DEF Knows, RowsKept, Revising, OnOne
<1>4. c.at = "sweep" =>
        c.rows \subseteq DOMAIN stmts' /\ c.on = {stmts'[s].subject : s \in c.rows}
  BY DEF Knows, RowsKept
<1>5. c.at \in OnPayouts =>
        c.rows \subseteq DOMAIN payouts' /\ c.on = {SubjectOf(p)' : p \in c.rows}
  <2> SUFFICES ASSUME c.at \in OnPayouts
               PROVE  c.rows \subseteq DOMAIN payouts' /\ c.on = {SubjectOf(p)' : p \in c.rows}
    OBVIOUS
  <2>1. c.rows \subseteq DOMAIN payouts /\ c.on = {SubjectOf(p) : p \in c.rows}
    BY DEF Knows
  <2>2. \A p \in c.rows : p \in DOMAIN payouts' /\ SubjectOf(p)' = SubjectOf(p)
    BY <2>1 DEF SubjectOf, RowsKept, TypeOK
  <2> QED
    BY <2>1, <2>2
<1> QED
  BY <1>1, <1>2, <1>3, <1>4, <1>5 DEF Knows

------------------------------------------------------------------------------
(* One worker takes a step, one begins, none does *)

Moves(w) ==
  /\ call' \in [Workers -> Call]
  /\ \A v \in Workers \ {w} : call'[v] = call[v]
  /\ call'[w].on \subseteq call[w].on
  /\ mishap' \in [Subjects -> BOOLEAN]
  /\ \A x \in Subjects : mishap[x] => mishap'[x]

\* The worker leaves each subject it is at work on as the invariant asks.
LeftInOrder(w, x) ==
  /\ Linked(x)'
  /\ x \in call'[w].on => OnTrack(call[w], x)'
  /\ x \notin call'[w].on => Rest(x)'

LEMMA StepKeepsInv ==
  ASSUME Inv, TypeOK', NEW w \in Workers, Moves(w), Knows(call[w])', RowsKept,
         \A x \in Subjects : x \notin call[w].on => Untouched(x),
         \A x \in call[w].on : ~mishap'[x] => LeftInOrder(w, x)
  PROVE  Inv'
<1>1. KnowsAll'
  <2> SUFFICES ASSUME NEW v \in Workers PROVE Knows(call[v])'
    BY DEF KnowsAll
  <2>1. CASE v = w
    BY <2>1
  <2>2. CASE v # w
    BY <2>2, KnowledgeLasts DEF Inv, KnowsAll, Moves
  <2> QED
    BY <2>1, <2>2
<1>2. ASSUME NEW x \in Subjects, ~mishap'[x] PROVE Orderly(x)'
  <2>1. Orderly(x)
    BY <1>2 DEF Inv, Moves
  <2>2. Alone(x)'
    BY <2>1 DEF Orderly, Alone, Moves
  <2>3. CASE x \in call[w].on
    <3>1. LeftInOrder(w, x)
      BY <1>2, <2>3
    <3>2. \A v \in Workers : x \in call'[v].on => v = w
      BY <2>1, <2>3 DEF Orderly, Alone, Moves
    <3>3. \A v \in Workers : x \in call'[v].on => OnTrack(call[v], x)'
      BY <3>1, <3>2 DEF LeftInOrder
    <3>4. ~Busy(x)' => Rest(x)'
      BY <3>1 DEF LeftInOrder, Busy
    <3> QED
      BY <2>2, <3>1, <3>3, <3>4 DEF Orderly, LeftInOrder
  <2>4. CASE x \notin call[w].on
    <3>1. Untouched(x)
      BY <2>4
    <3>2. Linked(x)'
      BY <2>1, <3>1, UntouchedRows DEF Orderly
    <3>3. ASSUME NEW v \in Workers, x \in call'[v].on PROVE OnTrack(call[v], x)'
      <4>1. v # w /\ call'[v] = call[v]
        BY <2>4, <3>3 DEF Moves
      <4>2. x \in call[v].on /\ OnTrack(call[v], x)
        BY <2>1, <3>3, <4>1 DEF Orderly
      <4>3. Knows(call[v]) /\ TypeOK
        BY DEF Inv, KnowsAll
      <4> QED
        BY <3>1, <4>1, <4>2, <4>3, UntouchedTrack
    <3>4. ASSUME ~Busy(x)' PROVE Rest(x)'
      <4>1. ~Busy(x)
        BY <2>4, <3>4 DEF Busy, Moves
      <4> QED
        BY <2>1, <3>1, <4>1, UntouchedRows DEF Orderly
    <3> QED
      BY <2>2, <3>2, <3>3, <3>4 DEF Orderly
  <2> QED
    BY <2>3, <2>4
<1> QED
  BY <1>1, <1>2 DEF Inv

\* A step of no worker changes a subject, if at all, while nobody is at work on it.
LeftAlone(x) == \/ Untouched(x)
                \/ ~mishap'[x] => ~Busy(x) /\ Linked(x)' /\ Rest(x)'

LEMMA NobodyMoves ==
  ASSUME Inv, TypeOK', call' = call, RowsKept,
         \A x \in Subjects : mishap[x] => mishap'[x],
         \A x \in Subjects : LeftAlone(x)
  PROVE  Inv'
<1>1. KnowsAll'
  BY KnowledgeLasts DEF Inv, KnowsAll
<1>2. ASSUME NEW x \in Subjects, ~mishap'[x] PROVE Orderly(x)'
  <2>1. Orderly(x) /\ TypeOK
    BY <1>2 DEF Inv
  <2>2. Alone(x)' /\ Busy(x)' = Busy(x)
    BY <2>1 DEF Orderly, Alone, Busy
  <2>3. CASE Untouched(x)
    <3>1. ASSUME NEW v \in Workers, x \in call'[v].on PROVE OnTrack(call[v], x)'
      BY <2>1, <2>3, <3>1, UntouchedTrack DEF Orderly, Inv, KnowsAll
    <3>2. Linked(x)' /\ (~Busy(x)' => Rest(x)')
      BY <2>1, <2>2, <2>3, UntouchedRows DEF Orderly
    <3> QED
      BY <2>2, <3>1, <3>2 DEF Orderly
  <2>4. CASE ~Busy(x) /\ Linked(x)' /\ Rest(x)'
    BY <2>2, <2>4 DEF Orderly, Busy
  <2> QED
    BY <1>2, <2>3, <2>4 DEF LeftAlone
<1> QED
  BY <1>1, <1>2 DEF Inv

LEMMA ReadingTouchesNothing ==
  ASSUME UNCHANGED <<stmts, payouts>>
  PROVE  /\ RowsKept /\ Frozen /\ Held
         /\ \A x : Untouched(x) /\ Linked(x)' = Linked(x) /\ Rest(x)' = Rest(x)
<1>1. \A x : Of(x)' = Of(x)
  BY DEF Of
<1> QED
  BY <1>1 DEF RowsKept, Frozen, Held, BecomesPaid, Untouched, Same, Linked, Rest, Chain, Told, Live

LEMMA StartKeepsInv ==
  ASSUME Inv, NEW w \in Workers, call[w] = Idle, NEW c \in Call, Turn(w, c), Reading, Knows(c),
         \A x \in c.on : Linked(x) /\ Rest(x) => OnTrack(c, x)
  PROVE  Inv' /\ Frozen /\ Held
<1> USE ReadingTouchesNothing DEF Reading, tables
<1>1. /\ call' \in [Workers -> Call] /\ call'[w] = c
      /\ \A v \in Workers \ {w} : call'[v] = call[v]
      /\ mishap' \in [Subjects -> BOOLEAN]
      /\ \A x \in Subjects :
           mishap'[x] = (mishap[x] \/ (x \in c.on /\ \E v \in Workers \ {w} : x \in call[v].on))
  BY DEF Inv, TypeOK, Turn
<1>2. TypeOK'
  BY <1>1 DEF Inv, TypeOK
<1>3. Knows(c)'
  BY DEF Knows, SubjectOf
<1>4. KnowsAll'
  <2> SUFFICES ASSUME NEW v \in Workers PROVE Knows(call[v])'
    BY DEF KnowsAll
  <2>1. CASE v = w
    BY <1>1, <1>3, <2>1 DEF Knows
  <2>2. CASE v # w
    BY <1>1, <2>2, KnowledgeLasts DEF Inv, KnowsAll
  <2> QED
    BY <2>1, <2>2
<1>5. ASSUME NEW x \in Subjects, ~mishap'[x] PROVE Orderly(x)'
  <2>1. Orderly(x) /\ TypeOK
    BY <1>1, <1>5 DEF Inv
  <2>2. \A v \in Workers \ {w} : x \in c.on => x \notin call[v].on
    BY <1>1, <1>5
  <2>3. x \notin call[w].on
    BY DEF Idle
  <2>4. Alone(x)'
    BY <1>1, <2>1, <2>2, <2>3 DEF Orderly, Alone
  <2>5. Linked(x)' /\ Untouched(x)
    BY <2>1 DEF Orderly
  <2>6. ASSUME NEW v \in Workers, x \in call'[v].on PROVE OnTrack(call[v], x)'
    <3>1. CASE v = w
      <4>1. x \in c.on /\ ~Busy(x)
        BY <1>1, <2>2, <2>3, <2>6, <3>1 DEF Busy
      <4>2. OnTrack(c, x)
        BY <2>1, <4>1 DEF Orderly
      <4> QED
        BY <1>1, <3>1, <4>2 DEF OnTrack, Rest, Chain, Told, Live, Of, Awaiting, Disputed, SubjectOf
    <3>2. CASE v # w
      BY <1>1, <2>1, <2>5, <2>6, <3>2, UntouchedTrack DEF Orderly, Inv, KnowsAll
    <3> QED
      BY <3>1, <3>2
  <2>7. ASSUME ~Busy(x)' PROVE Rest(x)'
    <3>1. ~Busy(x)
      BY <1>1, <2>3, <2>7 DEF Busy
    <3> QED
      BY <2>1, <3>1 DEF Orderly
  <2> QED
    BY <2>4, <2>5, <2>6, <2>7 DEF Orderly
<1> QED
  BY <1>2, <1>4, <1>5 DEF Inv

------------------------------------------------------------------------------
(* One statement is written, or one is added *)

LEMMA RowWritten ==
  ASSUME TypeOK, NEW s \in DOMAIN stmts, NEW row \in Statement,
         row.subject = stmts[s].subject, Write(s, row), UNCHANGED payouts
  PROVE  /\ stmts' \in Seq(Statement) /\ DOMAIN stmts' = DOMAIN stmts /\ stmts'[s] = row
         /\ \A r \in DOMAIN stmts \ {s} : stmts'[r] = stmts[r]
         /\ \A x : Of(x)' = Of(x)
         /\ \A x : x # stmts[s].subject => Untouched(x)
         /\ RowsKept
<1>1. /\ stmts' \in Seq(Statement) /\ DOMAIN stmts' = DOMAIN stmts /\ stmts'[s] = row
      /\ \A r \in DOMAIN stmts \ {s} : stmts'[r] = stmts[r]
  <2>1. stmts \in Seq(Statement)
    BY DEF TypeOK
  <2> QED
    BY <2>1, ExceptSeq DEF Write
<1>2. RowsKept
  BY <1>1 DEF RowsKept
<1>3. \A x : Of(x)' = Of(x)
  BY <1>1 DEF Of
<1>4. \A x : x # stmts[s].subject => Untouched(x)
  BY <1>1, <1>3 DEF Untouched, Same, Of
<1> QED
  BY <1>1, <1>2, <1>3, <1>4

LEMMA RowAdded ==
  ASSUME TypeOK, NEW row \in Statement, stmts' = Append(stmts, row), UNCHANGED payouts
  PROVE  LET n == Len(stmts) + 1 IN
         /\ stmts' \in Seq(Statement) /\ DOMAIN stmts' = DOMAIN stmts \cup {n} /\ stmts'[n] = row
         /\ n \notin DOMAIN stmts /\ n \in Nat /\ \A r \in DOMAIN stmts : r < n
         /\ \A r \in DOMAIN stmts : stmts'[r] = stmts[r]
         /\ Of(row.subject)' = Of(row.subject) \cup {n}
         /\ \A x : x # row.subject => Untouched(x)
         /\ RowsKept
<1> DEFINE n == Len(stmts) + 1
<1>1. stmts \in Seq(Statement)
  BY DEF TypeOK
<1>2. stmts' \in Seq(Statement) /\ Len(stmts') = n /\ stmts'[n] = row
      /\ \A r \in 1..Len(stmts) : stmts'[r] = stmts[r]
  BY <1>1, AppendProperties
<1>3. /\ DOMAIN stmts = 1..Len(stmts) /\ Len(stmts) \in Nat /\ DOMAIN stmts' = 1..n
  BY <1>1, <1>2, LenProperties
<1>4. /\ DOMAIN stmts' = DOMAIN stmts \cup {n} /\ n \notin DOMAIN stmts /\ n \in Nat
      /\ \A r \in DOMAIN stmts : r < n
  BY <1>3
<1>5. \A r \in DOMAIN stmts : stmts'[r] = stmts[r]
  BY <1>2, <1>3
<1>6. RowsKept
  BY <1>4, <1>5 DEF RowsKept
<1>7. \A x : x # row.subject => Of(x)' = Of(x)
  BY <1>2, <1>4, <1>5 DEF Of
<1>8. Of(row.subject)' = Of(row.subject) \cup {n}
  BY <1>2, <1>4, <1>5 DEF Of
<1>9. \A x : x # row.subject => Untouched(x)
  BY <1>5, <1>7 DEF Untouched, Same, Of
<1> QED
  BY <1>2, <1>4, <1>5, <1>6, <1>8, <1>9

\* What the invariant says of the one statement a worker is at work on.
Stands(c) ==
  LET s == c.stmt IN
  /\ stmts[s].thread <=> stmts[s].owner \in {"disputed", "superseded"}
  /\ stmts[s].next # 0 <=> stmts[s].owner = "superseded"
  /\ c.at \notin {"wipe", "lines"} => stmts[s].lines = <<stmts[s].totals>>
  /\ c.at \in {"header", "wipe", "lines"} => stmts[s].status = "draft"
  /\ c.at \in {"wipe", "lines"} => stmts[s].totals = c.seen
  /\ c.at = "lines" => stmts[s].lines = <<>>
  /\ c.at = "set_status" /\ c.to = "draft" => stmts[s].status = "draft"
  /\ c.at = "own" => c.to \in OwnerMoves(stmts[s].owner)

LEMMA OneStatement ==
  ASSUME Inv, NEW w \in Workers, call[w].at \in OnOne
  PROVE  \E s \in DOMAIN stmts, x \in Subjects, c \in Call :
           /\ c = call[w] /\ s = c.stmt /\ x = stmts[s].subject /\ stmts[s] \in Statement
           /\ c.on = {x} /\ s \in Of(x)
           /\ ~mishap[x] => Linked(x) /\ OnTrack(c, x) /\ (c.at \notin Revising => Stands(c))
<1>1. PICK c \in Call : c = call[w]
  BY DEF Inv, TypeOK
<1>2. PICK s \in DOMAIN stmts : s = c.stmt /\ c.on = {stmts[s].subject}
  BY <1>1 DEF Inv, KnowsAll, Knows
<1>3. stmts[s] \in Statement
  BY <1>2, ElementOfSeq DEF Inv, TypeOK
<1>4. PICK x \in Subjects : x = stmts[s].subject
  BY <1>3 DEF Statement
<1>5. s \in Of(x)
  BY <1>4 DEF Of
<1>6. ASSUME ~mishap[x]
      PROVE  Linked(x) /\ OnTrack(c, x) /\ (c.at \notin Revising => Stands(c))
  <2>1. Linked(x) /\ OnTrack(c, x)
    BY <1>1, <1>2, <1>4, <1>6 DEF Inv, Orderly
  <2>2. /\ stmts[s].thread <=> stmts[s].owner \in {"disputed", "superseded"}
        /\ stmts[s].next # 0 <=> stmts[s].owner = "superseded"
    BY <1>5, <2>1 DEF Linked
  <2>3. c.at \notin {"wipe", "lines"} \cup Revising => stmts[s].lines = <<stmts[s].totals>>
    BY <1>5, <2>1 DEF OnTrack, Rest, Told
  <2> QED
    BY <1>2, <2>1, <2>2, <2>3 DEF OnTrack, Stands
<1> QED
  BY <1>1, <1>2, <1>3, <1>4, <1>5, <1>6

\* What the parts of the invariant make of one row that is written.
LEMMA RowsRewritten ==
  ASSUME TypeOK, NEW s \in DOMAIN stmts, NEW row \in Statement,
         row.subject = stmts[s].subject, Write(s, row), UNCHANGED payouts
  PROVE  LET x == row.subject IN
         /\ \A S \in SUBSET Of(x) : s \notin S => Chain(S)' = Chain(S) /\ Told(S)' = Told(S)
         /\ (row.owner = "superseded" <=> stmts[s].owner = "superseded")
              /\ row.next = stmts[s].next => \A S \in SUBSET Of(x) : Chain(S)' = Chain(S)
         /\ Told(Of(x))' <=> Told(Of(x) \ {s}) /\ row.lines = <<row.totals>>
         /\ Linked(x) /\ (row.thread <=> row.owner \in {"disputed", "superseded"})
              /\ (row.next # 0 <=> row.owner = "superseded") => Linked(x)'
<1> DEFINE x == row.subject
<1>1. /\ stmts'[s] = row /\ \A r \in DOMAIN stmts \ {s} : stmts'[r] = stmts[r]
      /\ Of(x)' = Of(x) /\ Of(x) \subseteq DOMAIN stmts /\ s \in Of(x)
  BY RowWritten DEF Of
<1>2. \A S \in SUBSET Of(x) : s \notin S => Chain(S)' = Chain(S) /\ Told(S)' = Told(S)
  <2> SUFFICES ASSUME NEW S \in SUBSET Of(x), s \notin S
               PROVE  Chain(S)' = Chain(S) /\ Told(S)' = Told(S)
    OBVIOUS
  <2>1. \A r \in S : stmts'[r] = stmts[r]
    BY <1>1
  <2> QED
    BY <2>1 DEF Chain, Told, Live
<1>3. ASSUME row.owner = "superseded" <=> stmts[s].owner = "superseded", row.next = stmts[s].next,
             NEW S \in SUBSET Of(x)
      PROVE  Chain(S)' = Chain(S)
  <2>1. \A r \in S : stmts'[r].next = stmts[r].next /\ Live(r)' = Live(r)
    BY <1>1, <1>3 DEF Live
  <2> QED
    BY <2>1 DEF Chain
<1>4. Told(Of(x))' <=> Told(Of(x) \ {s}) /\ row.lines = <<row.totals>>
  BY <1>1 DEF Told
<1>5. ASSUME Linked(x), row.thread <=> row.owner \in {"disputed", "superseded"},
             row.next # 0 <=> row.owner = "superseded"
      PROVE  Linked(x)'
  BY <1>1, <1>5 DEF Linked
<1> QED
  BY <1>2, <1>3, <1>4, <1>5

LEMMA TurnMoves ==
  ASSUME TypeOK, NEW w \in Workers, NEW c \in Call, Turn(w, c), c.on \subseteq call[w].on
  PROVE  Moves(w) /\ call'[w] = c
  BY DEF TypeOK, Turn, Moves

LEMMA IdleCall == Idle \in Call
  BY EmptySeq DEF Idle, Call, Step, Wish

LEMMA ReturnMoves ==
  ASSUME TypeOK, NEW w \in Workers, Return(w)
  PROVE  Moves(w) /\ call'[w] = Idle /\ call'[w].on = {} /\ Knows(call[w])'
<1>1. Idle \in Call /\ Idle.on = {}
  BY IdleCall DEF Idle
<1>2. Moves(w) /\ call'[w] = Idle
  BY <1>1, TurnMoves DEF Return
<1>3. Knows(call[w])'
  BY <1>2 DEF Knows, Idle, OnOne, Revising, OnPayouts
<1> QED
  BY <1>1, <1>2, <1>3

LEMMA GotoMoves ==
  ASSUME TypeOK, NEW w \in Workers, NEW step \in Step, Goto(w, step)
  PROVE  Moves(w) /\ call'[w] = [call[w] EXCEPT !.at = step]
<1>1. [call[w] EXCEPT !.at = step] \in Call /\ call[w] \in Call
  BY DEF TypeOK, Call
<1>2. [call[w] EXCEPT !.at = step].on = call[w].on
  BY <1>1 DEF Call
<1> QED
  BY <1>1, <1>2, TurnMoves DEF Goto

------------------------------------------------------------------------------
(* A worker writes the one statement it is at work on, or gives up         *)

\* Where it stands after that.
Goes(d, s, x) == \/ d = Idle
                 \/ /\ d.at \in {"wipe", "lines", "auto_approve", "auto_send"}
                    /\ d.on = {x} /\ d.stmt = s

\* What the row has to be for that.
Fits(d, s, row) ==
  /\ row.owner = "superseded" <=> stmts[s].owner = "superseded"
  /\ row.next = stmts[s].next
  /\ row.thread <=> row.owner \in {"disputed", "superseded"}
  /\ row.next # 0 <=> row.owner = "superseded"
  /\ IF d.at \in {"wipe", "lines"}
     THEN /\ row.status = "draft" /\ row.totals = d.seen
          /\ d.at = "lines" => row.lines = <<>>
     ELSE row.lines = <<row.totals>>
  /\ stmts[s].status # "draft" =>
       row.status # "draft" /\ row.totals = stmts[s].totals /\ row.lines = stmts[s].lines

LEMMA WriteKeepsInv ==
  ASSUME Inv, NEW w \in Workers, NEW s \in DOMAIN stmts, NEW x \in Subjects, NEW c \in Call,
         NEW d \in Call, NEW row \in Statement, stmts[s] \in Statement,
         c = call[w], c.at \in OnOne \ Revising, s = c.stmt, x = stmts[s].subject, c.on = {x},
         row.subject = x, Write(s, row), OnlyStmts,
         Moves(w), call'[w] = d, Goes(d, s, x),
         ~mishap'[x] => Linked(x) /\ OnTrack(c, x) /\ Fits(d, s, row)
  PROVE  Inv' /\ Frozen
<1>1. UNCHANGED <<payouts, batch, ledger, faults>>
  BY DEF OnlyStmts
<1>2. /\ stmts' \in Seq(Statement) /\ DOMAIN stmts' = DOMAIN stmts /\ stmts'[s] = row
      /\ \A r \in DOMAIN stmts \ {s} : stmts'[r] = stmts[r]
      /\ RowsKept /\ Of(x)' = Of(x) /\ \A y : y # x => Untouched(y)
  BY <1>1, RowWritten DEF Inv
<1>3. TypeOK'
  BY <1>1, <1>2 DEF Inv, TypeOK, Moves
<1>4. Knows(call[w])'
  <2>1. CASE d = Idle
    BY <2>1 DEF Knows, Idle, OnOne, Revising, OnPayouts
  <2>2. CASE d # Idle
    BY <1>2, <2>2 DEF Goes, Knows, OnOne, Revising, OnPayouts
  <2> QED
    BY <2>1, <2>2
<1>5. ASSUME ~mishap'[x] PROVE LeftInOrder(w, x)
  <2>1. Chain(Of(x)) /\ Told(Of(x) \ {s})
    BY <1>5 DEF OnTrack, Rest, Told
  <2>2. /\ \A S \in SUBSET Of(x) : s \notin S => Told(S)' = Told(S)
        /\ \A S \in SUBSET Of(x) : Chain(S)' = Chain(S)
        /\ Told(Of(x))' <=> Told(Of(x) \ {s}) /\ row.lines = <<row.totals>>
        /\ Linked(x)'
    BY <1>1, <1>5, RowsRewritten DEF Fits, Inv
  <2>3. Chain(Of(x))' /\ Told(Of(x) \ {s})'
    BY <1>2, <2>1, <2>2
  <2>4. CASE d.at \in {"wipe", "lines"}
    <3>1. /\ stmts'[s].status = "draft" /\ stmts'[s].totals = d.seen
          /\ d.at = "lines" => stmts'[s].lines = <<>>
      BY <1>2, <1>5, <2>4 DEF Fits
    <3>2. d.stmt = s /\ x \in d.on
      BY <2>4 DEF Goes, Idle
    <3>3. OnTrack(call[w], x)'
      BY <2>3, <2>4, <3>1, <3>2 DEF OnTrack, Revising
    <3> QED
      BY <2>2, <3>2, <3>3 DEF LeftInOrder
  <2>5. CASE d.at \notin {"wipe", "lines"}
    <3>1. Rest(x)'
      BY <1>5, <2>1, <2>2, <2>3, <2>5 DEF Fits, Rest
    <3>2. d.at \in {"idle", "auto_approve", "auto_send"}
      BY <2>5 DEF Goes, Idle
    <3>3. OnTrack(call[w], x)'
      BY <3>1, <3>2 DEF OnTrack, Revising
    <3> QED
      BY <2>2, <3>1, <3>3 DEF LeftInOrder
  <2> QED
    BY <2>4, <2>5
<1>6. Inv'
  BY <1>2, <1>3, <1>4, <1>5, StepKeepsInv
<1>7. Frozen
  BY <1>2, <1>5 DEF Frozen, Fits
<1> QED
  BY <1>6, <1>7

\* An invocation that gives up, or writes what it does not say, where all is at rest.
LEMMA GiveUp ==
  ASSUME Inv, NEW w \in Workers, Return(w), Reading,
         \A x \in call[w].on : ~mishap'[x] /\ OnTrack(call[w], x) => Rest(x)
  PROVE  Inv' /\ Frozen /\ Held
<1>1. UNCHANGED <<stmts, payouts, batch, ledger, faults>> /\ TypeOK
  BY DEF Reading, tables, Inv
<1>2. Moves(w) /\ call'[w].on = {} /\ Knows(call[w])'
  BY <1>1, ReturnMoves
<1>3. TypeOK'
  BY <1>1, <1>2 DEF Moves, TypeOK
<1>4. /\ RowsKept /\ Frozen /\ Held
      /\ \A x : Untouched(x) /\ Linked(x)' = Linked(x) /\ Rest(x)' = Rest(x)
  BY <1>1, ReadingTouchesNothing
<1>5. ASSUME NEW x \in call[w].on, ~mishap'[x] PROVE LeftInOrder(w, x)
  <2>1. x \in Subjects
    BY <1>5, <1>1 DEF TypeOK, Call
  <2>2. Linked(x) /\ OnTrack(call[w], x)
    BY <1>2, <1>5, <2>1 DEF Inv, Moves, Orderly
  <2> QED
    BY <1>2, <1>4, <1>5, <2>2 DEF LeftInOrder
<1> QED
  BY <1>2, <1>3, <1>4, <1>5, StepKeepsInv

------------------------------------------------------------------------------
(* The generator *)

LEMMA WriteHeaderStep ==
  ASSUME Inv, NEW w \in Workers, WriteHeader(w) PROVE Inv' /\ Frozen
<1>1. PICK s \in DOMAIN stmts, x \in Subjects, c \in Call :
         /\ c = call[w] /\ s = c.stmt /\ x = stmts[s].subject /\ stmts[s] \in Statement
         /\ c.on = {x} /\ s \in Of(x)
         /\ ~mishap[x] => Linked(x) /\ OnTrack(c, x) /\ Stands(c)
         /\ c.at = "header"
  <2>1. call[w].at = "header" /\ "header" \in OnOne \ Revising
    BY DEF WriteHeader, At, OnOne, Revising
  <2> QED
    BY <2>1, OneStatement
<1>2. PICK row \in Statement : row = [stmts[s] EXCEPT !.status = "draft", !.totals = c.seen]
  BY <1>1, EmptySeq DEF Statement, Call, Status
<1>3. PICK d \in Call : d = [c EXCEPT !.at = "wipe"]
  BY DEF Call, Step
<1>4. Write(s, row) /\ OnlyStmts /\ Goto(w, "wipe")
  BY <1>1, <1>2 DEF WriteHeader
<1>5. Moves(w) /\ call'[w] = d /\ d.at = "wipe" /\ d.on = {x} /\ d.stmt = s /\ d.seen = c.seen
  BY <1>1, <1>3, <1>4, GotoMoves DEF Step, Inv, Call
<1>6. Goes(d, s, x) /\ row.subject = x /\ c.at \in OnOne \ Revising
  BY <1>1, <1>2, <1>5 DEF Goes, OnOne, Revising, Statement
<1>7. ASSUME ~mishap'[x] PROVE Linked(x) /\ OnTrack(c, x) /\ Fits(d, s, row)
  <2>1. Linked(x) /\ OnTrack(c, x) /\ Stands(c)
    BY <1>1, <1>5, <1>7 DEF Moves
  <2>2. Fits(d, s, row)
    BY <1>1, <1>2, <1>5, <2>1 DEF Fits, Stands, Statement
  <2> QED
    BY <2>1, <2>2
<1> QED
  BY <1>1, <1>4, <1>5, <1>6, <1>7, WriteKeepsInv

LEMMA WipeLinesStep ==
  ASSUME Inv, NEW w \in Workers, WipeLines(w) PROVE Inv' /\ Frozen
<1>1. PICK s \in DOMAIN stmts, x \in Subjects, c \in Call :
         /\ c = call[w] /\ s = c.stmt /\ x = stmts[s].subject /\ stmts[s] \in Statement
         /\ c.on = {x} /\ s \in Of(x)
         /\ ~mishap[x] => Linked(x) /\ OnTrack(c, x) /\ Stands(c)
         /\ c.at = "wipe"
  <2>1. call[w].at = "wipe" /\ "wipe" \in OnOne \ Revising
    BY DEF WipeLines, At, OnOne, Revising
  <2> QED
    BY <2>1, OneStatement
<1>2. PICK row \in Statement : row = [stmts[s] EXCEPT !.lines = <<>>]
  BY <1>1, EmptySeq DEF Statement, Call
<1>3. PICK d \in Call : d = [c EXCEPT !.at = "lines"]
  BY DEF Call, Step
<1>4. Write(s, row) /\ OnlyStmts /\ Goto(w, "lines")
  BY <1>1, <1>2 DEF WipeLines
<1>5. Moves(w) /\ call'[w] = d /\ d.at = "lines" /\ d.on = {x} /\ d.stmt = s /\ d.seen = c.seen
  BY <1>1, <1>3, <1>4, GotoMoves DEF Step, Inv, Call
<1>6. Goes(d, s, x) /\ row.subject = x /\ c.at \in OnOne \ Revising
  BY <1>1, <1>2, <1>5 DEF Goes, OnOne, Revising, Statement
<1>7. ASSUME ~mishap'[x] PROVE Linked(x) /\ OnTrack(c, x) /\ Fits(d, s, row)
  <2>1. Linked(x) /\ OnTrack(c, x) /\ Stands(c)
    BY <1>1, <1>5, <1>7 DEF Moves
  <2>2. Fits(d, s, row)
    BY <1>1, <1>2, <1>5, <2>1 DEF Fits, Stands, Statement
  <2> QED
    BY <2>1, <2>2
<1> QED
  BY <1>1, <1>4, <1>5, <1>6, <1>7, WriteKeepsInv

LEMMA AutoApproveStep ==
  ASSUME Inv, NEW w \in Workers, AutoApprove(w) PROVE Inv' /\ Frozen
<1>1. PICK s \in DOMAIN stmts, x \in Subjects, c \in Call :
         /\ c = call[w] /\ s = c.stmt /\ x = stmts[s].subject /\ stmts[s] \in Statement
         /\ c.on = {x} /\ s \in Of(x)
         /\ ~mishap[x] => Linked(x) /\ OnTrack(c, x) /\ Stands(c)
         /\ c.at = "auto_approve"
  <2>1. call[w].at = "auto_approve" /\ "auto_approve" \in OnOne \ Revising
    BY DEF AutoApprove, At, OnOne, Revising
  <2> QED
    BY <2>1, OneStatement
<1>2. PICK row \in Statement : row = [stmts[s] EXCEPT !.status = "approved"]
  BY <1>1, EmptySeq DEF Statement, Call, Status
<1>3. PICK d \in Call : d = [c EXCEPT !.at = "auto_send"]
  BY DEF Call, Step
<1>4. Write(s, row) /\ OnlyStmts /\ Goto(w, "auto_send")
  BY <1>1, <1>2 DEF AutoApprove
<1>5. Moves(w) /\ call'[w] = d /\ d.at = "auto_send" /\ d.on = {x} /\ d.stmt = s /\ d.seen = c.seen
  BY <1>1, <1>3, <1>4, GotoMoves DEF Step, Inv, Call
<1>6. Goes(d, s, x) /\ row.subject = x /\ c.at \in OnOne \ Revising
  BY <1>1, <1>2, <1>5 DEF Goes, OnOne, Revising, Statement
<1>7. ASSUME ~mishap'[x] PROVE Linked(x) /\ OnTrack(c, x) /\ Fits(d, s, row)
  <2>1. Linked(x) /\ OnTrack(c, x) /\ Stands(c)
    BY <1>1, <1>5, <1>7 DEF Moves
  <2>2. Fits(d, s, row)
    BY <1>1, <1>2, <1>5, <2>1 DEF Fits, Stands, Statement
  <2> QED
    BY <2>1, <2>2
<1> QED
  BY <1>1, <1>4, <1>5, <1>6, <1>7, WriteKeepsInv

LEMMA InsertLinesStep ==
  ASSUME Inv, NEW w \in Workers, InsertLines(w) PROVE Inv' /\ Frozen
<1>1. PICK s \in DOMAIN stmts, x \in Subjects, c \in Call :
         /\ c = call[w] /\ s = c.stmt /\ x = stmts[s].subject /\ stmts[s] \in Statement
         /\ c.on = {x} /\ s \in Of(x)
         /\ ~mishap[x] => Linked(x) /\ OnTrack(c, x) /\ Stands(c)
         /\ c.at = "lines"
  <2>1. call[w].at = "lines" /\ "lines" \in OnOne \ Revising
    BY DEF InsertLines, At, OnOne, Revising
  <2> QED
    BY <2>1, OneStatement
<1>2. PICK row \in Statement : row = [stmts[s] EXCEPT !.lines = Append(stmts[s].lines, c.seen)]
  <2>1. Append(stmts[s].lines, c.seen) \in Seq(Nat)
    BY <1>1, AppendProperties DEF Statement, Call
  <2> QED
    BY <1>1, <2>1 DEF Statement
<1>3. PICK d \in Call : d = IF c.flag THEN [c EXCEPT !.at = "auto_approve"] ELSE Idle
  <2>1. [c EXCEPT !.at = "auto_approve"] \in Call
    BY DEF Call, Step
  <2>2. Idle \in Call
    BY IdleCall
  <2> QED
    BY <2>1, <2>2
<1>4. Write(s, row) /\ OnlyStmts
  BY <1>1, <1>2 DEF InsertLines
<1>5. Moves(w) /\ call'[w] = d
  <2>1. CASE c.flag
    <3>1. Goto(w, "auto_approve")
      BY <1>1, <2>1 DEF InsertLines
    <3> QED
      BY <1>1, <1>3, <2>1, <3>1, GotoMoves DEF Step, Inv
  <2>2. CASE ~c.flag
    <3>1. Return(w)
      BY <1>1, <2>2 DEF InsertLines
    <3> QED
      BY <1>3, <2>2, <3>1, ReturnMoves DEF Inv
  <2> QED
    BY <2>1, <2>2
<1>6. d = Idle \/ (d.at = "auto_approve" /\ d.on = {x} /\ d.stmt = s)
  BY <1>1, <1>3 DEF Call
<1>7. Goes(d, s, x) /\ row.subject = x /\ c.at \in OnOne \ Revising /\ d.at \notin {"wipe", "lines"}
  BY <1>1, <1>2, <1>6 DEF Goes, OnOne, Revising, Statement, Idle
<1>8. ASSUME ~mishap'[x] PROVE Linked(x) /\ OnTrack(c, x) /\ Fits(d, s, row)
  <2>1. Linked(x) /\ OnTrack(c, x) /\ Stands(c)
    BY <1>1, <1>5, <1>8 DEF Moves
  <2>2. stmts[s].lines = <<>> /\ stmts[s].totals = c.seen /\ stmts[s].status = "draft"
    BY <1>1, <2>1 DEF Stands
  <2>3. row.lines = <<row.totals>>
    BY <1>1, <1>2, <2>2 DEF Statement
  <2>4. Fits(d, s, row)
    BY <1>1, <1>2, <1>7, <2>1, <2>2, <2>3 DEF Fits, Stands, Statement
  <2> QED
    BY <2>1, <2>4
<1> QED
  BY <1>1, <1>4, <1>5, <1>7, <1>8, WriteKeepsInv

LEMMA AutoSendStep ==
  ASSUME Inv, NEW w \in Workers, AutoSend(w) PROVE Inv' /\ Frozen
<1>1. PICK s \in DOMAIN stmts, x \in Subjects, c \in Call :
         /\ c = call[w] /\ s = c.stmt /\ x = stmts[s].subject /\ stmts[s] \in Statement
         /\ c.on = {x} /\ s \in Of(x)
         /\ ~mishap[x] => Linked(x) /\ OnTrack(c, x) /\ Stands(c)
         /\ c.at = "auto_send"
  <2>1. call[w].at = "auto_send" /\ "auto_send" \in OnOne \ Revising
    BY DEF AutoSend, At, OnOne, Revising
  <2> QED
    BY <2>1, OneStatement
<1>2. Return(w) /\ OnlyStmts
  BY DEF AutoSend
<1>3. CASE UNCHANGED stmts
  <2>1. Reading
    BY <1>2, <1>3 DEF OnlyStmts, Reading, tables
  <2>2. \A y \in call[w].on : OnTrack(call[w], y) => Rest(y)
    BY <1>1 DEF OnTrack, Revising
  <2> QED
    BY <1>2, <2>1, <2>2, GiveUp
<1>4. CASE Write(s, [stmts[s] EXCEPT !.status = "sent", !.sent = TRUE])
  <2>1. PICK row \in Statement : row = [stmts[s] EXCEPT !.status = "sent", !.sent = TRUE]
    BY <1>1 DEF Statement, Status
  <2>2. Write(s, row)
    BY <1>1, <1>4, <2>1
  <2>3. Moves(w) /\ call'[w] = Idle /\ Idle \in Call
    BY <1>2, ReturnMoves, IdleCall DEF Inv
  <2>4. Goes(Idle, s, x) /\ row.subject = x /\ c.at \in OnOne \ Revising
    BY <1>1, <2>1 DEF Goes, OnOne, Revising, Statement
  <2>5. ASSUME ~mishap'[x] PROVE Linked(x) /\ OnTrack(c, x) /\ Fits(Idle, s, row)
    <3>1. Linked(x) /\ OnTrack(c, x) /\ Stands(c)
      BY <1>1, <2>3, <2>5 DEF Moves
    <3>2. Fits(Idle, s, row)
      BY <1>1, <2>1, <3>1 DEF Fits, Stands, Statement, Idle
    <3> QED
      BY <3>1, <3>2
  <2> QED
    BY <1>1, <1>2, <2>2, <2>3, <2>4, <2>5, WriteKeepsInv
<1> QED
  BY <1>1, <1>3, <1>4 DEF AutoSend

------------------------------------------------------------------------------
(* What staff and owners decide *)

LEMMA SetStatusStep ==
  ASSUME Inv, NEW w \in Workers, SetStatus(w) PROVE Inv' /\ Frozen
<1>1. PICK s \in DOMAIN stmts, x \in Subjects, c \in Call :
         /\ c = call[w] /\ s = c.stmt /\ x = stmts[s].subject /\ stmts[s] \in Statement
         /\ c.on = {x} /\ s \in Of(x)
         /\ ~mishap[x] => Linked(x) /\ OnTrack(c, x) /\ Stands(c)
         /\ c.at = "set_status"
  <2>1. call[w].at = "set_status" /\ "set_status" \in OnOne \ Revising
    BY DEF SetStatus, At, OnOne, Revising
  <2> QED
    BY <2>1, OneStatement
<1>2. Return(w) /\ OnlyStmts
  BY DEF SetStatus
<1>3. CASE UNCHANGED stmts
  <2>1. Reading
    BY <1>2, <1>3 DEF OnlyStmts, Reading, tables
  <2>2. \A y \in call[w].on : OnTrack(call[w], y) => Rest(y)
    BY <1>1 DEF OnTrack, Revising
  <2> QED
    BY <1>2, <2>1, <2>2, GiveUp
<1>4. CASE Admitted(c.to) /\ Write(s, [stmts[s] EXCEPT !.status = c.to])
  <2>1. PICK row \in Statement : row = [stmts[s] EXCEPT !.status = c.to]
    BY <1>1, <1>4 DEF Statement, Admitted
  <2>2. Write(s, row)
    BY <1>1, <1>4, <2>1
  <2>3. Moves(w) /\ call'[w] = Idle /\ Idle \in Call
    BY <1>2, ReturnMoves, IdleCall DEF Inv
  <2>4. Goes(Idle, s, x) /\ row.subject = x /\ c.at \in OnOne \ Revising
    BY <1>1, <2>1 DEF Goes, OnOne, Revising, Statement
  <2>5. ASSUME ~mishap'[x] PROVE Linked(x) /\ OnTrack(c, x) /\ Fits(Idle, s, row)
    <3>1. Linked(x) /\ OnTrack(c, x) /\ Stands(c)
      BY <1>1, <2>3, <2>5 DEF Moves
    <3>2. Fits(Idle, s, row)
      BY <1>1, <2>1, <3>1 DEF Fits, Stands, Statement, Idle
    <3> QED
      BY <3>1, <3>2
  <2> QED
    BY <1>1, <1>2, <2>2, <2>3, <2>4, <2>5, WriteKeepsInv
<1> QED
  BY <1>1, <1>3, <1>4 DEF SetStatus

LEMMA OwnStep ==
  ASSUME Inv, NEW w \in Workers, Own(w) PROVE Inv' /\ Frozen
<1>1. PICK s \in DOMAIN stmts, x \in Subjects, c \in Call :
         /\ c = call[w] /\ s = c.stmt /\ x = stmts[s].subject /\ stmts[s] \in Statement
         /\ c.on = {x} /\ s \in Of(x)
         /\ ~mishap[x] => Linked(x) /\ OnTrack(c, x) /\ Stands(c)
         /\ c.at = "own"
  <2>1. call[w].at = "own" /\ "own" \in OnOne \ Revising
    BY DEF Own, At, OnOne, Revising
  <2> QED
    BY <2>1, OneStatement
<1>2. c.to \in {"viewed", "acknowledged", "disputed"}
  BY <1>1 DEF Inv, KnowsAll, Knows
<1>3. PICK row \in Statement :
         row = [stmts[s] EXCEPT !.owner = c.to, !.thread = stmts[s].thread \/ c.to = "disputed"]
  BY <1>1, <1>2 DEF Statement, OwnerState
<1>4. Write(s, row) /\ OnlyStmts /\ Return(w)
  BY <1>1, <1>3 DEF Own
<1>5. Moves(w) /\ call'[w] = Idle /\ Idle \in Call
  BY <1>4, ReturnMoves, IdleCall DEF Inv
<1>6. Goes(Idle, s, x) /\ row.subject = x /\ c.at \in OnOne \ Revising
  BY <1>1, <1>3 DEF Goes, OnOne, Revising, Statement
<1>7. ASSUME ~mishap'[x] PROVE Linked(x) /\ OnTrack(c, x) /\ Fits(Idle, s, row)
  <2>1. Linked(x) /\ OnTrack(c, x) /\ Stands(c)
    BY <1>1, <1>5, <1>7 DEF Moves
  <2>2. c.to \in OwnerMoves(stmts[s].owner) /\ stmts[s].owner \in OwnerState
    BY <1>1, <2>1 DEF Stands, Statement
  <2>3. stmts[s].owner \notin {"disputed", "superseded"}
    BY <1>2, <2>2 DEF OwnerMoves
  <2>4. /\ row.owner = c.to /\ row.next = stmts[s].next /\ row.lines = stmts[s].lines
        /\ row.totals = stmts[s].totals /\ row.status = stmts[s].status
        /\ row.thread <=> stmts[s].thread \/ c.to = "disputed"
    BY <1>1, <1>3 DEF Statement
  <2>5. Idle.at = "idle"
    BY DEF Idle
  <2>6. /\ ~stmts[s].thread /\ stmts[s].next = 0 /\ stmts[s].lines = <<stmts[s].totals>>
    BY <1>1, <2>1, <2>3 DEF Stands
  <2>7. Fits(Idle, s, row)
    BY <1>2, <2>3, <2>4, <2>5, <2>6 DEF Fits
  <2> QED
    BY <2>1, <2>7
<1> QED
  BY <1>1, <1>4, <1>5, <1>6, <1>7, WriteKeepsInv

LEMMA SendStep ==
  ASSUME Inv, NEW w \in Workers, Send(w) PROVE Inv' /\ Frozen
<1>1. PICK s \in DOMAIN stmts, x \in Subjects, c \in Call :
         /\ c = call[w] /\ s = c.stmt /\ x = stmts[s].subject /\ stmts[s] \in Statement
         /\ c.on = {x} /\ s \in Of(x)
         /\ ~mishap[x] => Linked(x) /\ OnTrack(c, x) /\ Stands(c)
         /\ c.at = "send"
  <2>1. call[w].at = "send" /\ "send" \in OnOne \ Revising
    BY DEF Send, At, OnOne, Revising
  <2> QED
    BY <2>1, OneStatement
<1>2. TypeOK /\ mishap \in [Subjects -> BOOLEAN]
  BY DEF Inv, TypeOK
<1>3. CASE UNCHANGED <<stmts, mishap>>
  <2>1. Reading
    BY <1>3 DEF Send, OnlyStmts, Reading, tables
  <2>2. \A y \in call[w].on : OnTrack(call[w], y) => Rest(y)
    BY <1>1 DEF OnTrack, Revising
  <2>3. Return(w)
    BY <1>2, <1>3 DEF Send, Return, Turn, Idle
  <2> QED
    BY <2>1, <2>2, <2>3, GiveUp
<1>4. CASE ~UNCHANGED <<stmts, mishap>>
  <2>1. PICK row \in Statement :
           row = IF c.flag THEN [stmts[s] EXCEPT !.status = "sent", !.sent = TRUE,
                                                 !.owner = "pending", !.timer = "running"]
                 ELSE [stmts[s] EXCEPT !.status = "sent", !.sent = TRUE]
    <3>1. /\ [stmts[s] EXCEPT !.status = "sent", !.sent = TRUE,
                              !.owner = "pending", !.timer = "running"] \in Statement
          /\ [stmts[s] EXCEPT !.status = "sent", !.sent = TRUE] \in Statement
      BY <1>1 DEF Statement, Status, OwnerState
    <3> QED
      BY <3>1
  <2>2. /\ call' = [call EXCEPT ![w] = Idle] /\ OnlyStmts
        /\ Write(s, row)
        /\ mishap' = [mishap EXCEPT ![x] = @ \/ (c.flag /\ stmts[s].thread)]
    BY <1>1, <1>4, <2>1 DEF Send, Statement
  <2>3. Moves(w) /\ call'[w] = Idle /\ Idle \in Call
    <3>1. Idle \in Call /\ Idle.on = {} /\ call \in [Workers -> Call]
      BY <1>2, IdleCall DEF Idle, TypeOK
    <3>2. /\ call' \in [Workers -> Call] /\ call'[w] = Idle
          /\ \A v \in Workers \ {w} : call'[v] = call[v]
      BY <2>2, <3>1
    <3>3. stmts[s].thread \in BOOLEAN /\ c.flag \in BOOLEAN
      BY <1>1 DEF Statement, Call
    <3>4. mishap' \in [Subjects -> BOOLEAN]
      BY <1>2, <2>2, <3>3
    <3>5. \A y \in Subjects : mishap[y] => mishap'[y]
      BY <1>2, <2>2
    <3> QED
      BY <3>1, <3>2, <3>4, <3>5 DEF Moves
  <2>4. Goes(Idle, s, x) /\ row.subject = x /\ c.at \in OnOne \ Revising
    BY <1>1, <2>1 DEF Goes, OnOne, Revising, Statement
  <2>5. ASSUME ~mishap'[x] PROVE Linked(x) /\ OnTrack(c, x) /\ Fits(Idle, s, row)
    <3>1. Linked(x) /\ OnTrack(c, x) /\ Stands(c)
      BY <1>1, <2>3, <2>5 DEF Moves
    <3>2. c.flag => ~stmts[s].thread
      BY <1>2, <2>2, <2>5
    <3>3. /\ row.next = stmts[s].next /\ row.lines = stmts[s].lines /\ row.totals = stmts[s].totals
          /\ row.status = "sent" /\ row.thread = stmts[s].thread
          /\ row.owner = IF c.flag THEN "pending" ELSE stmts[s].owner
      BY <1>1, <2>1 DEF Statement
    <3>4. Fits(Idle, s, row)
      BY <1>1, <3>1, <3>2, <3>3 DEF Fits, Stands, Idle
    <3> QED
      BY <3>1, <3>4
  <2> QED
    BY <1>1, <2>2, <2>3, <2>4, <2>5, WriteKeepsInv
<1> QED
  BY <1>3, <1>4

------------------------------------------------------------------------------
(* Steps that only read *)

LEMMA ReadOn ==
  ASSUME Inv, NEW w \in Workers, NEW d \in Call, Reading, Turn(w, d), d.on \subseteq call[w].on,
         Knows(d),
         \A x \in call[w].on : Linked(x) /\ OnTrack(call[w], x) =>
           (x \in d.on => OnTrack(d, x)) /\ (x \notin d.on => Rest(x))
  PROVE  Inv' /\ Frozen /\ Held
<1>1. UNCHANGED <<stmts, payouts, batch, ledger, faults>> /\ TypeOK
  BY DEF Reading, tables, Inv
<1>2. Moves(w) /\ call'[w] = d
  BY <1>1, TurnMoves
<1>3. TypeOK'
  BY <1>1, <1>2 DEF Moves, TypeOK
<1>4. /\ RowsKept /\ Frozen /\ Held
      /\ \A x : Untouched(x) /\ Linked(x)' = Linked(x) /\ Rest(x)' = Rest(x)
  BY <1>1, ReadingTouchesNothing
<1>5. Knows(call[w])'
  BY <1>1, <1>2 DEF Knows, SubjectOf
<1>6. ASSUME NEW x \in call[w].on, ~mishap'[x] PROVE LeftInOrder(w, x)
  <2>1. x \in Subjects
    BY <1>1, <1>6 DEF TypeOK, Call
  <2>2. Linked(x) /\ OnTrack(call[w], x)
    BY <1>2, <1>6, <2>1 DEF Inv, Moves, Orderly
  <2>3. x \in d.on => OnTrack(d, x)'
    BY <1>1, <2>2
       DEF OnTrack, Rest, Chain, Told, Live, Of, Awaiting, Disputed, SubjectOf
  <2>4. x \in d.on => OnTrack(call[w], x)'
    BY <1>2, <2>3 DEF OnTrack
  <2> QED
    BY <1>2, <1>4, <2>2, <2>4 DEF LeftInOrder
<1> QED
  BY <1>2, <1>3, <1>4, <1>5, <1>6, StepKeepsInv

LEMMA FindExistingStep ==
  ASSUME Inv, NEW w \in Workers, FindExisting(w) PROVE Inv' /\ Frozen
<1>1. PICK c \in Call, x \in Subjects : c = call[w] /\ c.at = "existing" /\ c.on = {x}
  BY DEF FindExisting, At, Inv, TypeOK, KnowsAll, Knows
<1>2. Reading /\ Existing(w) = Of(x)
  BY <1>1 DEF FindExisting, Existing
<1>3. OnTrack(c, x) => Rest(x)
  BY <1>1 DEF OnTrack, Revising
<1>4. CASE Of(x) = {} /\ Goto(w, "insert")
  <2>1. PICK d \in Call : d = [c EXCEPT !.at = "insert"]
    BY DEF Call, Step
  <2>2. Turn(w, d) /\ d.at = "insert" /\ d.on = {x}
    BY <1>1, <1>4, <2>1 DEF Goto, Call
  <2>3. Knows(d)
    BY <2>2 DEF Knows, OnOne, Revising, OnPayouts
  <2>4. OnTrack(c, x) => OnTrack(d, x)
    BY <1>3, <1>4, <2>2 DEF OnTrack, Revising
  <2> QED
    BY <1>1, <1>2, <2>2, <2>3, <2>4, ReadOn
<1>5. CASE Return(w)
  BY <1>1, <1>2, <1>3, <1>5, GiveUp
<1>6. CASE \E s \in Of(x) :
             Regenerable(s) /\ Turn(w, [call[w] EXCEPT !.at = "header", !.stmt = s])
  <2>1. PICK s \in Of(x) : Regenerable(s) /\ Turn(w, [c EXCEPT !.at = "header", !.stmt = s])
    BY <1>1, <1>6
  <2>2. s \in DOMAIN stmts /\ stmts[s].subject = x /\ s \in Nat /\ stmts[s].status = "draft"
    BY <2>1, LenProperties DEF Of, Inv, TypeOK, Regenerable
  <2>3. PICK d \in Call : d = [c EXCEPT !.at = "header", !.stmt = s]
    BY <2>2 DEF Call, Step
  <2>4. Turn(w, d) /\ d.at = "header" /\ d.stmt = s /\ d.on = {x}
    BY <1>1, <2>1, <2>3 DEF Call
  <2>5. Knows(d)
    BY <2>2, <2>4 DEF Knows, OnOne, Revising, OnPayouts
  <2>6. OnTrack(c, x) => OnTrack(d, x)
    BY <1>3, <2>2, <2>4 DEF OnTrack, Revising
  <2> QED
    BY <1>1, <1>2, <2>4, <2>5, <2>6, ReadOn
<1> QED
  BY <1>2, <1>4, <1>5, <1>6 DEF FindExisting

LEMMA CopyLinesStep ==
  ASSUME Inv, NEW w \in Workers, CopyLines(w) PROVE Inv' /\ Frozen
<1>1. PICK s \in DOMAIN stmts, x \in Subjects, c \in Call :
         /\ c = call[w] /\ s = c.stmt /\ x = stmts[s].subject /\ stmts[s] \in Statement
         /\ c.on = {x} /\ s \in Of(x)
         /\ c.at = "copy"
  <2>1. call[w].at = "copy" /\ "copy" \in OnOne
    BY DEF CopyLines, At, OnOne
  <2> QED
    BY <2>1, OneStatement
<1>2. Reading /\ c.new \in DOMAIN stmts /\ s < c.new /\ stmts[c.new].subject = x /\ c.new \in Nat
  BY <1>1 DEF CopyLines, Inv, KnowsAll, Knows, Revising, Call
<1>3. PICK d \in Call : d = [c EXCEPT !.at = "copy_lines", !.copy = stmts[s].lines]
  <2>1. stmts[s].lines \in Seq(Nat)
    BY <1>1 DEF Statement
  <2> QED
    BY <2>1 DEF Call, Step
<1>4. /\ Turn(w, d) /\ d.at = "copy_lines" /\ d.copy = stmts[s].lines /\ d.on = {x} /\ d.stmt = s
      /\ d.new = c.new /\ d.seen = c.seen
  BY <1>1, <1>3 DEF CopyLines, Call
<1>5. Knows(d)
  BY <1>1, <1>2, <1>4 DEF Knows, OnOne, Revising, OnPayouts
<1>6. OnTrack(c, x) => OnTrack(d, x)
  <2> SUFFICES ASSUME OnTrack(c, x) PROVE OnTrack(d, x)
    OBVIOUS
  <2>1. /\ stmts[s].owner = "disputed" /\ stmts[s].totals = c.seen
        /\ Chain(Of(x) \ {c.new}) /\ Told(Of(x) \ {c.new})
        /\ Live(c.new) /\ stmts[c.new].status = "draft" /\ stmts[c.new].totals = c.seen
        /\ stmts[c.new].lines = <<>>
    BY <1>1 DEF OnTrack, Revising
  <2>2. s \in Of(x) \ {c.new}
    BY <1>1, <1>2
  <2>3. stmts[s].lines = <<c.seen>>
    BY <2>1, <2>2 DEF Told
  <2> QED
    BY <1>4, <2>1, <2>3 DEF OnTrack, Revising
<1> QED
  BY <1>1, <1>2, <1>4, <1>5, <1>6, ReadOn

------------------------------------------------------------------------------
(* A statement is added *)

LEMMA AddKeepsInv ==
  ASSUME Inv, NEW w \in Workers, NEW x \in Subjects, NEW row \in Statement, row.subject = x,
         stmts' = Append(stmts, row), OnlyStmts, call[w].on = {x}, Moves(w), Knows(call[w])',
         ~mishap'[x] => LeftInOrder(w, x)
  PROVE  Inv' /\ Frozen
<1>1. UNCHANGED <<payouts, batch, ledger, faults>> /\ TypeOK
  BY DEF OnlyStmts, Inv
<1>2. /\ stmts' \in Seq(Statement)
      /\ \A r \in DOMAIN stmts : r \in DOMAIN stmts' /\ stmts'[r] = stmts[r]
      /\ RowsKept /\ \A y : y # x => Untouched(y)
  BY <1>1, RowAdded
<1>3. TypeOK'
  BY <1>1, <1>2 DEF TypeOK, Moves
<1>4. Frozen
  BY <1>2 DEF Frozen
<1> QED
  BY <1>2, <1>3, <1>4, StepKeepsInv

LEMMA SameRows ==
  ASSUME NEW S, \A r \in S : stmts'[r] = stmts[r]
  PROVE  Chain(S)' = Chain(S) /\ Told(S)' = Told(S)
<1>1. \A r \in S : Live(r)' = Live(r) /\ stmts'[r].next = stmts[r].next
  BY DEF Live
<1>2. Chain(S)' = Chain(S)
  BY <1>1 DEF Chain
<1>3. Told(S)' = Told(S)
  BY DEF Told
<1> QED
  BY <1>2, <1>3

\* What the parts of the invariant make of a draft that is added.
LEMMA DraftAdded ==
  ASSUME TypeOK, NEW x \in Subjects, NEW row \in Statement, row.subject = x,
         row.owner = "pending", row.thread = FALSE, row.next = 0,
         stmts' = Append(stmts, row), UNCHANGED payouts
  PROVE  LET n == Len(stmts) + 1 IN
         /\ n \in Nat /\ n \in DOMAIN stmts' /\ stmts'[n] = row
         /\ \A r \in DOMAIN stmts : r < n /\ r \in DOMAIN stmts' /\ stmts'[r] = stmts[r]
         /\ Of(x)' = Of(x) \cup {n} /\ Of(x)' \ {n} = Of(x)
         /\ \A S \in SUBSET Of(x) : Chain(S)' = Chain(S) /\ Told(S)' = Told(S)
         /\ Linked(x) => Linked(x)'
<1>1. PICK n : n = Len(stmts) + 1
  OBVIOUS
<1>2. /\ n \in Nat /\ n \in DOMAIN stmts' /\ stmts'[n] = row /\ n \notin DOMAIN stmts
      /\ \A r \in DOMAIN stmts : r < n /\ r \in DOMAIN stmts' /\ stmts'[r] = stmts[r]
      /\ Of(x)' = Of(x) \cup {n}
  BY <1>1, RowAdded
<1>3. Of(x)' \ {n} = Of(x) /\ Of(x) \subseteq DOMAIN stmts
  BY <1>2 DEF Of
<1>4. ASSUME NEW S \in SUBSET Of(x) PROVE Chain(S)' = Chain(S) /\ Told(S)' = Told(S)
  <2>1. \A r \in S : stmts'[r] = stmts[r]
    BY <1>2, <1>3
  <2> QED
    BY <2>1, SameRows
<1>5. Linked(x) => Linked(x)'
  BY <1>2, <1>3 DEF Linked
<1> QED
  BY <1>1, <1>2, <1>3, <1>4, <1>5

LEMMA InsertStatementStep ==
  ASSUME Inv, NEW w \in Workers, InsertStatement(w) PROVE Inv' /\ Frozen
<1>1. PICK c \in Call, x \in Subjects : c = call[w] /\ c.at = "insert" /\ c.on = {x}
  BY DEF InsertStatement, At, Inv, TypeOK, KnowsAll, Knows
<1>2. OnlyStmts /\ TypeOK /\ UNCHANGED <<payouts, batch, ledger, faults>>
  BY DEF InsertStatement, OnlyStmts, Inv
<1>3. PICK n : n = Len(stmts) + 1
  OBVIOUS
<1>4. Len(stmts) \in Nat /\ n \in Nat
  BY <1>2, <1>3, LenProperties DEF TypeOK
<1>5. PICK row \in Statement : row = Draft(x, n, 0, c.seen)
  BY <1>4, EmptySeq DEF Draft, Statement, Status, OwnerState, Call
<1>6. CASE Return(w) /\ UNCHANGED stmts
  <2>1. Reading
    BY <1>2, <1>6 DEF Reading, tables
  <2>2. \A y \in call[w].on : OnTrack(call[w], y) => Rest(y)
    BY <1>1 DEF OnTrack, Revising
  <2> QED
    BY <1>6, <2>1, <2>2, GiveUp
<1>7. CASE stmts' = Append(stmts, row) /\ Turn(w, [call[w] EXCEPT !.at = "lines", !.stmt = n])
  <2>1. PICK d \in Call : d = [c EXCEPT !.at = "lines", !.stmt = n]
    BY <1>4 DEF Call, Step
  <2>2. d.at = "lines" /\ d.stmt = n /\ d.on = {x} /\ d.seen = c.seen
    BY <1>1, <2>1 DEF Call
  <2>3. Moves(w) /\ call'[w] = d
    BY <1>1, <1>2, <1>7, <2>1, <2>2, TurnMoves
  <2>4. /\ row.subject = x /\ row.owner = "pending" /\ row.thread = FALSE /\ row.next = 0
        /\ row.status = "draft" /\ row.lines = <<>> /\ row.totals = c.seen
    BY <1>5 DEF Draft
  <2>5. /\ n \in DOMAIN stmts' /\ stmts'[n] = row
        /\ Of(x)' = Of(x) \cup {n} /\ Of(x)' \ {n} = Of(x)
        /\ Linked(x) => Linked(x)'
    BY <1>2, <1>3, <1>7, <2>4, DraftAdded
  <2>6. Knows(call[w])'
    BY <2>2, <2>3, <2>4, <2>5 DEF Knows, OnOne, Revising, OnPayouts
  <2>7. ASSUME ~mishap'[x] PROVE LeftInOrder(w, x)
    <3>1. Linked(x) /\ Of(x) = {}
      BY <1>1, <2>3, <2>7 DEF Inv, Moves, Orderly, OnTrack
    <3>2. Of(x)' = {n} /\ Told(Of(x) \ {n})'
      BY <2>5, <3>1 DEF Told
    <3>3. Live(n)'
      BY <2>4, <2>5 DEF Live
    <3>4. Chain(Of(x))'
      BY <3>2, <3>3 DEF Chain
    <3>5. OnTrack(call[w], x)'
      BY <2>2, <2>3, <2>4, <2>5, <3>2, <3>4 DEF OnTrack, Revising
    <3> QED
      BY <2>2, <2>3, <2>5, <3>1, <3>5 DEF LeftInOrder
  <2> QED
    BY <1>1, <1>2, <1>7, <2>3, <2>4, <2>6, <2>7, AddKeepsInv
<1> QED
  BY <1>1, <1>3, <1>5, <1>6, <1>7 DEF InsertStatement

LEMMA ReissueStep ==
  ASSUME Inv, NEW w \in Workers, Reissue(w) PROVE Inv' /\ Frozen
<1>1. PICK s \in DOMAIN stmts, x \in Subjects, c \in Call :
         /\ c = call[w] /\ s = c.stmt /\ x = stmts[s].subject /\ stmts[s] \in Statement
         /\ c.on = {x} /\ s \in Of(x)
         /\ c.at = "reissue"
  <2>1. call[w].at = "reissue" /\ "reissue" \in OnOne
    BY DEF Reissue, At, OnOne
  <2> QED
    BY <2>1, OneStatement
<1>2. OnlyStmts /\ TypeOK /\ UNCHANGED <<payouts, batch, ledger, faults>>
  BY DEF Reissue, OnlyStmts, Inv
<1>3. PICK n : n = Len(stmts) + 1
  OBVIOUS
<1>4. Len(stmts) \in Nat /\ n \in Nat
  BY <1>2, <1>3, LenProperties DEF TypeOK
<1>5. PICK row \in Statement : row = Draft(x, stmts[s].base, c.rev, c.seen)
  BY <1>1, EmptySeq DEF Draft, Statement, Status, OwnerState, Call
<1>6. CASE Return(w) /\ UNCHANGED stmts
  <2>1. Reading
    BY <1>2, <1>6 DEF Reading, tables
  <2>2. \A y \in call[w].on : OnTrack(call[w], y) => Rest(y)
    BY <1>1 DEF OnTrack, Revising
  <2> QED
    BY <1>6, <2>1, <2>2, GiveUp
<1>7. CASE stmts' = Append(stmts, row) /\ Turn(w, [call[w] EXCEPT !.at = "copy", !.new = n])
  <2>1. PICK d \in Call : d = [c EXCEPT !.at = "copy", !.new = n]
    BY <1>4 DEF Call, Step
  <2>2. d.at = "copy" /\ d.stmt = s /\ d.new = n /\ d.on = {x} /\ d.seen = c.seen
    BY <1>1, <2>1 DEF Call
  <2>3. Moves(w) /\ call'[w] = d
    BY <1>1, <1>2, <1>7, <2>1, <2>2, TurnMoves
  <2>4. /\ row.subject = x /\ row.owner = "pending" /\ row.thread = FALSE /\ row.next = 0
        /\ row.status = "draft" /\ row.lines = <<>> /\ row.totals = c.seen
    BY <1>5 DEF Draft
  <2>5. /\ n \in DOMAIN stmts' /\ stmts'[n] = row /\ s < n
        /\ s \in DOMAIN stmts' /\ stmts'[s] = stmts[s]
        /\ Of(x)' = Of(x) \cup {n} /\ Of(x)' \ {n} = Of(x)
        /\ \A S \in SUBSET Of(x) : Chain(S)' = Chain(S) /\ Told(S)' = Told(S)
        /\ Linked(x) => Linked(x)'
    BY <1>2, <1>3, <1>7, <2>4, DraftAdded
  <2>6. Knows(call[w])'
    BY <1>1, <2>2, <2>3, <2>4, <2>5 DEF Knows, OnOne, Revising, OnPayouts
  <2>7. ASSUME ~mishap'[x] PROVE LeftInOrder(w, x)
    <3>1. Linked(x) /\ OnTrack(c, x)
      BY <1>1, <2>3, <2>7 DEF Inv, Moves, Orderly
    <3>2. Rest(x) /\ stmts[s].owner = "disputed" /\ stmts[s].totals = c.seen
      BY <1>1, <3>1 DEF OnTrack, Revising
    <3>3. Chain(Of(x) \ {n})' /\ Told(Of(x) \ {n})'
      BY <2>5, <3>2 DEF Rest
    <3>4. Live(n)'
      BY <2>4, <2>5 DEF Live
    <3>5. OnTrack(call[w], x)'
      BY <2>2, <2>3, <2>4, <2>5, <3>2, <3>3, <3>4 DEF OnTrack, Revising
    <3> QED
      BY <2>2, <2>3, <2>5, <3>1, <3>5 DEF LeftInOrder
  <2> QED
    BY <1>1, <1>2, <1>7, <2>3, <2>4, <2>6, <2>7, AddKeepsInv
<1> QED
  BY <1>1, <1>3, <1>5, <1>6, <1>7 DEF Reissue

------------------------------------------------------------------------------
(* A revision takes over the lines and replaces the statement *)

LEMMA PasteLinesStep ==
  ASSUME Inv, NEW w \in Workers, PasteLines(w) PROVE Inv' /\ Frozen
<1>1. PICK s \in DOMAIN stmts, x \in Subjects, c \in Call :
         /\ c = call[w] /\ s = c.stmt /\ x = stmts[s].subject /\ stmts[s] \in Statement
         /\ c.on = {x} /\ s \in Of(x)
         /\ c.at = "copy_lines"
  <2>1. call[w].at = "copy_lines" /\ "copy_lines" \in OnOne
    BY DEF PasteLines, At, OnOne
  <2> QED
    BY <2>1, OneStatement
<1>2. OnlyStmts /\ TypeOK /\ UNCHANGED <<payouts, batch, ledger, faults>>
  BY DEF PasteLines, OnlyStmts, Inv
<1>3. PICK n \in DOMAIN stmts :
         n = c.new /\ s < n /\ s # n /\ stmts[n].subject = x /\ stmts[n] \in Statement
  <2>1. c.new \in DOMAIN stmts /\ s < c.new /\ stmts[c.new].subject = x
    BY <1>1 DEF Inv, KnowsAll, Knows, Revising
  <2>2. stmts[c.new] \in Statement /\ s \in Nat
    BY <1>1, <1>2, <2>1, ElementOfSeq, LenProperties DEF TypeOK
  <2> QED
    BY <2>1, <2>2
<1>4. PICK row \in Statement : row = [stmts[n] EXCEPT !.lines = stmts[n].lines \o c.copy]
  <2>1. stmts[n].lines \o c.copy \in Seq(Nat)
    BY <1>1, <1>3, ConcatProperties DEF Statement, Call
  <2> QED
    BY <1>3, <2>1 DEF Statement
<1>5. /\ row.subject = x /\ row.owner = stmts[n].owner /\ row.next = stmts[n].next
      /\ row.thread = stmts[n].thread /\ row.status = stmts[n].status
      /\ row.totals = stmts[n].totals /\ row.lines = stmts[n].lines \o c.copy
  BY <1>3, <1>4 DEF Statement
<1>6. Write(n, row) /\ Goto(w, "supersede")
  BY <1>1, <1>3, <1>4 DEF PasteLines
<1>7. PICK d \in Call : d = [c EXCEPT !.at = "supersede"]
  BY DEF Call, Step
<1>8. d.at = "supersede" /\ d.on = {x} /\ d.stmt = s /\ d.new = n /\ d.seen = c.seen
  BY <1>1, <1>3, <1>7 DEF Call
<1>9. Moves(w) /\ call'[w] = d
  BY <1>1, <1>2, <1>6, <1>7, GotoMoves DEF Step
<1>10. /\ stmts' \in Seq(Statement) /\ DOMAIN stmts' = DOMAIN stmts /\ stmts'[n] = row
       /\ \A r \in DOMAIN stmts \ {n} : stmts'[r] = stmts[r]
       /\ RowsKept /\ Of(x)' = Of(x) /\ \A y : y # x => Untouched(y)
  BY <1>2, <1>3, <1>5, <1>6, RowWritten
<1>11. TypeOK'
  BY <1>2, <1>9, <1>10 DEF TypeOK, Moves
<1>12. Knows(call[w])'
  BY <1>1, <1>3, <1>8, <1>9, <1>10 DEF Knows, OnOne, Revising, OnPayouts, RowsKept
<1>13. ASSUME ~mishap'[x] PROVE LeftInOrder(w, x) /\ stmts[n].status = "draft"
  <2>1. Linked(x) /\ OnTrack(c, x)
    BY <1>1, <1>9, <1>13 DEF Inv, Moves, Orderly
  <2>2. /\ stmts[s].owner = "disputed" /\ stmts[s].totals = c.seen
        /\ Chain(Of(x) \ {n}) /\ Told(Of(x) \ {n})
        /\ Live(n) /\ stmts[n].status = "draft" /\ stmts[n].totals = c.seen
        /\ stmts[n].lines = <<>> /\ c.copy = <<c.seen>>
    BY <1>1, <1>3, <2>1 DEF OnTrack, Revising
  <2>3. Linked(x)'
    <3>1. \A r \in Of(x) : /\ stmts'[r].thread = stmts[r].thread /\ stmts'[r].owner = stmts[r].owner
                           /\ stmts'[r].next = stmts[r].next
      BY <1>5, <1>10 DEF Of
    <3> QED
      BY <1>10, <2>1, <3>1 DEF Linked
  <2>4. Chain(Of(x) \ {n})' /\ Told(Of(x) \ {n})'
    BY <1>2, <1>3, <1>5, <1>6, <1>10, <2>2, RowsRewritten
  <2>5. row.lines = <<c.seen>>
    BY <1>1, <1>5, <2>2, ConcatEmptySeq DEF Call
  <2>6. Live(n)' /\ stmts'[n].status = "draft" /\ stmts'[n].totals = c.seen
        /\ stmts'[n].lines = <<c.seen>>
    BY <1>5, <1>10, <2>2, <2>5 DEF Live
  <2>7. stmts'[s].owner = "disputed" /\ stmts'[s].totals = c.seen
    BY <1>3, <1>10, <2>2
  <2>8. OnTrack(call[w], x)'
    BY <1>8, <1>9, <2>4, <2>6, <2>7 DEF OnTrack, Revising
  <2> QED
    BY <1>8, <1>9, <2>2, <2>3, <2>8 DEF LeftInOrder
<1>14. Inv'
  BY <1>1, <1>9, <1>10, <1>11, <1>12, <1>13, StepKeepsInv
<1>15. Frozen
  BY <1>3, <1>10, <1>13 DEF Frozen
<1> QED
  BY <1>14, <1>15

LEMMA SupersedeStep ==
  ASSUME Inv, NEW w \in Workers, Supersede(w) PROVE Inv' /\ Frozen
<1>1. PICK s \in DOMAIN stmts, x \in Subjects, c \in Call :
         /\ c = call[w] /\ s = c.stmt /\ x = stmts[s].subject /\ stmts[s] \in Statement
         /\ c.on = {x} /\ s \in Of(x)
         /\ c.at = "supersede"
  <2>1. call[w].at = "supersede" /\ "supersede" \in OnOne
    BY DEF Supersede, At, OnOne
  <2> QED
    BY <2>1, OneStatement
<1>2. OnlyStmts /\ TypeOK /\ UNCHANGED <<payouts, batch, ledger, faults>>
  BY DEF Supersede, OnlyStmts, Inv
<1>3. PICK n \in DOMAIN stmts :
         n = c.new /\ s < n /\ s # n /\ n # 0 /\ n \in Nat /\ stmts[n].subject = x /\ n \in Of(x)
  <2>1. c.new \in DOMAIN stmts /\ s < c.new /\ stmts[c.new].subject = x
    BY <1>1 DEF Inv, KnowsAll, Knows, Revising
  <2>2. s \in Nat /\ c.new \in Nat /\ c.new # 0
    BY <1>1, <1>2, <2>1, LenProperties DEF TypeOK
  <2> QED
    BY <2>1, <2>2 DEF Of
<1>4. PICK row \in Statement : row = [stmts[s] EXCEPT !.owner = "superseded", !.next = n]
  BY <1>1, <1>3 DEF Statement, OwnerState
<1>5. /\ row.subject = x /\ row.owner = "superseded" /\ row.next = n
      /\ row.thread = stmts[s].thread /\ row.status = stmts[s].status
      /\ row.totals = stmts[s].totals /\ row.lines = stmts[s].lines
  BY <1>1, <1>4 DEF Statement
<1>6. Write(s, row) /\ Return(w)
  BY <1>1, <1>3, <1>4 DEF Supersede
<1>7. Moves(w) /\ call'[w].on = {} /\ Knows(call[w])'
  BY <1>2, <1>6, ReturnMoves
<1>8. /\ stmts' \in Seq(Statement) /\ DOMAIN stmts' = DOMAIN stmts /\ stmts'[s] = row
      /\ \A r \in DOMAIN stmts \ {s} : stmts'[r] = stmts[r]
      /\ RowsKept /\ Of(x)' = Of(x) /\ \A y : y # x => Untouched(y)
  BY <1>1, <1>2, <1>5, <1>6, RowWritten
<1>9. TypeOK'
  BY <1>2, <1>7, <1>8 DEF TypeOK, Moves
<1>10. ASSUME ~mishap'[x] PROVE LeftInOrder(w, x)
  <2>1. Linked(x) /\ OnTrack(c, x)
    BY <1>1, <1>7, <1>10 DEF Inv, Moves, Orderly
  <2>2. /\ stmts[s].owner = "disputed" /\ stmts[s].totals = c.seen
        /\ Chain(Of(x) \ {n}) /\ Told(Of(x) \ {n})
        /\ Live(n) /\ stmts[n].totals = c.seen /\ stmts[n].lines = <<c.seen>>
    BY <1>1, <1>3, <2>1 DEF OnTrack, Revising
  <2>3. \A r \in Of(x) \ {s} : stmts'[r] = stmts[r] /\ Live(r)' = Live(r)
    BY <1>8 DEF Of, Live
  <2>4. Linked(x)'
    <3>1. stmts[s].thread
      BY <1>1, <2>1, <2>2 DEF Linked
    <3> QED
      BY <1>2, <1>1, <1>3, <1>5, <1>6, <2>1, <3>1, RowsRewritten
  <2>5. Told(Of(x))'
    <3>1. \A r \in Of(x) : stmts'[r].lines = stmts[r].lines /\ stmts'[r].totals = stmts[r].totals
      BY <1>5, <1>8 DEF Of
    <3>2. Told(Of(x))
      BY <2>2 DEF Told
    <3> QED
      BY <1>8, <3>1, <3>2 DEF Told
  <2>6. Chain(Of(x))'
    <3>1. Live(n)' /\ ~Live(s)' /\ stmts'[s].next = n
      BY <1>3, <1>5, <1>8, <2>2, <2>3 DEF Live
    <3>2. Live(s)
      BY <2>2 DEF Live
    <3>3. \A r \in Of(x) \ {s, n} :
            /\ ~Live(r) /\ ~Live(r)'
            /\ stmts'[r].next = stmts[r].next /\ stmts[r].next \in Of(x) \ {n}
            /\ r < stmts[r].next
      BY <1>1, <1>3, <2>2, <2>3, <3>2 DEF Chain
    <3>4. ASSUME NEW q \in Of(x), NEW r \in Of(x)
          PROVE  /\ Live(q)' /\ Live(r)' => q = r
                 /\ ~Live(r)' => stmts'[r].next \in Of(x) /\ r < stmts'[r].next
                 /\ ~Live(q)' /\ ~Live(r)' /\ stmts'[q].next = stmts'[r].next => q = r
      <4>1. Live(q)' /\ Live(r)' => q = r
        BY <3>1, <3>3
      <4>2. ~Live(r)' => stmts'[r].next \in Of(x) /\ r < stmts'[r].next
        BY <1>3, <3>1, <3>3
      <4>3. ~Live(q)' /\ ~Live(r)' /\ stmts'[q].next = stmts'[r].next => q = r
        <5>1. CASE q = s \/ r = s
          BY <3>1, <3>3, <5>1
        <5>2. CASE q # s /\ r # s
          <6>1. ~Live(q)' /\ ~Live(r)' => q \in Of(x) \ {s, n} /\ r \in Of(x) \ {s, n}
            BY <3>1, <5>2
          <6> QED
            BY <2>2, <3>3, <6>1 DEF Chain
        <5> QED
          BY <5>1, <5>2
      <4> QED
        BY <4>1, <4>2, <4>3
    <3> QED
      BY <1>8, <3>4 DEF Chain
  <2> QED
    BY <1>7, <2>4, <2>5, <2>6 DEF LeftInOrder, Rest
<1>11. Inv'
  BY <1>1, <1>7, <1>8, <1>9, <1>10, StepKeepsInv
<1>12. Frozen
  BY <1>5, <1>8 DEF Frozen
<1> QED
  BY <1>11, <1>12

------------------------------------------------------------------------------
(* The sweep of the automatic acknowledgement, and what no worker does     *)

LEMMA SweepOneStep ==
  ASSUME Inv, NEW w \in Workers, SweepOne(w) PROVE Inv' /\ Frozen
<1>1. PICK c \in Call : c = call[w] /\ c.at = "sweep" /\ c.rows \subseteq DOMAIN stmts
                        /\ c.on = {stmts[r].subject : r \in c.rows}
  BY DEF SweepOne, At, Inv, TypeOK, KnowsAll, Knows
<1>2. OnlyStmts /\ TypeOK /\ UNCHANGED <<payouts, batch, ledger, faults>>
  BY DEF SweepOne, OnlyStmts, Inv
<1>3. PICK s \in c.rows :
         LET left == c.rows \ {s} IN
         /\ Write(s, [stmts[s] EXCEPT !.owner = "auto_acknowledged"])
         /\ IF left = {} THEN Return(w)
            ELSE Turn(w, [c EXCEPT !.rows = left, !.on = {stmts[r].subject : r \in left}])
  BY <1>1 DEF SweepOne
<1>4. PICK left \in SUBSET c.rows : left = c.rows \ {s}
  OBVIOUS
<1>5. s \in DOMAIN stmts /\ stmts[s] \in Statement
  BY <1>1, <1>2, ElementOfSeq DEF TypeOK
<1>6. PICK x \in Subjects : x = stmts[s].subject /\ s \in Of(x)
  BY <1>5 DEF Statement, Of
<1>7. PICK row \in Statement : row = [stmts[s] EXCEPT !.owner = "auto_acknowledged"]
  BY <1>5 DEF Statement, OwnerState
<1>8. /\ row.subject = x /\ row.owner = "auto_acknowledged" /\ row.next = stmts[s].next
      /\ row.thread = stmts[s].thread /\ row.status = stmts[s].status
      /\ row.totals = stmts[s].totals /\ row.lines = stmts[s].lines
  BY <1>5, <1>6, <1>7 DEF Statement
<1>9. Write(s, row)
  BY <1>3, <1>7
<1>10. /\ stmts' \in Seq(Statement) /\ DOMAIN stmts' = DOMAIN stmts /\ stmts'[s] = row
       /\ \A r \in DOMAIN stmts \ {s} : stmts'[r] = stmts[r]
       /\ RowsKept /\ \A y : Of(y)' = Of(y) /\ (y # x => Untouched(y))
  BY <1>2, <1>5, <1>6, <1>8, <1>9, RowWritten
<1>11. /\ Moves(w) /\ Knows(call[w])'
       /\ \A y \in call'[w].on : call'[w].at = "sweep" /\ call'[w].rows = left
  <2>1. CASE left = {}
    BY <1>2, <1>3, <1>4, <2>1, ReturnMoves
  <2>2. CASE left # {}
    <3>1. PICK on \in SUBSET Subjects : on = {stmts[r].subject : r \in left} /\ on \subseteq c.on
      <4>1. {stmts[r].subject : r \in left} \subseteq c.on /\ c.on \subseteq Subjects
        BY <1>1, <1>4 DEF Call
      <4> QED
        BY <4>1
    <3>2. PICK d \in Call : d = [c EXCEPT !.rows = left, !.on = on]
      BY DEF Call
    <3>3. Turn(w, d)
      BY <1>3, <1>4, <2>2, <3>1, <3>2
    <3>4. d.at = "sweep" /\ d.rows = left /\ d.on = on
      BY <1>1, <3>2 DEF Call
    <3>5. Moves(w) /\ call'[w] = d
      BY <1>1, <1>2, <3>1, <3>3, <3>4, TurnMoves
    <3>6. on = {stmts'[r].subject : r \in left}
      BY <1>1, <1>10, <3>1 DEF RowsKept
    <3>7. Knows(call[w])'
      BY <1>1, <1>10, <3>4, <3>5, <3>6 DEF Knows, OnOne, Revising, OnPayouts
    <3> QED
      BY <3>4, <3>5, <3>7
  <2> QED
    BY <2>1, <2>2
<1>12. TypeOK'
  BY <1>2, <1>10, <1>11 DEF TypeOK, Moves
<1>13. ASSUME NEW y \in call[w].on, ~mishap'[y] PROVE LeftInOrder(w, y)
  <2>1. y \in Subjects
    BY <1>1 DEF Call
  <2>2. Linked(y) /\ OnTrack(c, y)
    BY <1>1, <1>11, <1>13, <2>1 DEF Inv, Moves, Orderly
  <2>3. Rest(y) /\ \A r \in Of(y) : r \in c.rows => Awaiting(r)
    BY <1>1, <2>2 DEF OnTrack, Revising
  <2>4. Linked(y)' /\ Rest(y)'
    <3>1. CASE y # x
      BY <1>10, <2>1, <2>2, <2>3, <3>1, UntouchedRows
    <3>2. CASE y = x
      <4>1. stmts[s].owner \in {"pending", "viewed"} /\ stmts[s].lines = <<stmts[s].totals>>
        BY <1>6, <2>3, <3>2 DEF Awaiting, Rest, Told
      <4>2. ~stmts[s].thread /\ stmts[s].next = 0
        BY <1>6, <2>2, <3>2, <4>1 DEF Linked
      <4>3. /\ \A S \in SUBSET Of(x) : s \notin S => Told(S)' = Told(S)
            /\ \A S \in SUBSET Of(x) : Chain(S)' = Chain(S)
            /\ Told(Of(x))' <=> Told(Of(x) \ {s}) /\ row.lines = <<row.totals>>
            /\ Linked(x)'
        BY <1>2, <1>5, <1>6, <1>8, <1>9, <2>2, <3>2, <4>1, <4>2, RowsRewritten
      <4>4. Chain(Of(x)) /\ Told(Of(x) \ {s})
        BY <2>3, <3>2 DEF Rest, Told
      <4> QED
        BY <1>8, <1>10, <3>2, <4>1, <4>3, <4>4 DEF Rest
    <3> QED
      BY <3>1, <3>2
  <2>5. \A r \in Of(y) : r \in left => Awaiting(r)'
    BY <1>4, <1>10, <2>3 DEF Of, Awaiting
  <2>6. y \in call'[w].on => OnTrack(call[w], y)'
    BY <1>10, <1>11, <2>4, <2>5 DEF OnTrack, Revising
  <2> QED
    BY <2>4, <2>6 DEF LeftInOrder
<1>14. Inv'
  <2>1. \A y \in Subjects : y \notin call[w].on => y # x
    BY <1>1, <1>6
  <2> QED
    BY <1>10, <1>11, <1>12, <1>13, <2>1, StepKeepsInv
<1>15. Frozen
  BY <1>8, <1>10 DEF Frozen
<1> QED
  BY <1>14, <1>15

LEMMA RequestChangesStep ==
  ASSUME Inv, NEW s \in DOMAIN stmts, RequestChanges(s) PROVE Inv' /\ Frozen
<1>1. UNCHANGED <<payouts, batch, ledger, faults, call>> /\ TypeOK
  BY DEF RequestChanges, OnlyStmts, Inv
<1>2. stmts[s] \in Statement
  BY <1>1, ElementOfSeq DEF TypeOK
<1>3. PICK x \in Subjects : x = stmts[s].subject
  BY <1>2 DEF Statement
<1>4. PICK row \in Statement : row = [stmts[s] EXCEPT !.status = "disputed"]
  BY <1>2 DEF Statement, Status
<1>5. /\ row.subject = x /\ row.owner = stmts[s].owner /\ row.next = stmts[s].next
      /\ row.thread = stmts[s].thread /\ row.status = "disputed"
      /\ row.totals = stmts[s].totals /\ row.lines = stmts[s].lines
  BY <1>2, <1>3, <1>4 DEF Statement
<1>6. Write(s, row)
  BY <1>4 DEF RequestChanges
<1>7. mishap' = [mishap EXCEPT ![x] = @ \/ Busy(x)] /\ mishap \in [Subjects -> BOOLEAN]
  BY <1>1, <1>3 DEF RequestChanges, TypeOK
<1>8. /\ mishap' \in [Subjects -> BOOLEAN]
      /\ \A y \in Subjects : mishap[y] => mishap'[y]
      /\ ~mishap'[x] => ~Busy(x) /\ ~mishap[x]
  BY <1>7 DEF Busy
<1>9. /\ stmts' \in Seq(Statement) /\ DOMAIN stmts' = DOMAIN stmts /\ stmts'[s] = row
      /\ \A r \in DOMAIN stmts \ {s} : stmts'[r] = stmts[r]
      /\ RowsKept /\ \A y : Of(y)' = Of(y) /\ (y # x => Untouched(y))
  BY <1>1, <1>3, <1>5, <1>6, RowWritten
<1>10. TypeOK'
  BY <1>1, <1>8, <1>9 DEF TypeOK
<1>11. ASSUME ~mishap'[x] PROVE ~Busy(x) /\ Linked(x)' /\ Rest(x)'
  <2>1. Linked(x) /\ Rest(x) /\ ~Busy(x)
    BY <1>8, <1>11 DEF Inv, Orderly
  <2>2. \A r \in Of(x) : /\ stmts'[r].thread = stmts[r].thread /\ stmts'[r].owner = stmts[r].owner
                         /\ stmts'[r].next = stmts[r].next /\ stmts'[r].totals = stmts[r].totals
                         /\ stmts'[r].lines = stmts[r].lines /\ Live(r)' = Live(r)
    BY <1>5, <1>9 DEF Of, Live
  <2>3. Linked(x)'
    BY <1>9, <2>1, <2>2 DEF Linked
  <2>4. Told(Of(x))'
    BY <1>9, <2>1, <2>2 DEF Rest, Told
  <2>5. Chain(Of(x))'
    BY <1>9, <2>1, <2>2 DEF Rest, Chain
  <2> QED
    BY <2>1, <2>3, <2>4, <2>5 DEF Rest
<1>12. Inv'
  <2>1. \A y \in Subjects : LeftAlone(y)
    BY <1>9, <1>11 DEF LeftAlone
  <2>2. call' = call /\ \A y \in Subjects : mishap[y] => mishap'[y]
    BY <1>1, <1>8
  <2> QED
    BY <1>9, <1>10, <2>1, <2>2, NobodyMoves
<1>13. Frozen
  BY <1>5, <1>9 DEF Frozen
<1> QED
  BY <1>12, <1>13

LEMMA TimerPassesStep ==
  ASSUME Inv, NEW s \in DOMAIN stmts, TimerPasses(s) PROVE Inv' /\ Frozen
<1>1. UNCHANGED <<payouts, batch, ledger, faults, call, mishap>> /\ TypeOK
  BY DEF TimerPasses, OnlyStmts, Inv
<1>2. stmts[s] \in Statement
  BY <1>1, ElementOfSeq DEF TypeOK
<1>3. PICK row \in Statement : row = [stmts[s] EXCEPT !.timer = "passed"]
  BY <1>2 DEF Statement
<1>4. /\ row.subject = stmts[s].subject /\ row.owner = stmts[s].owner /\ row.next = stmts[s].next
      /\ row.thread = stmts[s].thread /\ row.status = stmts[s].status
      /\ row.totals = stmts[s].totals /\ row.lines = stmts[s].lines
  BY <1>2, <1>3 DEF Statement
<1>5. Write(s, row)
  BY <1>3 DEF TimerPasses
<1>6. /\ stmts' \in Seq(Statement) /\ DOMAIN stmts' = DOMAIN stmts /\ stmts'[s] = row
      /\ \A r \in DOMAIN stmts \ {s} : stmts'[r] = stmts[r]
      /\ RowsKept /\ \A y : Of(y)' = Of(y)
  BY <1>1, <1>4, <1>5, RowWritten
<1>7. \A r \in DOMAIN stmts : Same(r)
  BY <1>4, <1>6 DEF Same
<1>8. \A y : Untouched(y)
  BY <1>6, <1>7 DEF Untouched, Of
<1>9. TypeOK'
  BY <1>1, <1>6 DEF TypeOK
<1>10. Inv'
  <2>1. \A y \in Subjects : LeftAlone(y)
    BY <1>8 DEF LeftAlone
  <2>2. call' = call /\ \A y \in Subjects : mishap[y] => mishap'[y]
    BY <1>1
  <2> QED
    BY <1>6, <1>9, <2>1, <2>2, NobodyMoves
<1>11. Frozen
  BY <1>7 DEF Frozen, Same
<1> QED
  BY <1>10, <1>11

------------------------------------------------------------------------------
(* Payouts *)

LEMMA StatementsUnchanged ==
  ASSUME UNCHANGED stmts
  PROVE  Frozen /\ \A x : Untouched(x) /\ Linked(x)' = Linked(x) /\ Rest(x)' = Rest(x)
<1>1. \A x : Of(x)' = Of(x)
  BY DEF Of
<1> QED
  BY <1>1 DEF Frozen, Untouched, Same, Linked, Rest, Chain, Told, Live

LEMMA PayoutsWritten ==
  ASSUME Inv, NEW w \in Workers, Return(w), UNCHANGED <<stmts, ledger, faults>>,
         batch' \in {"draft", "approved", "paid", "cancelled"},
         payouts' \in Seq(PayoutLine), \A p \in DOMAIN payouts' : payouts'[p].stmt \in DOMAIN stmts,
         \A p \in DOMAIN payouts : p \in DOMAIN payouts' /\ payouts'[p].stmt = payouts[p].stmt,
         \A x \in call[w].on : OnTrack(call[w], x) => Rest(x)
  PROVE  Inv'
<1>1. TypeOK
  BY DEF Inv
<1>2. Moves(w) /\ call'[w].on = {} /\ Knows(call[w])'
  BY <1>1, ReturnMoves
<1>3. TypeOK'
  BY <1>1, <1>2 DEF TypeOK, Moves
<1>4. RowsKept
  BY DEF RowsKept
<1>5. \A x : Untouched(x) /\ Linked(x)' = Linked(x) /\ Rest(x)' = Rest(x)
  BY StatementsUnchanged
<1>6. ASSUME NEW x \in call[w].on, ~mishap'[x] PROVE LeftInOrder(w, x)
  <2>1. x \in Subjects
    BY <1>1, <1>6 DEF TypeOK, Call
  <2>2. Linked(x) /\ Rest(x)
    BY <1>2, <1>6, <2>1 DEF Inv, Moves, Orderly
  <2> QED
    BY <1>2, <1>5, <2>2 DEF LeftInOrder
<1> QED
  BY <1>2, <1>3, <1>4, <1>5, <1>6, StepKeepsInv

LEMMA InsertPayoutLineStep ==
  ASSUME Inv, NEW w \in Workers, InsertPayoutLine(w) PROVE Inv' /\ Frozen /\ Held
<1>1. PICK s \in DOMAIN stmts, x \in Subjects, c \in Call :
         c = call[w] /\ s = c.stmt /\ c.on = {x} /\ c.at = "line_new"
  <2>1. call[w].at = "line_new" /\ "line_new" \in OnOne
    BY DEF InsertPayoutLine, At, OnOne
  <2> QED
    BY <2>1, OneStatement
<1>2. Return(w) /\ UNCHANGED <<stmts, batch, ledger, faults>> /\ TypeOK
  BY DEF InsertPayoutLine, OnlyPayouts, Inv
<1>3. PICK row \in PayoutLine : row = [stmt |-> s, status |-> "pending", batch |-> c.flag]
  <2>1. s \in Nat
    BY <1>2, LenProperties DEF TypeOK
  <2> QED
    BY <1>1, <2>1 DEF PayoutLine, LineStatus, Call
<1>4. payouts' = Append(payouts, row)
  BY <1>1, <1>3 DEF InsertPayoutLine
<1>5. payouts \in Seq(PayoutLine) /\ \A p \in DOMAIN payouts : payouts[p].stmt \in DOMAIN stmts
  BY <1>2 DEF TypeOK
<1>6. /\ payouts' \in Seq(PayoutLine) /\ Len(payouts') = Len(payouts) + 1
      /\ payouts'[Len(payouts) + 1] = row /\ \A p \in 1..Len(payouts) : payouts'[p] = payouts[p]
  BY <1>4, <1>5, AppendProperties
<1>7. /\ DOMAIN payouts = 1..Len(payouts) /\ Len(payouts) \in Nat
      /\ DOMAIN payouts' = 1..(Len(payouts) + 1)
  BY <1>5, <1>6, LenProperties
<1>8. /\ \A p \in DOMAIN payouts : p \in DOMAIN payouts' /\ payouts'[p] = payouts[p]
      /\ \A p \in DOMAIN payouts' : p \in DOMAIN payouts \/ payouts'[p] = row
  BY <1>6, <1>7
<1>9. row.stmt = s
  BY <1>3
<1>10. \A p \in DOMAIN payouts' : payouts'[p].stmt \in DOMAIN stmts
  BY <1>5, <1>8, <1>9
<1>11. \A y \in call[w].on : OnTrack(call[w], y) => Rest(y)
  BY <1>1 DEF OnTrack, Revising
<1>12. batch' \in {"draft", "approved", "paid", "cancelled"}
  BY <1>2 DEF TypeOK
<1>13. Inv'
  BY <1>2, <1>6, <1>8, <1>10, <1>11, <1>12, PayoutsWritten
<1>14. Frozen /\ Held
  BY <1>2, <1>8, StatementsUnchanged DEF Held, BecomesPaid
<1> QED
  BY <1>13, <1>14

\* What a worker at work on payout lines has to go by.
LEMMA OnLines ==
  ASSUME Inv, NEW w \in Workers, call[w].at \in OnPayouts
  PROVE  \E c \in Call :
           /\ c = call[w] /\ c.rows \subseteq DOMAIN payouts /\ c.on = {SubjectOf(p) : p \in c.rows}
           /\ \A x \in c.on : OnTrack(c, x) => Rest(x)
<1>1. PICK c \in Call : c = call[w]
  BY DEF Inv, TypeOK
<1>2. c.rows \subseteq DOMAIN payouts /\ c.on = {SubjectOf(p) : p \in c.rows}
  BY <1>1 DEF Inv, KnowsAll, Knows
<1>3. \A x \in c.on : OnTrack(c, x) => Rest(x)
  BY <1>1 DEF OnTrack, OnPayouts, Revising
<1> QED
  BY <1>1, <1>2, <1>3

\* The step that checks for disputes, whatever it goes on to.
LEMMA CheckStep ==
  ASSUME Inv, NEW w \in Workers, NEW here, NEW next,
         <<here, next>> \in {<<"line_check", "line_set">>, <<"batch_check", "batch_pay">>},
         At(w, here), IF Paused(w) THEN Return(w) ELSE Goto(w, next), Reading
  PROVE  Inv' /\ Frozen /\ Held
<1>1. /\ here \in OnPayouts /\ next \in OnPayouts /\ next \in Step
      /\ next \in {"line_set", "batch_pay"} /\ call[w].at = here
      /\ next = "line_set" => here = "line_check"
  BY DEF OnPayouts, Step, At
<1>2. PICK c \in Call :
         /\ c = call[w] /\ c.rows \subseteq DOMAIN payouts /\ c.on = {SubjectOf(p) : p \in c.rows}
         /\ \A x \in c.on : OnTrack(c, x) => Rest(x)
  BY <1>1, OnLines
<1>3. CASE Paused(w)
  BY <1>2, <1>3, GiveUp
<1>4. CASE ~Paused(w)
  <2>1. PICK d \in Call : d = [c EXCEPT !.at = next]
    BY <1>1 DEF Call
  <2>2. d.at = next /\ d.on = c.on /\ d.rows = c.rows /\ d.to = c.to
    BY <2>1 DEF Call
  <2>3. Turn(w, d)
    BY <1>2, <1>4, <2>1 DEF Goto
  <2>4. next = "line_set" => c.to \in LineStatus
    BY <1>1, <1>2 DEF Inv, KnowsAll, Knows
  <2>5. Knows(d)
    BY <1>1, <1>2, <2>2, <2>4 DEF Knows, OnOne, Revising, OnPayouts
  <2>6. \A p \in c.rows : ~Disputed(payouts[p].stmt)
    BY <1>2, <1>4 DEF Paused
  <2>7. \A x \in c.on : OnTrack(c, x) => OnTrack(d, x)
    BY <1>1, <1>2, <2>2, <2>6 DEF OnTrack, Revising
  <2> QED
    BY <1>2, <2>2, <2>3, <2>5, <2>7, ReadOn
<1> QED
  BY <1>3, <1>4

LEMMA CheckLineStep ==
  ASSUME Inv, NEW w \in Workers, CheckLine(w) PROVE Inv' /\ Frozen /\ Held
  BY CheckStep DEF CheckLine

LEMMA CheckBatchStep ==
  ASSUME Inv, NEW w \in Workers, CheckBatch(w) PROVE Inv' /\ Frozen /\ Held
  BY CheckStep DEF CheckBatch

\* Lines that no dispute keeps from being paid are given their new status.
LEMMA PayoutStep ==
  ASSUME Inv, NEW w \in Workers, call[w].at \in {"line_set", "batch_pay"}, Return(w),
         UNCHANGED <<stmts, ledger, faults>>,
         batch' \in {"draft", "approved", "paid", "cancelled"},
         NEW to \in LineStatus, call[w].at = "line_set" => to = call[w].to,
         NEW P \in [DOMAIN payouts -> PayoutLine], payouts' = P,
         \A p \in DOMAIN payouts : /\ P[p].stmt = payouts[p].stmt
                                   /\ P[p].status # payouts[p].status =>
                                        p \in call[w].rows /\ P[p].status = to
  PROVE  Inv' /\ Frozen /\ Held
<1>1. PICK c \in Call :
         /\ c = call[w] /\ c.rows \subseteq DOMAIN payouts /\ c.on = {SubjectOf(p) : p \in c.rows}
         /\ \A x \in c.on : OnTrack(c, x) => Rest(x)
  BY OnLines DEF OnPayouts
<1>2. /\ payouts \in Seq(PayoutLine) /\ \A p \in DOMAIN payouts : payouts[p].stmt \in DOMAIN stmts
      /\ TypeOK /\ stmts \in Seq(Statement)
  BY DEF Inv, TypeOK
<1>3. payouts' \in Seq(PayoutLine) /\ DOMAIN payouts' = DOMAIN payouts
  <2>1. DOMAIN payouts = 1..Len(payouts) /\ Len(payouts) \in Nat
    BY <1>2, LenProperties
  <2>2. P \in Seq(PayoutLine)
    BY <2>1, SeqDef
  <2> QED
    BY <2>2
<1>4. Inv'
  BY <1>1, <1>2, <1>3, PayoutsWritten
<1>5. Frozen
  BY StatementsUnchanged
<1>6. ASSUME NEW p \in DOMAIN payouts, BecomesPaid(p), ~mishap'[SubjectOf(p)]
      PROVE  ~UnderDispute(payouts[p].stmt)
  <2>1. p \in c.rows /\ to = "paid" /\ SubjectOf(p) \in c.on
    BY <1>1, <1>6 DEF BecomesPaid
  <2>2. PICK s \in DOMAIN stmts, x \in Subjects :
           s = payouts[p].stmt /\ x = stmts[s].subject /\ x = SubjectOf(p) /\ s \in Of(x)
    <3>1. PICK s \in DOMAIN stmts : s = payouts[p].stmt
      BY <1>2
    <3>2. stmts[s] \in Statement
      BY <1>2, <3>1, ElementOfSeq
    <3>3. stmts[s].subject \in Subjects
      BY <3>2 DEF Statement
    <3> QED
      BY <3>1, <3>3 DEF SubjectOf, Of
  <2>3. Linked(x) /\ OnTrack(c, x)
    <3>1. Moves(w)
      BY <1>2, ReturnMoves
    <3> QED
      BY <1>1, <1>6, <2>1, <2>2, <3>1 DEF Moves, Inv, Orderly
  <2>4. ~Disputed(s)
    BY <1>1, <2>1, <2>2, <2>3 DEF OnTrack
  <2> QED
    BY <2>2, <2>3, <2>4 DEF Linked, Disputed, UnderDispute
<1> QED
  BY <1>4, <1>5, <1>6 DEF Held

LEMMA SetLineStep ==
  ASSUME Inv, NEW w \in Workers, SetLine(w) PROVE Inv' /\ Frozen /\ Held
<1>1. call[w].at = "line_set" /\ Return(w) /\ UNCHANGED <<stmts, batch, ledger, faults>>
  BY DEF SetLine, At, OnlyPayouts
<1>2. PICK to \in LineStatus : to = call[w].to
  BY <1>1 DEF Inv, KnowsAll, Knows
<1>3. PICK P : P = [p \in DOMAIN payouts |->
                      IF p \in call[w].rows THEN [payouts[p] EXCEPT !.status = to] ELSE payouts[p]]
  OBVIOUS
<1>4. payouts' = P
  BY <1>2, <1>3 DEF SetLine
<1>5. \A p \in DOMAIN payouts : payouts[p] \in PayoutLine
  BY ElementOfSeq DEF Inv, TypeOK
<1>6. P \in [DOMAIN payouts -> PayoutLine]
  BY <1>3, <1>5 DEF PayoutLine
<1>7. \A p \in DOMAIN payouts : /\ P[p].stmt = payouts[p].stmt
                                /\ P[p].status # payouts[p].status =>
                                     p \in call[w].rows /\ P[p].status = to
  BY <1>3, <1>5 DEF PayoutLine
<1>8. batch' \in {"draft", "approved", "paid", "cancelled"}
  BY <1>1 DEF Inv, TypeOK
<1> QED
  BY <1>1, <1>2, <1>4, <1>6, <1>7, <1>8, PayoutStep

LEMMA PayBatchStep ==
  ASSUME Inv, NEW w \in Workers, PayBatch(w) PROVE Inv' /\ Frozen /\ Held
<1>1. call[w].at = "batch_pay" /\ Return(w) /\ UNCHANGED <<stmts, ledger, faults>> /\ batch' = "paid"
  BY DEF PayBatch, At
<1>2. PICK P : P = [p \in DOMAIN payouts |->
                      IF p \in call[w].rows /\ payouts[p].status = "approved"
                      THEN [payouts[p] EXCEPT !.status = "paid"] ELSE payouts[p]]
  OBVIOUS
<1>3. payouts' = P
  BY <1>2 DEF PayBatch
<1>4. \A p \in DOMAIN payouts : payouts[p] \in PayoutLine
  BY ElementOfSeq DEF Inv, TypeOK
<1>5. P \in [DOMAIN payouts -> PayoutLine]
  BY <1>2, <1>4 DEF PayoutLine, LineStatus
<1>6. \A p \in DOMAIN payouts : /\ P[p].stmt = payouts[p].stmt
                                /\ P[p].status # payouts[p].status =>
                                     p \in call[w].rows /\ P[p].status = "paid"
  BY <1>2, <1>4 DEF PayoutLine
<1>7. "paid" \in LineStatus /\ batch' \in {"draft", "approved", "paid", "cancelled"}
  BY <1>1 DEF LineStatus
<1> QED
  BY <1>1, <1>3, <1>5, <1>6, <1>7, PayoutStep

------------------------------------------------------------------------------
(* Batches, the ledger, death *)

LEMMA AsideStep ==
  ASSUME Inv, UNCHANGED <<stmts, payouts, call, mishap>>,
         batch' \in {"draft", "approved", "paid", "cancelled"}, {ledger', faults'} \subseteq Nat
  PROVE  Inv' /\ Frozen /\ Held
<1>1. TypeOK'
  BY DEF Inv, TypeOK
<1>2. RowsKept /\ Frozen /\ Held /\ \A x : Untouched(x)
  BY ReadingTouchesNothing
<1>3. \A x \in Subjects : LeftAlone(x)
  BY <1>2 DEF LeftAlone
<1> QED
  BY <1>1, <1>2, <1>3, NobodyMoves

LEMMA SetBatchStep ==
  ASSUME Inv, NEW next, SetBatch(next) PROVE Inv' /\ Frozen /\ Held
<1>1. batch' \in {"draft", "approved", "paid", "cancelled"} /\ {ledger', faults'} \subseteq Nat
  BY DEF SetBatch, Inv, TypeOK
<1>2. UNCHANGED <<stmts, payouts, call, mishap>>
  BY DEF SetBatch
<1> QED
  BY <1>1, <1>2, AsideStep

LEMMA EditLedgerStep ==
  ASSUME Inv, EditLedger PROVE Inv' /\ Frozen /\ Held
<1>1. batch' \in {"draft", "approved", "paid", "cancelled"} /\ {ledger', faults'} \subseteq Nat
  BY DEF EditLedger, Inv, TypeOK, tables
<1>2. UNCHANGED <<stmts, payouts, call, mishap>>
  BY DEF EditLedger, tables
<1> QED
  BY <1>1, <1>2, AsideStep

LEMMA DieStep ==
  ASSUME Inv, NEW w \in Workers, Die(w) PROVE Inv' /\ Frozen /\ Held
<1>1. UNCHANGED <<stmts, payouts, batch, ledger>> /\ faults' = faults + 1
      /\ call' = [call EXCEPT ![w] = Idle]
      /\ mishap' = [x \in Subjects |-> mishap[x] \/ x \in call[w].on]
  BY DEF Die, tables
<1>2. TypeOK
  BY DEF Inv
<1>3. /\ call' \in [Workers -> Call] /\ call'[w] = Idle
      /\ \A v \in Workers \ {w} : call'[v] = call[v]
  BY <1>1, <1>2, IdleCall DEF TypeOK
<1>4. Moves(w) /\ Knows(call[w])'
  <2>1. mishap' \in [Subjects -> BOOLEAN] /\ \A x \in Subjects : mishap[x] => mishap'[x]
    BY <1>1, <1>2 DEF TypeOK
  <2>2. Idle.on = {} /\ Idle.at = "idle"
    BY DEF Idle
  <2> QED
    BY <1>3, <2>1, <2>2 DEF Moves, Knows, OnOne, Revising, OnPayouts
<1>5. TypeOK'
  BY <1>1, <1>2, <1>4 DEF TypeOK, Moves
<1>6. RowsKept /\ Frozen /\ Held /\ \A x : Untouched(x)
  BY <1>1, ReadingTouchesNothing
<1>7. \A x \in call[w].on : mishap'[x]
  <2>1. call[w].on \subseteq Subjects
    BY <1>2 DEF TypeOK, Call
  <2> QED
    BY <1>1, <2>1
<1> QED
  BY <1>4, <1>5, <1>6, <1>7, StepKeepsInv

------------------------------------------------------------------------------
(* An idle worker begins *)

LEMMA BeginStep ==
  ASSUME Inv, NEW w \in Workers, NEW s \in DOMAIN stmts, NEW to \in Wish, NEW flag \in BOOLEAN,
         NEW step \in {"set_status", "send", "own", "line_new"},
         Begin(w, step, s, to, flag), Reading,
         step = "own" => to \in {"viewed", "acknowledged", "disputed"}
                         /\ to \in OwnerMoves(stmts[s].owner),
         step = "set_status" /\ to = "draft" => stmts[s].status = "draft"
  PROVE  Inv' /\ Frozen /\ Held
<1>1. stmts[s] \in Statement /\ s \in Nat
  BY ElementOfSeq, LenProperties DEF Inv, TypeOK
<1>2. PICK x \in Subjects : x = stmts[s].subject
  BY <1>1 DEF Statement
<1>3. PICK c \in Call :
         c = [Idle EXCEPT !.at = step, !.on = {x}, !.stmt = s, !.to = to, !.flag = flag]
  BY <1>1, IdleCall DEF Call, Step
<1>4. c.at = step /\ c.on = {x} /\ c.stmt = s /\ c.to = to
  BY <1>3, IdleCall DEF Call
<1>5. call[w] = Idle /\ Turn(w, c)
  BY <1>2, <1>3 DEF Begin
<1>6. Knows(c)
  BY <1>2, <1>4 DEF Knows, OnOne, Revising, OnPayouts
<1>7. Rest(x) => OnTrack(c, x)
  BY <1>4 DEF OnTrack, Revising
<1> QED
  BY <1>4, <1>5, <1>6, <1>7, StartKeepsInv

LEMMA StartApproveStep ==
  ASSUME Inv, NEW w \in Workers, NEW s \in DOMAIN stmts, StartApprove(w, s)
  PROVE  Inv' /\ Frozen /\ Held
<1>1. "approved" \in Wish /\ FALSE \in BOOLEAN
  BY DEF Wish, Status
<1> QED
  BY <1>1, BeginStep DEF StartApprove

LEMMA StartSetStatusStep ==
  ASSUME Inv, NEW w \in Workers, NEW s \in DOMAIN stmts, NEW next, StartSetStatus(w, s, next)
  PROVE  Inv' /\ Frozen /\ Held
<1>1. next \in Wish /\ FALSE \in BOOLEAN
  BY DEF StartSetStatus, Wish, Status, LineStatus
<1>2. next = "draft" => stmts[s].status = "draft"
  BY DEF StartSetStatus, StatementMoves
<1> QED
  BY <1>1, <1>2, BeginStep DEF StartSetStatus

LEMMA StartSendStep ==
  ASSUME Inv, NEW w \in Workers, NEW s \in DOMAIN stmts, StartSend(w, s)
  PROVE  Inv' /\ Frozen /\ Held
<1>1. PICK flag \in BOOLEAN : flag = ~stmts[s].sent
  OBVIOUS
<1>2. "none" \in Wish
  BY DEF Wish
<1> QED
  BY <1>1, <1>2, BeginStep DEF StartSend

LEMMA StartOwnStep ==
  ASSUME Inv, NEW w \in Workers, NEW s \in DOMAIN stmts, NEW next, StartOwn(w, s, next)
  PROVE  Inv' /\ Frozen /\ Held
<1>1. next \in Wish /\ FALSE \in BOOLEAN
  BY DEF StartOwn, Wish, OwnerState
<1> QED
  BY <1>1, BeginStep DEF StartOwn

LEMMA StartPayoutLineStep ==
  ASSUME Inv, NEW w \in Workers, NEW s \in DOMAIN stmts, NEW inBatch \in BOOLEAN,
         StartPayoutLine(w, s, inBatch)
  PROVE  Inv' /\ Frozen /\ Held
<1>1. "none" \in Wish
  BY DEF Wish
<1> QED
  BY <1>1, BeginStep DEF StartPayoutLine

LEMMA StartReissueStep ==
  ASSUME Inv, NEW w \in Workers, NEW s \in DOMAIN stmts, StartReissue(w, s)
  PROVE  Inv' /\ Frozen /\ Held
<1>1. stmts[s] \in Statement /\ s \in Nat /\ DOMAIN stmts = 1..Len(stmts) /\ Len(stmts) \in Nat
  BY ElementOfSeq, LenProperties DEF Inv, TypeOK
<1>2. PICK x \in Subjects : x = stmts[s].subject
  BY <1>1 DEF Statement
<1>3. PICK rev \in Nat : rev = Cardinality(Of(x))
  <2>1. IsFiniteSet(1..Len(stmts))
    BY <1>1, FS_Interval
  <2>2. Of(x) \subseteq 1..Len(stmts)
    BY <1>1 DEF Of
  <2> QED
    BY <2>1, <2>2, FS_Subset, FS_CardinalityType
<1>4. PICK c \in Call : c = [Idle EXCEPT !.at = "reissue", !.on = {x}, !.stmt = s,
                                         !.seen = stmts[s].totals, !.rev = rev]
  BY <1>1, IdleCall DEF Call, Step, Statement
<1>5. c.at = "reissue" /\ c.on = {x} /\ c.stmt = s /\ c.seen = stmts[s].totals
  BY <1>4, IdleCall DEF Call
<1>6. call[w] = Idle /\ Turn(w, c) /\ Reading /\ stmts[s].owner = "disputed"
  BY <1>2, <1>3, <1>4 DEF StartReissue, Reissuable
<1>7. Knows(c)
  BY <1>2, <1>5 DEF Knows, OnOne, Revising, OnPayouts
<1>8. Rest(x) => OnTrack(c, x)
  BY <1>5, <1>6 DEF OnTrack, Revising
<1> QED
  BY <1>5, <1>6, <1>7, <1>8, StartKeepsInv

LEMMA StartGenerateStep ==
  ASSUME Inv, NEW w \in Workers, NEW x \in Subjects, NEW cron \in BOOLEAN,
         StartGenerate(w, x, cron)
  PROVE  Inv' /\ Frozen /\ Held
<1>1. PICK c \in Call :
         c = [Idle EXCEPT !.at = "existing", !.on = {x}, !.seen = ledger, !.flag = cron]
  BY IdleCall DEF Call, Step, Inv, TypeOK
<1>2. c.at = "existing" /\ c.on = {x}
  BY <1>1, IdleCall DEF Call
<1>3. call[w] = Idle /\ Turn(w, c) /\ Reading
  BY <1>1 DEF StartGenerate
<1>4. Knows(c)
  BY <1>2 DEF Knows, OnOne, Revising, OnPayouts
<1>5. Rest(x) => OnTrack(c, x)
  BY <1>2 DEF OnTrack, Revising
<1> QED
  BY <1>2, <1>3, <1>4, <1>5, StartKeepsInv

LEMMA StartSweepStep ==
  ASSUME Inv, NEW w \in Workers, StartSweep(w) PROVE Inv' /\ Frozen /\ Held
<1>1. PICK due \in SUBSET DOMAIN stmts :
         /\ due = {s \in DOMAIN stmts : Awaiting(s) /\ stmts[s].timer = "passed"}
         /\ Turn(w, [Idle EXCEPT !.at = "sweep", !.rows = due,
                                 !.on = {stmts[s].subject : s \in due}])
  BY DEF StartSweep
<1>2. DOMAIN stmts \subseteq Nat /\ \A s \in DOMAIN stmts : stmts[s].subject \in Subjects
  <2>1. DOMAIN stmts \subseteq Nat
    BY LenProperties DEF Inv, TypeOK
  <2>2. \A s \in DOMAIN stmts : stmts[s] \in Statement
    BY ElementOfSeq DEF Inv, TypeOK
  <2> QED
    BY <2>1, <2>2 DEF Statement
<1>3. PICK on \in SUBSET Subjects : on = {stmts[s].subject : s \in due}
  BY <1>1, <1>2
<1>4. PICK c \in Call : c = [Idle EXCEPT !.at = "sweep", !.rows = due, !.on = on]
  <2>1. due \in SUBSET Nat
    BY <1>1, <1>2
  <2> QED
    BY <2>1, IdleCall DEF Call, Step
<1>5. c.at = "sweep" /\ c.on = on /\ c.rows = due
  BY <1>4, IdleCall DEF Call
<1>6. call[w] = Idle /\ Turn(w, c) /\ Reading
  BY <1>1, <1>3, <1>4 DEF StartSweep
<1>7. Knows(c)
  BY <1>3, <1>5 DEF Knows, OnOne, Revising, OnPayouts
<1>8. \A x \in c.on : Rest(x) => OnTrack(c, x)
  BY <1>1, <1>5 DEF OnTrack, Revising
<1> QED
  BY <1>6, <1>7, <1>8, StartKeepsInv

LEMMA PayoutFacts ==
  ASSUME Inv
  PROVE  /\ DOMAIN payouts \subseteq Nat
         /\ \A p \in DOMAIN payouts : SubjectOf(p) \in Subjects
<1>1. DOMAIN payouts \subseteq Nat
  BY LenProperties DEF Inv, TypeOK
<1>2. \A p \in DOMAIN payouts : payouts[p].stmt \in DOMAIN stmts
  BY DEF Inv, TypeOK
<1>3. \A s \in DOMAIN stmts : stmts[s] \in Statement
  BY ElementOfSeq DEF Inv, TypeOK
<1>4. \A s \in DOMAIN stmts : stmts[s].subject \in Subjects
  BY <1>3 DEF Statement
<1> QED
  BY <1>1, <1>2, <1>4 DEF SubjectOf

LEMMA StartSetLineStep ==
  ASSUME Inv, NEW w \in Workers, NEW p \in DOMAIN payouts, NEW next, StartSetLine(w, p, next)
  PROVE  Inv' /\ Frozen /\ Held
<1>1. next \in LineStatus /\ next \in Wish
  BY DEF StartSetLine, Wish
<1>2. PICK at \in {"line_check", "line_set"} : at = IF next = "paid" THEN "line_check" ELSE "line_set"
  OBVIOUS
<1>3. PICK x \in Subjects : x = SubjectOf(p)
  BY PayoutFacts
<1>4. PICK c \in Call : c = [Idle EXCEPT !.at = at, !.on = {x}, !.rows = {p}, !.to = next]
  <2>1. {p} \in SUBSET Nat
    BY PayoutFacts
  <2> QED
    BY <1>1, <2>1, IdleCall DEF Call, Step
<1>5. c.at = at /\ c.on = {x} /\ c.rows = {p} /\ c.to = next
  BY <1>4, IdleCall DEF Call
<1>6. call[w] = Idle /\ Turn(w, c) /\ Reading
  BY <1>2, <1>3, <1>4 DEF StartSetLine
<1>7. Knows(c)
  BY <1>1, <1>3, <1>5 DEF Knows, OnOne, Revising, OnPayouts
<1>8. Rest(x) => OnTrack(c, x)
  BY <1>2, <1>5 DEF OnTrack, Revising
<1> QED
  BY <1>5, <1>6, <1>7, <1>8, StartKeepsInv

LEMMA StartPayBatchStep ==
  ASSUME Inv, NEW w \in Workers, StartPayBatch(w) PROVE Inv' /\ Frozen /\ Held
<1>1. PICK toPay \in SUBSET DOMAIN payouts :
         Turn(w, [Idle EXCEPT !.at = "batch_check", !.rows = toPay,
                              !.on = {SubjectOf(p) : p \in toPay}])
  <2>1. {p \in InBatch : payouts[p].status = "approved"} \subseteq DOMAIN payouts
    BY DEF InBatch
  <2> QED
    BY <2>1 DEF StartPayBatch
<1>2. PICK on \in SUBSET Subjects : on = {SubjectOf(p) : p \in toPay}
  <2>1. {SubjectOf(p) : p \in toPay} \subseteq Subjects
    BY PayoutFacts
  <2> QED
    BY <2>1
<1>3. PICK c \in Call : c = [Idle EXCEPT !.at = "batch_check", !.rows = toPay, !.on = on]
  <2>1. toPay \in SUBSET Nat
    BY PayoutFacts
  <2> QED
    BY <2>1, IdleCall DEF Call, Step
<1>4. c.at = "batch_check" /\ c.on = on /\ c.rows = toPay
  BY <1>3, IdleCall DEF Call
<1>5. call[w] = Idle /\ Turn(w, c) /\ Reading
  BY <1>1, <1>2, <1>3 DEF StartPayBatch
<1>6. Knows(c)
  BY <1>2, <1>4 DEF Knows, OnOne, Revising, OnPayouts
<1>7. \A x \in c.on : Rest(x) => OnTrack(c, x)
  BY <1>4 DEF OnTrack, Revising
<1> QED
  BY <1>5, <1>6, <1>7, StartKeepsInv

------------------------------------------------------------------------------
(* Every step, and the theorems *)

LEMMA PayoutsUnchanged == ASSUME UNCHANGED payouts PROVE Held
  BY DEF Held, BecomesPaid

LEMMA WorkerStep ==
  ASSUME Inv, NEW w \in Workers, Generate(w) \/ Decide(w) \/ Revise(w) \/ Pay(w) \/ Die(w)
  PROVE  Inv' /\ Frozen /\ Held
<1>1. CASE Generate(w)
  <2>1. Inv' /\ Frozen
    BY <1>1, FindExistingStep, WriteHeaderStep, WipeLinesStep, InsertStatementStep,
       InsertLinesStep, AutoApproveStep, AutoSendStep DEF Generate
  <2>2. UNCHANGED payouts
    BY <1>1 DEF Generate, FindExisting, WriteHeader, WipeLines, InsertStatement, InsertLines,
                AutoApprove, AutoSend, Reading, OnlyStmts, tables
  <2> QED
    BY <2>1, <2>2, PayoutsUnchanged
<1>2. CASE Decide(w)
  <2>1. Inv' /\ Frozen
    BY <1>2, SetStatusStep, SendStep, OwnStep, SweepOneStep DEF Decide
  <2>2. UNCHANGED payouts
    BY <1>2 DEF Decide, SetStatus, Send, Own, SweepOne, OnlyStmts
  <2> QED
    BY <2>1, <2>2, PayoutsUnchanged
<1>3. CASE Revise(w)
  <2>1. Inv' /\ Frozen
    BY <1>3, ReissueStep, CopyLinesStep, PasteLinesStep, SupersedeStep DEF Revise
  <2>2. UNCHANGED payouts
    BY <1>3 DEF Revise, Reissue, CopyLines, PasteLines, Supersede, Reading, OnlyStmts, tables
  <2> QED
    BY <2>1, <2>2, PayoutsUnchanged
<1>4. CASE Pay(w)
  BY <1>4, InsertPayoutLineStep, CheckLineStep, SetLineStep, CheckBatchStep, PayBatchStep DEF Pay
<1>5. CASE Die(w)
  BY <1>5, DieStep
<1> QED
  BY <1>1, <1>2, <1>3, <1>4, <1>5

LEMMA StartStep ==
  ASSUME Inv, NEW w \in Workers, Start(w) PROVE Inv' /\ Frozen /\ Held
<1>1. ASSUME NEW x \in Subjects, NEW cron \in BOOLEAN, StartGenerate(w, x, cron)
      PROVE  Inv' /\ Frozen /\ Held
  BY <1>1, StartGenerateStep
<1>2. ASSUME NEW s \in DOMAIN stmts, StartOn(w, s) PROVE Inv' /\ Frozen /\ Held
  BY <1>2, StartApproveStep, StartSendStep, StartReissueStep, StartSetStatusStep, StartOwnStep,
     StartPayoutLineStep DEF StartOn
<1>3. ASSUME NEW p \in DOMAIN payouts, NEW next \in Wishes, StartSetLine(w, p, next)
      PROVE  Inv' /\ Frozen /\ Held
  BY <1>3, StartSetLineStep
<1> QED
  BY <1>1, <1>2, <1>3, StartSweepStep, StartPayBatchStep DEF Start

LEMMA NextStep == ASSUME Inv, [Next]_vars PROVE Inv' /\ Frozen /\ Held
<1>1. ASSUME NEW w \in Workers,
             Start(w) \/ Generate(w) \/ Decide(w) \/ Revise(w) \/ Pay(w) \/ Die(w)
      PROVE  Inv' /\ Frozen /\ Held
  BY <1>1, StartStep, WorkerStep
<1>2. ASSUME NEW s \in DOMAIN stmts, RequestChanges(s) \/ TimerPasses(s)
      PROVE  Inv' /\ Frozen /\ Held
  <2>1. UNCHANGED payouts
    BY <1>2 DEF RequestChanges, TimerPasses, OnlyStmts
  <2> QED
    BY <1>2, <2>1, RequestChangesStep, TimerPassesStep, PayoutsUnchanged
<1>3. ASSUME NEW next \in Wishes, SetBatch(next) PROVE Inv' /\ Frozen /\ Held
  BY <1>3, SetBatchStep
<1>4. CASE EditLedger
  BY <1>4, EditLedgerStep
<1>5. CASE UNCHANGED vars
  <2>1. UNCHANGED <<stmts, payouts, call, mishap>>
    BY <1>5 DEF vars, tables
  <2>2. batch' \in {"draft", "approved", "paid", "cancelled"} /\ {ledger', faults'} \subseteq Nat
    BY <1>5 DEF vars, tables, Inv, TypeOK
  <2> QED
    BY <2>1, <2>2, AsideStep
<1> QED
  BY <1>1, <1>2, <1>3, <1>4, <1>5 DEF Next

LEMMA InitInv == ASSUME Init PROVE Inv
<1>1. /\ stmts = <<>> /\ payouts = <<>> /\ call = [w \in Workers |-> Idle]
      /\ mishap = [x \in Subjects |-> FALSE] /\ batch = "draft" /\ ledger = 0 /\ faults = 0
  BY DEF Init
<1>2. TypeOK
  BY <1>1, IdleCall, EmptySeq DEF TypeOK
<1>3. \A w \in Workers : call[w] = Idle /\ Knows(call[w]) /\ call[w].on = {}
  BY <1>1 DEF Knows, Idle, OnOne, Revising, OnPayouts
<1>4. \A x : Of(x) = {}
  BY <1>1 DEF Of
<1>5. \A x \in Subjects : Orderly(x)
  BY <1>3, <1>4 DEF Orderly, Alone, Linked, Rest, Chain, Told
<1> QED
  BY <1>2, <1>3, <1>5 DEF Inv, KnowsAll

THEOREM Invariance == Spec => []Inv
<1>1. Init => Inv
  BY InitInv
<1>2. Inv /\ [Next]_vars => Inv'
  BY NextStep
<1> QED
  BY <1>1, <1>2, PTL DEF Spec

\* The tables and what an invocation remembers keep their types, and a payout
\* line always belongs to a statement: no statement is ever deleted.
THEOREM TypeCorrect == Spec => []TypeOK
<1>1. Inv => TypeOK
  BY DEF Inv
<1> QED
  BY <1>1, Invariance, PTL

LEMMA AtRest ==
  ASSUME Inv, NEW s \in DOMAIN stmts, NEW x, x = stmts[s].subject, ~mishap[x], ~Busy(x)
  PROVE  Rest(x) /\ s \in Of(x)
<1>1. stmts[s] \in Statement
  BY ElementOfSeq DEF Inv, TypeOK
<1>2. x \in Subjects
  BY <1>1 DEF Statement
<1> QED
  BY <1>2 DEF Inv, Orderly, Of

\* Whoever generated or reissued a statement, once nobody is at work on it its
\* lines add up to its totals.
THEOREM LinesTellTheTotals == Spec => []LinesTellTotals
<1>1. Inv => LinesTellTotals
  BY AtRest DEF LinesTellTotals, Rest, Told
<1> QED
  BY <1>1, Invariance, PTL

\* The statements about one subject are one live statement and the chain of
\* those it replaced.
THEOREM OneRevisionLives == Spec => []OneLiveRevision
<1>1. Inv => OneLiveRevision
  BY AtRest DEF OneLiveRevision, Rest, Chain
<1> QED
  BY <1>1, Invariance, PTL

\* No step rewrites a statement that is no draft.
THEOREM ApprovedStaysAsItIs == Spec => ApprovedIsFrozen
<1>1. Inv /\ [Next]_vars => [Frozen]_vars
  BY NextStep
<1> QED
  BY <1>1, Invariance, PTL DEF Spec, ApprovedIsFrozen, Frozen

\* No step pays out what rests on a statement under dispute.
THEOREM DisputesPausePayouts == Spec => PausedWhileDisputed
<1>1. Inv /\ [Next]_vars => [Held]_vars
  BY NextStep
<1> QED
  BY <1>1, Invariance, PTL DEF Spec, PausedWhileDisputed, Held

==============================================================================
