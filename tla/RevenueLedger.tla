---------------------------- MODULE RevenueLedger ----------------------------
(***************************************************************************)
(* What the bridge promises about the revenue of bookings, with no rows in *)
(* flight and no statements: revenue counts as one entry, only for a       *)
(* booked request and only in an open period; it is taken back only once   *)
(* it is shown; what is shown follows what counts.  A request that strayed *)
(* is one the promise no longer covers.                                    *)
(***************************************************************************)
CONSTANTS Requests, Entries

VARIABLES
  booked,   \* the requests that have become bookings
  closed,   \* the period is closed
  strayed,  \* the requests given up
  counted,  \* per request, the entries that count
  shown     \* per request, the entry that is reported as posted

ledger == <<booked, closed, strayed, counted, shown>>

Init == /\ booked = {} /\ closed = FALSE /\ strayed = {}
        /\ counted = [r \in Requests |-> {}] /\ shown = [r \in Requests |-> {}]

Count(r) ==
  /\ r \in booked \ strayed /\ ~closed /\ counted[r] = {} /\ shown[r] = {}
  /\ \E e \in Entries : /\ \A q \in Requests : e \notin counted[q]
                        /\ counted' = [counted EXCEPT ![r] = {e}]
  /\ UNCHANGED <<booked, closed, strayed, shown>>

TakeBack(r) ==
  /\ ~closed /\ counted[r] # {} /\ shown[r] = counted[r]
  /\ counted' = [counted EXCEPT ![r] = {}]
  /\ UNCHANGED <<booked, closed, strayed, shown>>

Show(r) ==
  /\ shown' = [shown EXCEPT ![r] = counted[r]]
  /\ UNCHANGED <<booked, closed, strayed, counted>>

GiveUp(r) ==
  /\ strayed' = strayed \cup {r}
  /\ counted' = [counted EXCEPT ![r] = {}] /\ shown' = [shown EXCEPT ![r] = {}]
  /\ UNCHANGED <<booked, closed>>

Book(r)   == booked' = booked \cup {r} /\ UNCHANGED <<closed, strayed, counted, shown>>
SetPeriod == closed' = ~closed /\ UNCHANGED <<booked, strayed, counted, shown>>

Next == \/ \E r \in Requests : Count(r) \/ TakeBack(r) \/ Show(r) \/ GiveUp(r) \/ Book(r)
        \/ SetPeriod

Spec == Init /\ [][Next]_ledger

==============================================================================
