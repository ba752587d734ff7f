--------------------------- MODULE StayInventory ---------------------------
(***************************************************************************)
(* What the direct-booking feature promises about a villa's nights, with   *)
(* no tables and no statements: a stay is held only while nobody else      *)
(* holds or has booked one of its nights; a held stay is either booked or  *)
(* given back; both are for good.                                          *)
(***************************************************************************)
EXTENDS Naturals, Sequences

CONSTANT Stays

VARIABLE stays   \* the stays ever held, in order, with what became of each

Overlap(s, t) == s.in < t.out /\ t.in < s.out
Taken(s) == \E i \in DOMAIN stays : stays[i].now # "free" /\ Overlap(stays[i].stay, s)

Init == stays = <<>>

Hold(s) == ~Taken(s) /\ stays' = Append(stays, [stay |-> s, now |-> "held"])
Book(i) == stays[i].now = "held" /\ stays' = [stays EXCEPT ![i].now = "booked"]
Free(i) == stays[i].now = "held" /\ stays' = [stays EXCEPT ![i].now = "free"]

Next == \/ \E s \in Stays : Hold(s)
        \/ \E i \in DOMAIN stays : Book(i) \/ Free(i)

Spec == Init /\ [][Next]_stays

==============================================================================
