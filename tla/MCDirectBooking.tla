--------------------------- MODULE MCDirectBooking ---------------------------
(* Small instances of DirectBooking for TLC.  *)
EXTENDS DirectBooking, TLC

Symmetry == Permutations(Workers)

\* Two stays that share a night; a single one.
Overlapping == {[in |-> 1, out |-> 3], [in |-> 2, out |-> 4]}
OneStay     == {[in |-> 1, out |-> 3]}

\* What villa_calendar_blocks_status_check admits (migration 0011), and with
\* the status that availability.ts writes added to it.
Migrated == {"active", "cancelled", "completed"}
Intended == Migrated \cup {"released"}

\* Every way a hold can end, with and without a booking.
CalendarEndpoints == {"create", "create_on_behalf", "cancel", "admin_cancel", "submit",
                      "approve", "reject", "convert", "sweep_holds"}
\* Everything that touches a deposit, and the gate it guards.
DepositEndpoints  == {"create", "submit", "mark_under_review", "convert", "recreate",
                      "mark_paid", "mark_failed", "cancel_deposit", "refund",
                      "provider_failure", "sweep_deposits"}
\* The ways a hold is abandoned or paid for and booked, and the sweep that
\* catches the rest.
AbandonEndpoints == {"create", "cancel", "submit", "reject", "convert", "mark_paid", "sweep_holds"}

\* Just enough to meet a statement the code does not live up to.
CreateAndCancel == {"create", "cancel"}

==============================================================================
