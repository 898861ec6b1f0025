---------------------------- MODULE Appointments ----------------------------
(***************************************************************************)
(* What every module about the diary means by an appointment: the life an  *)
(* appointment may have (AppointmentStatus.java) and when two of them want *)
(* the same chair (the blocked range of BookedSlot.java and the exclusion  *)
(* constraint of V009).  Time is counted in steps of the slot grid, and    *)
(* every appointment blocks Dur steps: one offering, its buffers included. *)
(***************************************************************************)
EXTENDS Naturals, FiniteSets

CONSTANTS
    Staff,      \* the chairs of one provider
    Dur,        \* steps of the grid one appointment blocks, buffers included
    Horizon,    \* last instant of the grid (bound of the model)
    NoRow       \* what a table holds where it holds no row

ASSUME StaffIsFinite == IsFiniteSet(Staff)
ASSUME DurIsPositive == Dur \in Nat \ {0}
ASSUME HorizonIsNatural == Horizon \in Nat

Times == 0 .. Horizon

Statuses == {"PENDING", "CONFIRMED", "CANCELLED", "COMPLETED", "NO_SHOW"}

\* The two statuses no_double_booking's WHERE clause names.
Active == {"PENDING", "CONFIRMED"}

\* AppointmentStatus.LEGAL: what a status may become.
Legal(status) ==
    CASE status = "PENDING"   -> {"CONFIRMED", "CANCELLED"}
      [] status = "CONFIRMED" -> {"COMPLETED", "NO_SHOW", "CANCELLED"}
      [] OTHER                -> {}

Row == [staff : Staff, start : Times, status : Statuses]
ASSUME NoRowIsNoRecord == NoRow \notin Row

\* tstzrange(..., '[)') && tstzrange(..., '[)') for two blocks of Dur steps.
Overlap(t, u) == t < u + Dur /\ u < t + Dur

\* Two blocks of one chair that share an instant.
SameChair(x, y) == x.staff = y.staff /\ Overlap(x.start, y.start)

=============================================================================
