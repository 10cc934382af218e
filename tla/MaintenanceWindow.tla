------------------------- MODULE MaintenanceWindow -------------------------
(***************************************************************************)
(* isInMaintenanceWindow() and parseMaintenanceWindow() of                 *)
(* src/src/IndexMaintenance.cpp, over the minutes of the wall clock.  In   *)
(* IndexMaintenance the window opens and closes at any moment; here is     *)
(* when it does.                                                           *)
(***************************************************************************)
EXTENDS Integers

\* What maintenance_window_ may read as: four numbers, or Garbage.
CONSTANTS Windows, Garbage

Reading == [startHour: 0..23, startMin: 0..59, endHour: 0..23, endMin: 0..59]

ASSUME WindowsAssumption == Garbage \notin Reading /\ Windows \subseteq Reading \cup {Garbage}

Day == 24 * 60

VARIABLES
    window,     \* maintenance_window_
    now         \* the minute of the day

vars == <<window, now>>

Init == window \in Windows /\ now \in 0..Day - 1

Tick == now' = (now + 1) % Day /\ UNCHANGED window

Next == Tick

Spec == Init /\ [][Next]_vars

-----------------------------------------------------------------------------

\* A string that cannot be read stands for 02:00-04:00.
Parsed(w) ==
    IF w = Garbage THEN [startHour |-> 2, startMin |-> 0, endHour |-> 4, endMin |-> 0] ELSE w

HoursForgotten(hour, min) == hour + min     \* a mutation of Minutes
Minutes(hour, min) == hour * 60 + min

Start(w) == Minutes(Parsed(w).startHour, Parsed(w).startMin)
End(w) == Minutes(Parsed(w).endHour, Parsed(w).endMin)

Open(w, m) == m >= Start(w) /\ m <= End(w)

-----------------------------------------------------------------------------
(* Properties.                                                             *)

\* The window as an administrator means it: what the clock shows on its way
\* from the minute it starts to the minute it ends, through midnight or not.
Meant(w, m) ==
    LET from == Parsed(w).startHour * 60 + Parsed(w).startMin
        to   == Parsed(w).endHour * 60 + Parsed(w).endMin
    IN (m - from) % Day <= (to - from) % Day

SameDay(w) == Start(w) <= End(w)

(* A window that does not run through midnight is open exactly when it is  *)
(* meant to be; a string that does not parse leaves the default one.       *)
OpenAsMeant == SameDay(window) => (Open(window, now) <=> Meant(window, now))

=============================================================================
