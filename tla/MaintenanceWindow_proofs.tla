---------------------- MODULE MaintenanceWindow_proofs ----------------------
(***************************************************************************)
(* Machine-checked proof about MaintenanceWindow, for every window.        *)
(***************************************************************************)
EXTENDS MaintenanceWindow, TLAPS

LEMMA DayIs == Day = 1440
  BY SMT DEF Day

(* How far the clock is past a minute of the day.                          *)
LEMMA PastOnDay ==
  ASSUME NEW m \in 0..Day - 1, NEW from \in 0..Day - 1
  PROVE  (m - from) % Day = IF m >= from THEN m - from ELSE m - from + Day
  BY SMT DEF Day

LEMMA StepOnDay ==
  ASSUME NEW m \in 0..Day - 1
  PROVE  (m + 1) % Day \in 0..Day - 1
  BY SMT DEF Day

LEMMA MinutesOnDay ==
  ASSUME NEW hour \in 0..23, NEW min \in 0..59
  PROVE  Minutes(hour, min) \in 0..Day - 1
  BY DayIs, SMT DEF Minutes

LEMMA BoundsOnDay ==
  ASSUME NEW w \in Windows
  PROVE  Start(w) \in 0..Day - 1 /\ End(w) \in 0..Day - 1
  <1>1. Parsed(w) \in Reading
    <2>1. [startHour |-> 2, startMin |-> 0, endHour |-> 4, endMin |-> 0] \in Reading
      BY SMT DEF Reading
    <2> QED
      BY <2>1, WindowsAssumption DEF Parsed
  <1>2. /\ Parsed(w).startHour \in 0..23 /\ Parsed(w).startMin \in 0..59
        /\ Parsed(w).endHour \in 0..23 /\ Parsed(w).endMin \in 0..59
    BY <1>1 DEF Reading
  <1> QED
    BY <1>2, MinutesOnDay DEF Start, End

(* Open agrees with the cyclic reading of the window at every minute.      *)
LEMMA SameDayAsMeant ==
  ASSUME NEW w \in Windows, NEW m \in 0..Day - 1, SameDay(w)
  PROVE  Open(w, m) <=> Meant(w, m)
  <1> DEFINE from == Start(w)
             to   == End(w)
  <1>1. from \in 0..Day - 1 /\ to \in 0..Day - 1 /\ from <= to
    BY BoundsOnDay DEF SameDay
  <1>2. Meant(w, m) <=> (m - from) % Day <= (to - from) % Day
    BY DEF Meant, Start, End, Minutes
  <1>3. Open(w, m) <=> (m >= from /\ m <= to)
    BY DEF Open
  <1> HIDE DEF from, to
  <1>4. /\ (m - from) % Day = IF m >= from THEN m - from ELSE m - from + Day
        /\ (to - from) % Day = to - from
    BY <1>1, PastOnDay
  <1>5. (m - from) % Day <= (to - from) % Day <=> (m >= from /\ m <= to)
    BY <1>1, <1>4, DayIs, SMT
  <1> QED
    BY <1>2, <1>3, <1>5

(* At every minute of every day a window that does not run through         *)
(* midnight is open exactly when it is meant to be.                        *)
THEOREM OpenAsMeantHolds == Spec => []OpenAsMeant
  <1> DEFINE Inv == window \in Windows /\ now \in 0..Day - 1
  <1>1. Init => Inv
    BY DEF Init
  <1>2. Inv /\ [Next]_vars => Inv'
    BY StepOnDay DEF Next, Tick, vars
  <1>3. Inv => OpenAsMeant
    BY SameDayAsMeant DEF OpenAsMeant
  <1> QED
    BY <1>1, <1>2, <1>3, PTL DEF Spec
=============================================================================
