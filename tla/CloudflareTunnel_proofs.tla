----------------------- MODULE CloudflareTunnel_proofs -----------------------
(***************************************************************************)
(* Machine-checked proofs of the safety of CloudflareTunnel, for every     *)
(* number of launches and whatever may fail.                               *)
(***************************************************************************)
EXTENDS CloudflareTunnel, FiniteSetTheorems, TLAPS

-----------------------------------------------------------------------------
(* The strengthening.                                                      *)

\* The two threads never handle the process at the same time: stop() comes to
\* killProcess() only after the join.
TakesTurns ==
    /\ owner \in {"started", "kill", "wait", "clear"} => watchdog = "none"
    /\ ~running => owner = "idle" /\ watchdog = "none" /\ handle = 0

\* A child that lives is the one process_handle_ names ...
OnlyHandleAlive == \A k \in Children : child[k] = "alive" => k = handle

\* ... and once TerminateProcess was called it does not live.
KilledFirst == owner = "wait" \/ watchdog = "wait" => handle = 0 \/ child[handle] # "alive"

\* process_handle_ is null wherever a launch may follow.
NullBeforeLaunch == watchdog \in {"pause", "launch"} \/ owner = "clear" => handle = 0

IInv ==
    /\ TypeOK
    /\ TakesTurns
    /\ NoHandleLeak
    /\ OnlyHandleAlive
    /\ KilledFirst
    /\ NullBeforeLaunch

-----------------------------------------------------------------------------
(* A successful launch from a null handle: exactly the new child lives and *)
(* exactly its handles are open.                                           *)
LEMMA LaunchFromNull ==
  ASSUME TypeOK, NoHandleLeak, OnlyHandleAlive, handle = 0, Launch
  PROVE  /\ handle' \in Children /\ info' = handle' /\ open' = {handle'}
         /\ launches' \in 0..MaxLaunches
         /\ child' \in [Children -> ChildStates]
         /\ \A k \in Children : child'[k] = "alive" => k = handle'
  <1>1. launches + 1 \in Children
    BY DEF Launch
  <1>2. open = {}
    BY DEF NoHandleLeak
  <1>3. launches + 1 # 0 /\ 0 \notin Children
    BY <1>1 DEF TypeOK, Children
  <1>4. \A k \in Children : child[k] # "alive"
    BY <1>3 DEF OnlyHandleAlive
  <1> QED
    BY <1>1, <1>2, <1>4 DEF Launch, TypeOK, ChildStates, Children

(* What TerminateProcess leaves behind.                                    *)
LEMMA TerminateKills ==
  ASSUME TypeOK, OnlyHandleAlive, Terminate
  PROVE  /\ child' \in [Children -> ChildStates]
         /\ \A k \in Children : child'[k] # "alive"
  <1>1. 0 \notin Children
    BY DEF Children
  <1>2. handle # 0 => handle \in Children
    BY DEF TypeOK, Children
  <1> QED
    BY <1>1, <1>2 DEF TypeOK, OnlyHandleAlive, Terminate, ChildStates

(* What closing the handles leaves behind.                                 *)
LEMMA CloseCloses ==
  ASSUME TypeOK, NoHandleLeak, Close
  PROVE  open' = {} /\ handle' = 0
  BY DEF NoHandleLeak, Close

LEMMA InitIInv == Init => IInv
  <1> SUFFICES ASSUME Init
               PROVE  IInv
    OBVIOUS
  <1>1. TypeOK
    <2>1. child \in [Children -> ChildStates]
      BY DEF Init, ChildStates
    <2>2. 0 \in 0..MaxLaunches
      BY BoundAssumption
    <2> QED
      BY <2>1, <2>2 DEF Init, TypeOK, OwnerStates, WatchdogStates
  <1> QED
    BY <1>1 DEF Init, IInv, TakesTurns, NoHandleLeak, OnlyHandleAlive, KilledFirst,
                NullBeforeLaunch

LEMMA StepIInv ==
  ASSUME IInv, [Next]_vars
  PROVE  IInv'
  <1> USE BoundAssumption DEF IInv
  <1>1. CASE UNCHANGED vars
    BY <1>1 DEF vars, TypeOK, TakesTurns, NoHandleLeak, OnlyHandleAlive, KilledFirst,
                NullBeforeLaunch
  <1>2. CASE Start
    <2>1. /\ owner = "idle" /\ ~running /\ handle = 0 /\ watchdog = "none"
          /\ UNCHANGED <<enabled, watchdog>>
      BY <1>2 DEF Start, TakesTurns
    <2>2. CASE Launch /\ running' = TRUE /\ owner' = "started"
      <3>1. handle' # 0 /\ handle' \in 0..MaxLaunches /\ open' \subseteq Children
        BY <2>1, <2>2, LaunchFromNull DEF Children
      <3> QED
        BY <2>1, <2>2, <3>1, LaunchFromNull
           DEF TypeOK, OwnerStates, TakesTurns, NoHandleLeak, OnlyHandleAlive,
               KilledFirst, NullBeforeLaunch
    <2>3. CASE LaunchFails /\ UNCHANGED <<running, owner>>
      <3>1. info' \in 0..MaxLaunches
        BY <2>3 DEF LaunchFails, NullHandle, TypeOK
      <3> QED
        BY <2>1, <2>3, <3>1
           DEF LaunchFails, os, TypeOK, TakesTurns, NoHandleLeak, OnlyHandleAlive,
               KilledFirst, NullBeforeLaunch
    <2> QED
      BY <1>2, <2>2, <2>3 DEF Start
  <1>3. CASE EnableWatchdog
    BY <1>3 DEF EnableWatchdog, os, TypeOK, OwnerStates, WatchdogStates, TakesTurns,
                NoHandleLeak, OnlyHandleAlive, KilledFirst, NullBeforeLaunch
  <1>4. CASE Stop \/ DisableWatchdog \/ JoinWatchdog
    BY <1>4 DEF Stop, DisableWatchdog, FlagCleared, JoinWatchdog, Joinable, os, TypeOK,
                OwnerStates, TakesTurns, NoHandleLeak, OnlyHandleAlive, KilledFirst,
                NullBeforeLaunch
  <1>5. CASE StopTerminate
    <2>1. /\ owner = "kill" /\ owner' \in {"wait", "clear"} /\ (owner' = "clear" => handle = 0)
          /\ Terminate /\ UNCHANGED <<running, enabled, handle, info, watchdog, open, launches>>
      BY <1>5 DEF StopTerminate
    <2> QED
      BY <2>1, TerminateKills
         DEF TypeOK, OwnerStates, TakesTurns, NoHandleLeak, OnlyHandleAlive, KilledFirst,
             NullBeforeLaunch, Children
  <1>6. CASE StopClose
    <2>1. /\ owner = "wait" /\ owner' = "clear" /\ watchdog = "none"
          /\ Close /\ UNCHANGED <<running, enabled, info, watchdog>>
      BY <1>6 DEF StopClose, TakesTurns
    <2>2. UNCHANGED <<child, launches>>
      BY <2>1 DEF Close
    <2>3. \A k \in Children : child[k] # "alive"
      BY <2>1 DEF OnlyHandleAlive, KilledFirst, Children
    <2> QED
      BY <2>1, <2>2, <2>3, CloseCloses
         DEF TypeOK, OwnerStates, TakesTurns, NoHandleLeak, OnlyHandleAlive, KilledFirst,
             NullBeforeLaunch
  <1>7. CASE StopClear
    BY <1>7 DEF StopClear, os, TypeOK, OwnerStates, TakesTurns, NoHandleLeak,
                OnlyHandleAlive, KilledFirst, NullBeforeLaunch
  <1>8. CASE WatchdogTest \/ WatchdogCheck \/ WatchdogPause
    BY <1>8 DEF WatchdogTest, WatchdogCheck, WatchdogPause, Goto, os, TypeOK,
                WatchdogStates, TakesTurns, NoHandleLeak, OnlyHandleAlive, KilledFirst,
                NullBeforeLaunch
  <1>9. CASE WatchdogTerminate
    <2>1. /\ watchdog = "kill" /\ watchdog' = "wait" /\ Terminate
          /\ UNCHANGED <<running, enabled, handle, info, owner, open, launches>>
      BY <1>9 DEF WatchdogTerminate, Goto
    <2> QED
      BY <2>1, TerminateKills
         DEF TypeOK, WatchdogStates, TakesTurns, NoHandleLeak, OnlyHandleAlive,
             KilledFirst, NullBeforeLaunch, Children
  <1>10. CASE WatchdogClose
    <2>1. /\ watchdog = "wait" /\ watchdog' = "pause" /\ Close
          /\ UNCHANGED <<running, enabled, info, owner>>
      BY <1>10 DEF WatchdogClose, Goto
    <2>2. UNCHANGED <<child, launches>>
      BY <2>1 DEF Close
    <2>3. \A k \in Children : child[k] # "alive"
      BY <2>1 DEF OnlyHandleAlive, KilledFirst, Children
    <2> QED
      BY <2>1, <2>2, <2>3, CloseCloses
         DEF TypeOK, WatchdogStates, TakesTurns, NoHandleLeak, OnlyHandleAlive,
             KilledFirst, NullBeforeLaunch
  <1>11. CASE WatchdogLaunch
    <2>1. /\ watchdog = "launch" /\ watchdog' = "test" /\ handle = 0 /\ running
          /\ UNCHANGED <<running, enabled, owner>>
          /\ owner \notin {"started", "kill", "wait", "clear"}
      BY <1>11 DEF WatchdogLaunch, Goto, NullBeforeLaunch, TakesTurns
    <2>2. CASE Launch
      <3>1. handle' # 0 /\ handle' \in 0..MaxLaunches /\ open' \subseteq Children
        BY <2>1, <2>2, LaunchFromNull DEF Children
      <3> QED
        BY <2>1, <2>2, <3>1, LaunchFromNull
           DEF TypeOK, WatchdogStates, TakesTurns, NoHandleLeak, OnlyHandleAlive,
               KilledFirst, NullBeforeLaunch
    <2>3. CASE LaunchFails
      <3>1. info' \in 0..MaxLaunches
        BY <2>3 DEF LaunchFails, NullHandle, TypeOK
      <3> QED
        BY <2>1, <2>3, <3>1
           DEF LaunchFails, os, TypeOK, WatchdogStates, TakesTurns, NoHandleLeak,
               OnlyHandleAlive, KilledFirst, NullBeforeLaunch
    <2> QED
      BY <1>11, <2>2, <2>3 DEF WatchdogLaunch, Relaunch
  <1>12. ASSUME NEW k \in Children, Crash(k) \/ Die(k)
         PROVE  IInv'
    <2>1. /\ UNCHANGED <<running, enabled, handle, info, owner, watchdog, open, launches>>
          /\ child' \in [Children -> ChildStates]
          /\ \A j \in Children : child'[j] = "alive" => child[j] = "alive"
      BY <1>12 DEF Crash, Die, TypeOK, ChildStates
    <2> QED
      BY <2>1 DEF TypeOK, TakesTurns, NoHandleLeak, OnlyHandleAlive, KilledFirst,
                  NullBeforeLaunch, Children
  <1> QED
    BY <1>1, <1>2, <1>3, <1>4, <1>5, <1>6, <1>7, <1>8, <1>9, <1>10, <1>11, <1>12
       DEF Next, StopStep, WatchdogStep

(* The strengthening holds in every reachable state.                       *)
THEOREM Invariance == Spec => []IInv
  BY InitIInv, StepIInv, PTL DEF Spec

(* Every reachable state is well typed.                                    *)
THEOREM TypeCorrect == Spec => []TypeOK
  <1>1. IInv => TypeOK
    BY DEF IInv
  <1> QED
    BY <1>1, Invariance, PTL

(* stop() leaves no cloudflared running, however it meets the watchdog.    *)
THEOREM NoOrphanHolds == Spec => []NoOrphan
  <1>1. IInv => NoOrphan
    <2> SUFFICES ASSUME IInv, ~running, NEW k \in Children, child[k] = "alive"
                 PROVE  FALSE
      BY DEF NoOrphan, Alive
    <2>1. k = handle /\ handle = 0
      BY DEF IInv, TakesTurns, OnlyHandleAlive
    <2> QED
      BY <2>1 DEF Children
  <1> QED
    BY <1>1, Invariance, PTL

(* There are never two cloudflared processes.                              *)
THEOREM AtMostOneTunnelHolds == Spec => []AtMostOneTunnel
  <1>1. IInv => AtMostOneTunnel
    <2> SUFFICES ASSUME IInv
                 PROVE  Cardinality(Alive) <= 1
      BY DEF AtMostOneTunnel
    <2>1. Alive \subseteq {handle}
      BY DEF IInv, OnlyHandleAlive, Alive
    <2>2. IsFiniteSet({handle}) /\ Cardinality({handle}) = 1
      BY FS_Singleton
    <2>3. Cardinality(Alive) <= Cardinality({handle})
      BY <2>1, <2>2, FS_Subset
    <2> QED
      BY <2>2, <2>3
  <1> QED
    BY <1>1, Invariance, PTL

(* No handle is leaked or closed twice, whichever launches fail.           *)
THEOREM NoHandleLeakHolds == Spec => []NoHandleLeak
  <1>1. IInv => NoHandleLeak
    BY DEF IInv
  <1> QED
    BY <1>1, Invariance, PTL

-----------------------------------------------------------------------------
(* The promise of StoppableThread.                                         *)

\* All that the promise looks at, but for where the owner is.
Kept == UNCHANGED <<enabled, watchdog>>

\* A stop() that gets as far as disableWatchdog() finds the flag set.
FlagSet == owner = "disable" \/ (owner = "idle" /\ running) => enabled

LEMMA FlagSetHolds == Spec => []FlagSet
  <1>1. Init => FlagSet
    BY DEF Init, FlagSet
  <1>2. FlagSet /\ [Next]_vars => FlagSet'
    <2> SUFFICES ASSUME FlagSet, [Next]_vars
                 PROVE  FlagSet'
      OBVIOUS
    <2> USE DEF FlagSet
    <2>1. CASE UNCHANGED vars \/ (\E k \in Children : Crash(k) \/ Die(k))
      BY <2>1 DEF vars, Crash, Die
    <2>2. CASE Start \/ EnableWatchdog \/ Stop
      BY <2>2 DEF Start, EnableWatchdog, Stop
    <2>3. CASE StopStep
      BY <2>3 DEF StopStep, DisableWatchdog, JoinWatchdog, StopTerminate, StopClose, StopClear
    <2>4. CASE WatchdogStep
      BY <2>4 DEF WatchdogStep, WatchdogTest, WatchdogCheck, WatchdogTerminate, WatchdogClose,
                  WatchdogPause, WatchdogLaunch
    <2> QED
      BY <2>1, <2>2, <2>3, <2>4 DEF Next
  <1> QED
    BY <1>1, <1>2, PTL DEF Spec

(* stop() waits for the watchdog, which begins at most one relaunch more.  *)
THEOREM WatchdogIsStoppable == Spec => ImplementsStoppableThread
  <1>1. Init => Part!Init
    BY DEF Init, Part!Init
  <1>2. IInv /\ FlagSet /\ [Next]_vars => [Part!Next]_(Part!vars)
    <2> SUFFICES ASSUME IInv, FlagSet, [Next]_vars
                 PROVE  [Part!Next]_(Part!vars)
      OBVIOUS
    <2> USE DEF IInv, TakesTurns, Part!Next, Part!vars
    <2>1. CASE UNCHANGED vars \/ (\E k \in Children : Crash(k) \/ Die(k))
      BY <2>1 DEF vars, Crash, Die
    <2>2. CASE Start \/ Stop \/ StopTerminate \/ StopClose \/ StopClear
      <3>1. Kept /\ owner # "join" /\ owner' # "join"
        BY <2>2 DEF Start, Stop, StopTerminate, StopClose, StopClear, Kept
      <3> QED
        BY <3>1 DEF Kept
    <2>3. CASE EnableWatchdog
      <3>1. Part!Start
        BY <2>3 DEF EnableWatchdog, Part!Start
      <3> QED
        BY <3>1
    <2>4. CASE DisableWatchdog
      <3>1. (~enabled /\ watchdog = "sleep")' \in BOOLEAN
        OBVIOUS
      <3>2. /\ owner = "disable" /\ owner' = "join" /\ watchdog' = watchdog
            /\ enabled /\ ~enabled'
        BY <2>4 DEF DisableWatchdog, FlagCleared, FlagSet
      <3>3. Part!Clear
        BY <3>1, <3>2 DEF Part!Clear
      <3> QED
        BY <3>3
    <2>5. CASE JoinWatchdog
      <3>1. Part!Return
        BY <2>5 DEF JoinWatchdog, Joinable, Part!Return
      <3> QED
        BY <3>1
    <2>6. CASE WatchdogTest
      <3>1. CASE watchdog' = "none"
        <4>1. Part!Leave
          BY <2>6, <3>1 DEF WatchdogTest, Goto, Part!Leave
        <4> QED
          BY <4>1
      <3>2. CASE watchdog' # "none"
        BY <2>6, <3>2 DEF WatchdogTest, Goto
      <3> QED
        BY <3>1, <3>2
    <2>7. CASE WatchdogCheck
      <3>1. CASE watchdog' = "none"
        <4>1. Part!Leave
          BY <2>7, <3>1 DEF WatchdogCheck, Goto, Part!Leave
        <4> QED
          BY <4>1
      <3>2. CASE watchdog' = "kill"
        <4>1. Part!Begin
          BY <2>7, <3>2 DEF WatchdogCheck, Goto, Part!Begin, TypeOK
        <4> QED
          BY <4>1
      <3>3. CASE watchdog' = "test" /\ enabled
        BY <2>7, <3>3 DEF WatchdogCheck, Goto
      <3>4. CASE watchdog' = "test" /\ ~enabled
        <4>1. Part!Skip
          BY <2>7, <3>4 DEF WatchdogCheck, Goto, Part!Skip
        <4> QED
          BY <4>1
      <3> QED
        BY <2>7, <3>1, <3>2, <3>3, <3>4 DEF WatchdogCheck, Goto
    <2>8. CASE WatchdogTerminate \/ WatchdogClose \/ WatchdogPause
      BY <2>8 DEF WatchdogTerminate, WatchdogClose, WatchdogPause, Goto
    <2>9. CASE WatchdogLaunch
      <3>1. Part!End
        BY <2>9 DEF WatchdogLaunch, Goto, Part!End
      <3> QED
        BY <3>1
    <2> QED
      BY <2>1, <2>2, <2>3, <2>4, <2>5, <2>6, <2>7, <2>8, <2>9 DEF Next, StopStep, WatchdogStep
  <1> QED
    BY <1>1, <1>2, Invariance, FlagSetHolds, PTL DEF Spec, ImplementsStoppableThread, Part!Spec

-----------------------------------------------------------------------------
(* The end of a stop and of an outage.  The steps that fairness is assumed *)
(* of are taken where they can be; that they can be is NeverStuck.         *)

\* The stop, past its join.
Ending(place) == owner = place
\* The stop, in its join: the watchdog's flag is cleared.
Joining(place) == owner = "join" /\ ~enabled /\ watchdog = place

(* The owner goes from one step of stop() to the next.                     *)
LEMMA OwnerStep ==
  ASSUME IInv, [Next]_vars
  PROVE  /\ owner = "disable" => owner' = "disable" \/ (owner' = "join" /\ ~enabled')
         /\ owner = "join" => owner' \in {"join", "kill"} /\ enabled' = enabled
         /\ owner = "kill" => owner' \in {"kill", "wait", "clear"}
         /\ owner = "wait" => owner' \in {"wait", "clear"}
         /\ owner = "clear" => owner' \in {"clear", "idle"}
  <1>1. CASE UNCHANGED vars \/ (\E k \in Children : Crash(k) \/ Die(k))
    BY <1>1 DEF vars, Crash, Die
  <1>2. CASE Start \/ EnableWatchdog \/ Stop
    BY <1>2 DEF Start, EnableWatchdog, Stop
  <1>3. CASE StopStep
    BY <1>3 DEF StopStep, DisableWatchdog, FlagCleared, JoinWatchdog, StopTerminate, StopClose, StopClear
  <1>4. CASE WatchdogStep
    BY <1>4 DEF WatchdogStep, WatchdogTest, WatchdogCheck, WatchdogTerminate, WatchdogClose,
                WatchdogPause, WatchdogLaunch
  <1> QED
    BY <1>1, <1>2, <1>3, <1>4 DEF Next

(* A stopped owner has moved on.                                           *)
LEMMA StopStepLeaves ==
  ASSUME StopStep
  PROVE  owner' # owner
  BY DEF StopStep, DisableWatchdog, JoinWatchdog, StopTerminate, StopClose, StopClear

\* Where the watchdog goes on to, and where it does with its flag cleared.
After == [test |-> {"sleep", "none"}, sleep |-> {"none", "kill", "test"}, kill |-> {"wait"},
          wait |-> {"pause"}, pause |-> {"launch"}, launch |-> {"test"}]

LEMMA WatchdogGoesOn ==
  ASSUME WatchdogStep
  PROVE  watchdog' \in After[watchdog] /\ (watchdog = "test" /\ ~enabled => watchdog' = "none")
  BY DEF WatchdogStep, WatchdogTest, WatchdogCheck, WatchdogTerminate, WatchdogClose,
         WatchdogPause, WatchdogLaunch, Goto, After

(* Nobody else moves the watchdog, once it has started.                    *)
LEMMA OnlyWatchdogMoves ==
  ASSUME IInv, [Next]_vars, ~WatchdogStep, owner # "started"
  PROVE  watchdog' = watchdog
  BY DEF Next, vars, Crash, Die, Start, EnableWatchdog, Stop, StopStep, DisableWatchdog, JoinWatchdog,
         StopTerminate, StopClose, StopClear

(* With its flag cleared the watchdog makes for its end.                   *)
LEMMA JoiningStep ==
  ASSUME IInv, [Next]_vars, NEW place \in WatchdogStates \ {"none"}, Joining(place)
  PROVE  \/ Joining(place)'
         \/ place # "test" /\ \E next \in After[place] : Joining(next)'
         \/ Joining("none")'
  <1>1. CASE WatchdogStep
    <2>1. owner' = "join" /\ ~enabled'
      BY <1>1 DEF WatchdogStep, WatchdogTest, WatchdogCheck, WatchdogTerminate, WatchdogClose,
                  WatchdogPause, WatchdogLaunch, Joining
    <2> QED
      BY <1>1, <2>1, WatchdogGoesOn DEF Joining
  <1>2. CASE ~WatchdogStep
    <2>1. watchdog' = watchdog
      BY <1>2, OnlyWatchdogMoves DEF Joining
    <2>2. ~JoinWatchdog
      BY DEF JoinWatchdog, Joinable, Joining
    <2>3. owner' = "join" /\ ~enabled'
      BY <1>2, <2>2 DEF Next, vars, Crash, Die, Start, EnableWatchdog, Stop, StopStep, DisableWatchdog,
         StopTerminate, StopClose, StopClear, Joining
    <2> QED
      BY <2>1, <2>3 DEF Joining
  <1> QED
    BY <1>1, <1>2

(* stop() returns, also when it meets the watchdog in a relaunch.          *)
THEOREM StopTerminatesHolds == FairSpec /\ []NeverStuck => StopTerminates
  <1>1. IInv /\ [Next]_vars =>
          /\ Ending("disable") => (Ending("disable") \/ Joining("test") \/ Joining("sleep")
                                   \/ Joining("kill") \/ Joining("wait") \/ Joining("pause")
                                   \/ Joining("launch") \/ Joining("none"))'
          /\ Ending("kill") => (Ending("kill") \/ Ending("wait") \/ Ending("clear"))'
          /\ Ending("wait") => (Ending("wait") \/ Ending("clear"))'
          /\ Ending("clear") => (Ending("clear") \/ Ending("idle"))'
    <2> SUFFICES ASSUME IInv, [Next]_vars
                 PROVE  /\ owner = "disable" => (owner = "disable" \/ \E w \in WatchdogStates : Joining(w))'
                        /\ owner = "kill" => owner' \in {"kill", "wait", "clear"}
                        /\ owner = "wait" => owner' \in {"wait", "clear"}
                        /\ owner = "clear" => owner' \in {"clear", "idle"}
      BY DEF Ending, WatchdogStates
    <2>1. watchdog' \in WatchdogStates
      BY StepIInv DEF IInv, TypeOK
    <2> QED
      BY <2>1, OwnerStep DEF Joining
  <1>2. IInv /\ [Next]_vars =>
          /\ Joining("sleep") => (Joining("sleep") \/ Joining("kill") \/ Joining("test") \/ Joining("none"))'
          /\ Joining("kill") => (Joining("kill") \/ Joining("wait") \/ Joining("none"))'
          /\ Joining("wait") => (Joining("wait") \/ Joining("pause") \/ Joining("none"))'
          /\ Joining("pause") => (Joining("pause") \/ Joining("launch") \/ Joining("none"))'
          /\ Joining("launch") => (Joining("launch") \/ Joining("test") \/ Joining("none"))'
          /\ Joining("test") => (Joining("test") \/ Joining("none"))'
    BY JoiningStep DEF After, WatchdogStates
  <1>3. IInv /\ [Next]_vars => (Joining("none") => (Joining("none") \/ Ending("kill"))')
    <2> SUFFICES ASSUME IInv, [Next]_vars, Joining("none")
                 PROVE  (Joining("none") \/ Ending("kill"))'
      OBVIOUS
    <2>1. ~WatchdogStep
      BY WatchdogGoesOn DEF Joining, WatchdogStep, WatchdogTest, WatchdogCheck, WatchdogTerminate,
         WatchdogClose, WatchdogPause, WatchdogLaunch, Goto
    <2> QED
      BY <2>1, OwnerStep, OnlyWatchdogMoves DEF Joining, Ending
  <1>4. <<StopStep>>_vars =>
          /\ Ending("disable") => ~Ending("disable")'
          /\ Joining("none") => ~Joining("none")'
          /\ Ending("kill") => ~Ending("kill")'
          /\ Ending("wait") => ~Ending("wait")'
          /\ Ending("clear") => ~Ending("clear")'
    BY StopStepLeaves DEF Ending, Joining
  <1>5. <<WatchdogStep>>_vars =>
          /\ Joining("sleep") => ~Joining("sleep")'
          /\ Joining("kill") => ~Joining("kill")'
          /\ Joining("wait") => ~Joining("wait")'
          /\ Joining("pause") => ~Joining("pause")'
          /\ Joining("launch") => ~Joining("launch")'
          /\ Joining("test") => ~Joining("test")'
    BY WatchdogGoesOn DEF Joining, After
  <1>6. NeverStuck =>
          /\ Ending("disable") \/ Joining("none") \/ Ending("kill") \/ Ending("wait") \/ Ending("clear")
               => ENABLED <<StopStep>>_vars
          /\ Joining("sleep") \/ Joining("kill") \/ Joining("wait") \/ Joining("pause")
               \/ Joining("launch") \/ Joining("test") => ENABLED <<WatchdogStep>>_vars
    BY DEF NeverStuck, Ending, Joining
  <1>7. StopTerminates <=> (Ending("disable") ~> Ending("idle"))
    BY DEF StopTerminates, Ending
  <1> QED
    BY <1>1, <1>2, <1>3, <1>4, <1>5, <1>6, <1>7, Invariance, PTL DEF FairSpec, Spec

\* What TunnelRestored assumes to go on.
Watched == Guarded /\ ~Blind

\* A dead child that the watchdog is to find, and the relaunch of what it found.
Unseen(place) == Down /\ watchdog = place
Relaunching(place) == watchdog = place
Restored == Alive # {}

(* A dead child stays dead, and in its place, until the watchdog closes it. *)
LEMMA DownStays ==
  ASSUME IInv, [Next]_vars, Guarded, Down, watchdog \in {"test", "sleep"}
  PROVE  Down'
  <1>1. CASE UNCHANGED vars \/ Stop \/ WatchdogTest \/ WatchdogCheck
    BY <1>1 DEF vars, Stop, WatchdogTest, WatchdogCheck, os, Down
  <1>2. ASSUME NEW k \in Children, Crash(k) \/ Die(k)
        PROVE  Down'
    <2>1. handle' = handle /\ handle \in Children /\ child[handle] = "dead" /\ k # handle
      BY <1>2 DEF Crash, Die, Down, IInv, TypeOK, Children
    <2> QED
      BY <1>2, <2>1 DEF Crash, Die, Down, IInv, TypeOK
  <1>3. ~(Start \/ EnableWatchdog \/ StopStep)
    BY DEF Start, EnableWatchdog, StopStep, DisableWatchdog, JoinWatchdog, StopTerminate, StopClose,
       StopClear, Guarded, IInv, TakesTurns
  <1>4. ~(WatchdogTerminate \/ WatchdogClose \/ WatchdogPause \/ WatchdogLaunch)
    BY DEF WatchdogTerminate, WatchdogClose, WatchdogPause, WatchdogLaunch, Goto
  <1> QED
    BY <1>1, <1>2, <1>3, <1>4 DEF Next, WatchdogStep

(* A relaunch that does not leave the watchdog blind has launched a child. *)
LEMMA RelaunchRestores ==
  ASSUME IInv, WatchdogLaunch, Watched'
  PROVE  Restored'
  <1>1. handle = 0 /\ watchdog' = "test" /\ handle' # 0
    BY DEF IInv, NullBeforeLaunch, WatchdogLaunch, Goto, Watched, Blind
  <1>2. Launch
    BY <1>1 DEF WatchdogLaunch, Relaunch, LaunchFails
  <1>3. handle' \in Children /\ child'[handle'] = "alive"
    BY <1>2 DEF Launch, IInv, TypeOK
  <1> QED
    BY <1>3 DEF Restored, Alive

(* While nobody stops the tunnel and no relaunch fails, a dead child is    *)
(* found, closed and followed by one that lives.                           *)
THEOREM TunnelRestoredHolds == FairSpec /\ []NeverStuck => TunnelRestored
  <1>1. IInv /\ [Next]_vars /\ Watched /\ Watched' =>
          /\ Unseen("test") => (Unseen("test") \/ Unseen("sleep"))'
          /\ Unseen("sleep") => (Unseen("sleep") \/ Relaunching("kill"))'
          /\ Relaunching("kill") => (Relaunching("kill") \/ Relaunching("wait"))'
          /\ Relaunching("wait") => (Relaunching("wait") \/ Relaunching("pause"))'
          /\ Relaunching("pause") => (Relaunching("pause") \/ Relaunching("launch"))'
          /\ Relaunching("launch") => (Relaunching("launch") \/ Restored)'
    <2> SUFFICES ASSUME IInv, [Next]_vars, Watched, Watched', watchdog' # watchdog
                 PROVE  /\ Unseen("test") => Unseen("sleep")'
                        /\ Unseen("sleep") => Relaunching("kill")'
                        /\ Relaunching("kill") => Relaunching("wait")'
                        /\ Relaunching("wait") => Relaunching("pause")'
                        /\ Relaunching("pause") => Relaunching("launch")'
                        /\ Relaunching("launch") => Restored'
      BY DownStays DEF Unseen, Relaunching, Watched
    <2>1. owner = "idle" /\ watchdog' # "none"
      BY DEF Watched, Guarded
    <2>2. WatchdogStep
      BY <2>1, OnlyWatchdogMoves
    <2>3. Unseen("sleep") => watchdog' = "kill"
      BY <2>1, <2>2 DEF Unseen, Down, WatchdogStep, WatchdogTest, WatchdogCheck, SeenDead, WatchdogTerminate,
         WatchdogClose, WatchdogPause, WatchdogLaunch, Goto, IInv, TakesTurns
    <2>4. Relaunching("launch") => Restored'
      BY <2>2, RelaunchRestores DEF Relaunching, WatchdogStep, WatchdogTest, WatchdogCheck,
         WatchdogTerminate, WatchdogClose, WatchdogPause, Goto
    <2> QED
      BY <2>1, <2>2, <2>3, <2>4, WatchdogGoesOn, DownStays DEF Unseen, Relaunching, After, Watched
  <1>2. <<WatchdogStep>>_vars =>
          /\ Unseen("test") => ~Unseen("test")'
          /\ Unseen("sleep") => ~Unseen("sleep")'
          /\ Relaunching("kill") => ~Relaunching("kill")'
          /\ Relaunching("wait") => ~Relaunching("wait")'
          /\ Relaunching("pause") => ~Relaunching("pause")'
          /\ Relaunching("launch") => ~Relaunching("launch")'
    BY WatchdogGoesOn DEF Unseen, Relaunching, After
  <1>3. NeverStuck /\ Watched => ENABLED <<WatchdogStep>>_vars
    BY DEF NeverStuck, Watched, Guarded
  <1>4. IInv /\ Down /\ Watched =>
          \/ Unseen("test") \/ Unseen("sleep") \/ Relaunching("kill") \/ Relaunching("wait")
          \/ Relaunching("pause") \/ Relaunching("launch")
    BY DEF IInv, TypeOK, WatchdogStates, Watched, Guarded, Unseen, Relaunching
  <1>5. TunnelRestored <=> []((Down /\ []Watched) => <>Restored)
    BY PTL DEF TunnelRestored, Watched, Restored
  <1> QED
    BY <1>1, <1>2, <1>3, <1>4, <1>5, Invariance, PTL DEF FairSpec, Spec
=============================================================================
