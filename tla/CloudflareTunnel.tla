-------------------------- MODULE CloudflareTunnel --------------------------
(***************************************************************************)
(* src/src/CloudflareTunnel.cpp: the owner thread starts a cloudflared     *)
(* child process, enables a watchdog thread that relaunches it when it has *)
(* died, and stops both.  The owner keeps to the calls of main.cpp: start(), *)
(* enableWatchdog() right after a start() that returned true, stop().      *)
(*                                                                         *)
(* A child is known by the number of its launch; 0 is a null handle.  The  *)
(* operating system's part is the life of a child: it may die at any time, *)
(* and a terminated one may outlive the 5 seconds killProcess() waits.     *)
(***************************************************************************)
EXTENDS Integers, FiniteSets

CONSTANTS
    MaxLaunches,    \* bound on successful launches (for TLC; not in the code)
    LaunchMayFail,  \* may cloudflared be missing or CreateProcess fail?
    SpawnMayFail    \* may std::thread's constructor throw?

ASSUME BoundAssumption == MaxLaunches \in Nat \ {0}
ASSUME SwitchAssumption == LaunchMayFail \in BOOLEAN /\ SpawnMayFail \in BOOLEAN

VARIABLES
    running,        \* running_
    enabled,        \* watchdog_enabled_
    handle,         \* process_handle_
    info,           \* process_info_.hProcess
    owner,          \* where the owner's call is
    watchdog,       \* where the watchdog thread is
    child,          \* life of each child (operating system)
    open,           \* children whose handles are not closed (operating system)
    launches        \* children launched so far (bounded)

vars == <<running, enabled, handle, info, owner, watchdog, child, open, launches>>
os == <<child, open, launches>>

Children == 1..MaxLaunches

\* dead259 is a death whose exit code equals STILL_ACTIVE (259).
ChildStates == {"none", "alive", "dying", "dead", "dead259"}

OwnerStates ==
    {"idle", "started",             \* between calls; between start() and enableWatchdog()
     "disable", "join",             \* stop(): disableWatchdog()
     "kill", "wait", "clear"}       \* stop(): killProcess(), then running_ = false

WatchdogStates ==
    {"none",                        \* no thread, or its function has returned
     "test", "sleep",               \* the while condition; Sleep(interval)
     "kill", "wait",                \* killProcess()
     "pause", "launch"}             \* Sleep(2000); launchCloudflared()

TypeOK ==
    /\ running \in BOOLEAN
    /\ enabled \in BOOLEAN
    /\ handle \in 0..MaxLaunches
    /\ info \in 0..MaxLaunches
    /\ owner \in OwnerStates
    /\ watchdog \in WatchdogStates
    /\ child \in [Children -> ChildStates]
    /\ open \subseteq Children
    /\ launches \in 0..MaxLaunches

Init ==
    /\ running = FALSE
    /\ enabled = FALSE
    /\ handle = 0
    /\ info = 0
    /\ owner = "idle"
    /\ watchdog = "none"
    /\ child = [k \in Children |-> "none"]
    /\ open = {}
    /\ launches = 0

-----------------------------------------------------------------------------
(* launchCloudflared() and killProcess(), called by either thread.         *)

Launch ==
    LET k == launches + 1 IN
    /\ k \in Children
    /\ info' = k
    /\ handle' = k
    /\ child' = [child EXCEPT ![k] = "alive"]
    /\ open' = open \cup {k}
    /\ launches' = k

NullHandle == 0

\* Not found: nothing is touched.  CreateProcess fails: process_info_ was zeroed.
LaunchFails ==
    /\ LaunchMayFail
    /\ info' \in {info, NullHandle}
    /\ UNCHANGED <<handle, os>>

TerminateForgotten == UNCHANGED child       \* a mutation of Terminate
\* TerminateProcess on the current child; nothing at all without a handle.
Terminate ==
    child' = IF handle # 0 /\ child[handle] = "alive"
             THEN [child EXCEPT ![handle] = "dying"]
             ELSE child

CloseForgotten == handle' = 0 /\ UNCHANGED <<child, open, launches>>   \* a mutation of Close
\* Another, whose wait has no end but death.
CloseOfTheDead ==
    /\ info # 0 => child[info] # "dying"
    /\ open' = open \ {info}
    /\ handle' = 0
    /\ UNCHANGED <<child, launches>>

\* The wait has ended, by death or by timeout: close what process_info_ names.
Close ==
    /\ open' = open \ {info}
    /\ handle' = 0
    /\ UNCHANGED <<child, launches>>

-----------------------------------------------------------------------------
(* The owner.                                                              *)

\* start(); while running_ is set it returns at once.
Start ==
    /\ owner = "idle" /\ ~running
    /\ \/ Launch /\ running' = TRUE /\ owner' = "started"
       \/ LaunchFails /\ UNCHANGED <<running, owner>>
    /\ UNCHANGED <<enabled, watchdog>>

\* The flag is set before the thread exists; the constructor may throw.
EnableWatchdog ==
    /\ owner = "started" /\ ~enabled
    /\ enabled' = TRUE
    /\ owner' = "idle"
    /\ \/ watchdog' = "test"
       \/ SpawnMayFail /\ UNCHANGED watchdog
    /\ UNCHANGED <<running, handle, info, os>>

Stop ==
    /\ owner = "idle" /\ running
    /\ owner' = "disable"
    /\ UNCHANGED <<running, enabled, handle, info, watchdog, os>>

FlagKept == UNCHANGED enabled               \* a mutation of FlagCleared
FlagCleared == enabled' = FALSE

DisableWatchdog ==
    /\ owner = "disable"
    /\ FlagCleared
    /\ owner' = "join"
    /\ UNCHANGED <<running, handle, info, watchdog, os>>

JoinForgotten == TRUE                       \* a mutation of Joinable
Joinable == watchdog = "none"

JoinWatchdog ==
    /\ owner = "join" /\ Joinable
    /\ owner' = "kill"
    /\ UNCHANGED <<running, enabled, handle, info, watchdog, os>>

StopTerminate ==
    /\ owner = "kill"
    /\ Terminate
    /\ owner' = IF handle # 0 THEN "wait" ELSE "clear"
    /\ UNCHANGED <<running, enabled, handle, info, watchdog, open, launches>>

StopClose ==
    /\ owner = "wait"
    /\ Close
    /\ owner' = "clear"
    /\ UNCHANGED <<running, enabled, info, watchdog>>

StopClear ==
    /\ owner = "clear"
    /\ running' = FALSE
    /\ owner' = "idle"
    /\ UNCHANGED <<enabled, handle, info, watchdog, os>>

-----------------------------------------------------------------------------
(* The watchdog.                                                           *)

Goto(from, to) == watchdog = from /\ watchdog' = to

WatchdogTest ==
    /\ Goto("test", IF enabled /\ running THEN "sleep" ELSE "none")
    /\ UNCHANGED <<running, enabled, handle, info, owner, os>>

SeenRunning == handle # 0 /\ child[handle] # "dead"  \* a mutation of SeenDead
\* GetExitCodeProcess fails on a null handle, and STILL_ACTIVE is 259.
SeenDead == handle # 0 /\ child[handle] = "dead"

WatchdogCheck ==
    /\ Goto("sleep", IF ~running THEN "none" ELSE IF SeenDead THEN "kill" ELSE "test")
    /\ UNCHANGED <<running, enabled, handle, info, owner, os>>

WatchdogTerminate ==
    /\ Goto("kill", "wait")
    /\ Terminate
    /\ UNCHANGED <<running, enabled, handle, info, owner, open, launches>>

WatchdogClose ==
    /\ Goto("wait", "pause")
    /\ Close
    /\ UNCHANGED <<running, enabled, info, owner>>

WatchdogPause ==
    /\ Goto("pause", "launch")
    /\ UNCHANGED <<running, enabled, handle, info, owner, os>>

\* The result of launchCloudflared() is ignored.
Relaunch == Launch \/ LaunchFails

WatchdogLaunch ==
    /\ Goto("launch", "test")
    /\ Relaunch
    /\ UNCHANGED <<running, enabled, owner>>

-----------------------------------------------------------------------------
(* The operating system.  A child dies by itself only while another launch *)
(* is within the bound.                                                    *)
Crash(k) ==
    /\ child[k] = "alive" /\ launches < MaxLaunches
    /\ \E s \in {"dead", "dead259"} : child' = [child EXCEPT ![k] = s]
    /\ UNCHANGED <<running, enabled, handle, info, owner, watchdog, open, launches>>

Die(k) ==
    /\ child[k] = "dying"
    /\ child' = [child EXCEPT ![k] = "dead"]
    /\ UNCHANGED <<running, enabled, handle, info, owner, watchdog, open, launches>>

StopStep ==
    DisableWatchdog \/ JoinWatchdog \/ StopTerminate \/ StopClose \/ StopClear

WatchdogStep ==
    \/ WatchdogTest \/ WatchdogCheck \/ WatchdogTerminate
    \/ WatchdogClose \/ WatchdogPause \/ WatchdogLaunch

Next ==
    \/ Start \/ EnableWatchdog \/ Stop \/ StopStep
    \/ WatchdogStep
    \/ \E k \in Children : Crash(k) \/ Die(k)

Spec == Init /\ [][Next]_vars

\* Threads that can run are run; Sleep, WaitForSingleObject with its timeout
\* and CreateProcess return.  No call has to be made and no child has to die.
FairSpec == Spec /\ WF_vars(StopStep) /\ WF_vars(EnableWatchdog) /\ WF_vars(WatchdogStep)

-----------------------------------------------------------------------------
(* Properties.                                                             *)

Alive == {k \in Children : child[k] = "alive"}

(* After stop() has returned no cloudflared of ours is running: the watchdog *)
(* cannot relaunch the child that stop() has just killed.                  *)
NoOrphan == owner = "idle" /\ ~running => Alive = {}

(* Two cloudflared processes are never connected at the same time.         *)
AtMostOneTunnel == Cardinality(Alive) <= 1

(* Every handle CreateProcess returned is closed exactly when the child is *)
(* given up: the handles open are those of process_handle_, which names    *)
(* the process that process_info_ describes.                               *)
NoHandleLeak ==
    /\ handle # 0 => info = handle
    /\ open = {handle} \ {0}

(* Neither thread waits for anything that may not come: stop() waits for   *)
(* the watchdog alone, and the watchdog always goes on, so a child that    *)
(* will not die, or that cannot be launched, holds up neither.             *)
NeverStuck ==
    /\ owner \in {"disable", "kill", "wait", "clear"} => ENABLED <<StopStep>>_vars
    /\ owner = "join" /\ watchdog = "none" => ENABLED <<StopStep>>_vars
    /\ watchdog # "none" => ENABLED <<WatchdogStep>>_vars

(* stop() returns, also when it meets the watchdog in a relaunch.          *)
StopTerminates == owner = "disable" ~> owner = "idle"

\* The owner leaves the watchdog to it, and a dead child is there to be found.
Guarded == owner = "idle" /\ watchdog # "none"
Down == handle # 0 /\ child[handle] = "dead"

\* A relaunch has failed: the watchdog has no child to look at any more.
Blind == watchdog \in {"test", "sleep"} /\ handle = 0

(* While nobody stops the tunnel, a dead child is followed by one that     *)
(* lives, as long as no relaunch fails.                                           *)
TunnelRestored == []((Down /\ [](Guarded /\ ~Blind)) => <>(Alive # {}))

(* OPERATIONS.md:200-201 and ARCHITECTURE.md:208: restarted on failure,    *)
(* with no limit, also when one restart fails.                             *)
AlwaysRestored == []((Down /\ []Guarded) => <>(Alive # {}))

(* The watchdog keeps the promise of StoppableThread: stop() does not go   *)
(* on to its own kill before the watchdog has gone, which completes the    *)
(* relaunch it has begun and, out of its Sleep(), may begin one more.      *)
Part == INSTANCE StoppableThread WITH
    flag <- enabled, thread <- watchdog # "none", stopping <- owner = "join",
    working <- watchdog \in {"kill", "wait", "pause", "launch"},
    last <- ~enabled /\ watchdog = "sleep"

ImplementsStoppableThread == Part!Spec
=============================================================================
