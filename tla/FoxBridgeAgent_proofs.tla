------------------------ MODULE FoxBridgeAgent_proofs ------------------------
(***************************************************************************)
(* Machine-checked proofs of the safety of FoxBridgeAgent, for any number  *)
(* of starts, failures and crashes.                                        *)
(***************************************************************************)
EXTENDS FoxBridgeAgent, TLAPS

-----------------------------------------------------------------------------
(* The strengthening.                                                      *)

\* The places in which the SCM has been told that the service starts.
NotBegun == {"register", "unheard"}
Starting == NotBegun \cup
    {"database", "server", "tunnel", "watchdog", "maintenance", "report", "throw"}

\* Which places of the two threads go with which report to the SCM: nothing is
\* started while anything is stopped.
Places ==
    /\ scm \in {"start_pending", "running"} => main = "dispatch"
    /\ scm = "stop_pending" <=> main \in {"stopping", "report"}
    /\ scm = "start_pending" <=> service \in Starting

\* The component that is being joined.
Joined == IF joining THEN {Current} ELSE {}

\* A thread belongs to an object whose flag is set or that is being joined.
Owned ==
    /\ running \subseteq objects
    /\ threads \subseteq objects
    /\ threads \subseteq running \cup Joined
    /\ joining => ShuttingDown /\ Current \notin running
    /\ main # "none" /\ child => "tunnel" \in running \cup Joined

\* The shutdown has released what it has passed, and all of it when it is over.
Released ==
    /\ main \in {"none", "report"} \/ service \in NotBegun \cup {"database"} => objects = {}
    /\ main \in {"stopping", "exiting"} =>
         /\ turn > 1 => "maintenance" \notin objects
         /\ turn > 2 => "tunnel" \notin objects
         /\ turn > 3 => "server" \notin objects
         /\ turn > 4 => "database" \notin objects

\* The connection is open from before the first user of it until after the last.
Connected ==
    /\ objects \cap {"server", "maintenance"} # {} => handles = "open"
    /\ service \in Starting \ (NotBegun \cup {"database", "throw"}) => "database" \in objects /\ handles = "open"
    /\ service \in Starting \ (NotBegun \cup {"database", "throw", "server"}) => "server" \in objects
    /\ service = "report" => "maintenance" \in objects \cap running \cap threads
    /\ scm = "running" => Holders \subseteq objects /\ "maintenance" \in running \cap threads
    /\ scm \in {"running", "stop_pending"} =>
         handles = (IF objects \cap Holders = {} THEN "closed" ELSE "open")

Quiet ==
    scm = "stopped" /\ outcome = "orderly"
        => objects = {} /\ ~child /\ handles \in {"closed", "null"}

IInv ==
    /\ TypeOK
    /\ Places
    /\ Owned
    /\ Released
    /\ Connected
    /\ Quiet

-----------------------------------------------------------------------------
(* The component whose turn it is.                                         *)
LEMMA OrderLength == Len(ShutdownOrder) = 4
  BY DEF ShutdownOrder

LEMMA TurnOf ==
  ASSUME TypeOK
  PROVE  /\ turn \in 1..5
         /\ turn = 1 => Current = "maintenance"
         /\ turn = 2 => Current = "tunnel"
         /\ turn = 3 => Current = "server"
         /\ turn = 4 => Current = "database"
  BY DEF TypeOK, ShutdownOrder, Current

(* Nothing is started, and the SCM does not show the service as running,   *)
(* while anything is stopped.                                              *)
LEMMA NothingStarts ==
  ASSUME IInv, ShuttingDown
  PROVE  scm \in {"stop_pending", "stopped"} /\ service \notin Starting
  BY DEF IInv, TypeOK, ScmStates, Places, ShuttingDown

(* What is left when the shutdown is through.                              *)
LEMMA AllReleased ==
  ASSUME IInv, main \in {"stopping", "exiting"}, turn > Len(ShutdownOrder)
  PROVE  objects = {}
  BY OrderLength, TurnOf DEF IInv, TypeOK, Objects, Threaded, Released

LEMMA InitIInv == Init => IInv
  <1> SUFFICES ASSUME Init
               PROVE  IInv
    OBVIOUS
  <1>1. TypeOK
    <2>1. child \in BOOLEAN /\ joining \in BOOLEAN
      BY DEF Init
    <2>2. /\ scm \in ScmStates /\ main \in MainStates /\ service \in ServiceStates
          /\ outcome \in {"none", "orderly", "error", "crash"}
      BY DEF Init, ScmStates, MainStates, ServiceStates
    <2>3. handles \in Handles /\ serving \in {"test", "accept", "request"}
      BY DEF Init, Handles
    <2>4. turn \in 1..Len(ShutdownOrder) + 1 /\ starts \in Nat
      BY OrderLength DEF Init
    <2> QED
      BY <2>1, <2>2, <2>3, <2>4 DEF Init, TypeOK
  <1>2. Places /\ Owned /\ Released
    BY DEF Init, Places, NotBegun, Starting, Owned, Joined, Released
  <1>3. Connected /\ Quiet
    BY DEF Init, Connected, NotBegun, Starting, Quiet
  <1> QED
    BY <1>1, <1>2, <1>3 DEF IInv

(* Steps of the SCM and the sudden end of the process.                     *)
LEMMA ScmKeepsIInv ==
  ASSUME IInv, ScmStart \/ ScmRecover \/ ScmStop \/ Crash
  PROVE  IInv'
  <1> USE DEF IInv, TypeOK, MainStates, Places, NotBegun, Starting, Owned, Joined, ShuttingDown,
     Current, Released, parts, shutdown
  <1>1. CASE Begin
    <2>1. TypeOK'
      <3>1. child' \in BOOLEAN /\ joining' \in BOOLEAN
        BY <1>1 DEF Begin
      <3> QED
        BY <1>1, <3>1, OrderLength DEF Begin, ScmStates, ServiceStates, Handles,
           Objects, Threaded
    <2>2. Places' /\ Owned' /\ Released' /\ Quiet'
      BY <1>1 DEF Begin, Quiet
    <2>3. Connected'
      BY <1>1 DEF Begin, Connected, Holders
    <2> QED
      BY <2>1, <2>2, <2>3
  <1>2. CASE ScmStop
    <2>1. TypeOK'
      <3>1. child' \in BOOLEAN /\ joining' \in BOOLEAN
        BY <1>2 DEF ScmStop, AcceptsStop, Handling
      <3> QED
        BY <1>2, <3>1, OrderLength DEF ScmStop, AcceptsStop, Handling, ScmStates,
           ServiceStates, Handles, Objects, Threaded
    <2>2. Places' /\ Owned' /\ Released' /\ Quiet'
      BY <1>2 DEF ScmStop, AcceptsStop, Handling, Quiet
    <2>3. Connected'
      BY <1>2 DEF ScmStop, AcceptsStop, Handling, Connected, Holders
    <2> QED
      BY <2>1, <2>2, <2>3
  <1>3. CASE Crash
    <2>1. TypeOK'
      <3>1. child' \in BOOLEAN /\ joining' \in BOOLEAN
        BY <1>3 DEF Crash
      <3> QED
        BY <1>3, <3>1, OrderLength DEF Crash, ScmStates, ServiceStates, Handles,
           Objects, Threaded
    <2>2. Places' /\ Owned' /\ Released' /\ Quiet'
      BY <1>3 DEF Crash, Quiet
    <2>3. Connected'
      BY <1>3 DEF Crash, Connected, Holders
    <2> QED
      BY <2>1, <2>2, <2>3
  <1> QED
    BY <1>1, <1>2, <1>3 DEF ScmStart, ScmRecover

(* Steps of serviceMain() and startApplication().                          *)
LEMMA ServiceKeepsIInv ==
  ASSUME IInv, ServiceStep
  PROVE  IInv'
  <1> USE DEF IInv, TypeOK, MainStates, Places, NotBegun, Starting, Owned, Joined, ShuttingDown,
     Current, Released, Goto, Spawn, SpawnFails, AfterFailure, NoShutdown, parts, shutdown
  <1>1. CASE ConnectDatabase
    <2>1. TypeOK'
      BY <1>1, OrderLength DEF ConnectDatabase, ScmStates, ServiceStates, Handles,
         Objects, Threaded
    <2>2. Places' /\ Owned' /\ Released' /\ Quiet'
      BY <1>1 DEF ConnectDatabase, Quiet
    <2>3. Connected'
      BY <1>1 DEF ConnectDatabase, Connected, Holders
    <2> QED
      BY <2>1, <2>2, <2>3
  <1>2. CASE ConnectFails
    <2>1. TypeOK'
      BY <1>2, OrderLength DEF ConnectFails, ScmStates, ServiceStates, Handles, Objects,
         Threaded
    <2>2. Places' /\ Owned' /\ Released' /\ Quiet'
      BY <1>2 DEF ConnectFails, Quiet
    <2>3. Connected'
      BY <1>2 DEF ConnectFails, Connected, Holders
    <2> QED
      BY <2>1, <2>2, <2>3
  <1>3. CASE StartServer
    <2>1. TypeOK'
      BY <1>3, OrderLength DEF StartServer, ScmStates, ServiceStates, Handles, Objects,
         Threaded
    <2>2. Places' /\ Owned' /\ Released' /\ Quiet'
      BY <1>3 DEF StartServer, Quiet
    <2>3. Connected'
      BY <1>3 DEF StartServer, Connected, Holders
    <2> QED
      BY <2>1, <2>2, <2>3
  <1>4. CASE SkipTunnel
    <2>1. TypeOK'
      BY <1>4, OrderLength DEF SkipTunnel, ScmStates, ServiceStates, Handles, Objects,
         Threaded
    <2>2. Places' /\ Owned' /\ Released' /\ Quiet'
      BY <1>4 DEF SkipTunnel, Quiet
    <2>3. Connected'
      BY <1>4 DEF SkipTunnel, Connected, Holders
    <2> QED
      BY <2>1, <2>2, <2>3
  <1>5. CASE StartTunnel
    <2>1. TypeOK'
      BY <1>5, OrderLength DEF StartTunnel, ScmStates, ServiceStates, Handles, Objects,
         Threaded
    <2>2. Places' /\ Owned' /\ Released' /\ Quiet'
      BY <1>5 DEF StartTunnel, Quiet
    <2>3. Connected'
      BY <1>5 DEF StartTunnel, Connected, Holders
    <2> QED
      BY <2>1, <2>2, <2>3
  <1>6. CASE EnableWatchdog
    <2>1. TypeOK'
      BY <1>6, OrderLength DEF EnableWatchdog, ScmStates, ServiceStates, Handles,
         Objects, Threaded
    <2>2. Places' /\ Owned' /\ Released' /\ Quiet'
      BY <1>6 DEF EnableWatchdog, Quiet
    <2>3. Connected'
      BY <1>6 DEF EnableWatchdog, Connected, Holders
    <2> QED
      BY <2>1, <2>2, <2>3
  <1>7. CASE StartMaintenance
    <2>1. TypeOK'
      BY <1>7, OrderLength DEF StartMaintenance, ScmStates, ServiceStates, Handles,
         Objects, Threaded
    <2>2. Places' /\ Owned' /\ Released' /\ Quiet'
      BY <1>7 DEF StartMaintenance, Quiet
    <2>3. Connected'
      BY <1>7 DEF StartMaintenance, Connected, Holders
    <2> QED
      BY <2>1, <2>2, <2>3
  <1>8. CASE ReportRunning
    <2>1. TypeOK'
      BY <1>8, OrderLength DEF ReportRunning, ScmStates, ServiceStates, Handles,
         Objects, Threaded
    <2>2. Places' /\ Owned' /\ Released' /\ Quiet'
      BY <1>8 DEF ReportRunning, Quiet
    <2>3. Connected'
      BY <1>8 DEF ReportRunning, Connected, Holders
    <2> QED
      BY <2>1, <2>2, <2>3
  <1>9. CASE ReportFailure
    <2>1. TypeOK'
      BY <1>9, OrderLength DEF ReportFailure, ScmStates, ServiceStates, Handles,
         Objects, Threaded
    <2>2. Places' /\ Owned' /\ Released' /\ Quiet'
      BY <1>9 DEF ReportFailure, Quiet
    <2>3. Connected'
      BY <1>9 DEF ReportFailure, Connected, Holders
    <2> QED
      BY <2>1, <2>2, <2>3
  <1>10. CASE ServiceReturns
    <2>1. TypeOK'
      BY <1>10, OrderLength DEF ServiceReturns, ScmStates, ServiceStates, Handles,
         Objects, Threaded
    <2>2. Places' /\ Owned' /\ Released' /\ Quiet'
      BY <1>10 DEF ServiceReturns, Quiet
    <2>3. Connected'
      BY <1>10 DEF ServiceReturns, Connected, Holders
    <2> QED
      BY <2>1, <2>2, <2>3
  <1>11. CASE Register \/ RegisterFails
    <2>1. TypeOK'
      BY <1>11, OrderLength DEF Register, RegisterFails, ScmStates, ServiceStates, Handles,
         Objects, Threaded
    <2>2. Places' /\ Owned' /\ Released' /\ Quiet'
      BY <1>11 DEF Register, RegisterFails, Quiet
    <2>3. Connected'
      BY <1>11 DEF Register, RegisterFails, Connected, Holders
    <2> QED
      BY <2>1, <2>2, <2>3
  <1> QED
    BY <1>1, <1>2, <1>3, <1>4, <1>5, <1>6, <1>7, <1>8, <1>9, <1>10, <1>11 DEF ServiceStep

(* Steps of the control handler and of the exit.                           *)
LEMMA MainKeepsIInv ==
  ASSUME IInv, MainStep
  PROVE  IInv'
  <1> USE DEF IInv, TypeOK, MainStates, Places, NotBegun, Starting, Owned, Joined, ShuttingDown,
     Current, Released, parts, shutdown
  <1>1. CASE ClearFlag
    <2>1. TypeOK'
      BY <1>1, OrderLength DEF ClearFlag, FlagCleared, ScmStates, ServiceStates,
         Handles, Objects, Threaded
    <2>2. Places' /\ Owned' /\ Released' /\ Quiet'
      BY <1>1, TurnOf DEF ClearFlag, FlagCleared, Quiet
    <2>3. Connected'
      BY <1>1, NothingStarts DEF ClearFlag, Connected
    <2> QED
      BY <2>1, <2>2, <2>3
  <1>2. CASE Pass
    <2>1. TypeOK'
      <3>1. /\ child' \in BOOLEAN /\ joining' \in BOOLEAN
            /\ UNCHANGED <<scm, outcome, main, service, serving, starts>>
        BY <1>2 DEF Pass
      <3>2. running' \subseteq Threaded /\ threads' \subseteq Threaded /\ objects' \subseteq Objects
        BY <1>2 DEF Pass, Release
      <3>3. handles' \in Handles
        BY <1>2 DEF Pass, Release, Disconnected, Handles
      <3>4. turn' \in 1..Len(ShutdownOrder) + 1
        BY <1>2, OrderLength DEF Pass, Release, ShuttingDown
      <3> QED
        BY <3>1, <3>2, <3>3, <3>4
    <2>2. Places' /\ Owned' /\ Released' /\ Quiet'
      BY <1>2, TurnOf DEF Pass, Release, HoldsLast, Disconnected, Quiet
    <2>3. Connected'
      <3>1. CASE HoldsLast
        <4>1. objects' \cap Holders = {}
          BY <1>2, <3>1 DEF Pass, Release, HoldsLast
        <4>2. handles = "open" => handles' = "closed"
          BY <1>2, <3>1 DEF Pass, Release, Disconnected
        <4>3. scm = "stop_pending" => handles = "open"
          BY <3>1, NothingStarts DEF Connected, HoldsLast
        <4> QED
          BY <1>2, <4>1, <4>2, <4>3, NothingStarts DEF Pass, Connected, Holders
      <3>2. CASE ~HoldsLast
        <4>1. objects' \subseteq objects /\ handles' = handles
          BY <1>2, <3>2 DEF Pass, Release
        <4>2. objects' \cap Holders = {} <=> objects \cap Holders = {}
          BY <1>2, <3>2 DEF Pass, Release, HoldsLast
        <4> QED
          BY <1>2, <4>1, <4>2, NothingStarts DEF Pass, Connected
      <3> QED
        BY <3>1, <3>2
    <2> QED
      BY <2>1, <2>2, <2>3
  <1>3. CASE Join
    <2>1. TypeOK'
      <3>1. /\ child' \in BOOLEAN /\ joining' \in BOOLEAN
            /\ UNCHANGED <<scm, outcome, main, service, serving, starts>>
        BY <1>3 DEF Join
      <3>2. running' \subseteq Threaded /\ threads' \subseteq Threaded /\ objects' \subseteq Objects
        BY <1>3 DEF Join, Release
      <3>3. handles' \in Handles
        BY <1>3 DEF Join, Release, Disconnected, Handles
      <3>4. turn' \in 1..Len(ShutdownOrder) + 1
        BY <1>3, OrderLength DEF Join, Release, ShuttingDown
      <3> QED
        BY <3>1, <3>2, <3>3, <3>4
    <2>2. Places' /\ Released' /\ Quiet'
      BY <1>3, TurnOf DEF Join, Joinable, Release, HoldsLast, Disconnected, Quiet
    <2>3. Owned'
      BY <1>3, TurnOf DEF Join, Joinable, Release, HoldsLast, Disconnected
    <2>4. Connected'
      <3>1. CASE HoldsLast
        <4>1. objects' \cap Holders = {}
          BY <1>3, <3>1 DEF Join, Release, HoldsLast
        <4>2. handles = "open" => handles' = "closed"
          BY <1>3, <3>1 DEF Join, Release, Disconnected
        <4>3. scm = "stop_pending" => handles = "open"
          BY <3>1, NothingStarts DEF Connected, HoldsLast
        <4> QED
          BY <1>3, <4>1, <4>2, <4>3, NothingStarts DEF Join, Connected, Holders
      <3>2. CASE ~HoldsLast
        <4>1. objects' \subseteq objects /\ handles' = handles
          BY <1>3, <3>2 DEF Join, Release
        <4>2. objects' \cap Holders = {} <=> objects \cap Holders = {}
          BY <1>3, <3>2 DEF Join, Release, HoldsLast
        <4> QED
          BY <1>3, <4>1, <4>2, NothingStarts DEF Join, Connected
      <3> QED
        BY <3>1, <3>2
    <2> QED
      BY <2>1, <2>2, <2>3, <2>4
  <1>4. CASE StopApplicationEnds
    <2>1. TypeOK'
      BY <1>4, OrderLength DEF StopApplicationEnds, ScmStates, ServiceStates, Handles,
         Objects, Threaded
    <2>2. Places' /\ Owned' /\ Released' /\ Quiet'
      <3>1. objects = {}
        BY <1>4, AllReleased DEF StopApplicationEnds
      <3> QED
        BY <1>4, <3>1 DEF StopApplicationEnds, Quiet
    <2>3. Connected'
      BY <1>4, TurnOf DEF StopApplicationEnds, Connected, Holders
    <2> QED
      BY <2>1, <2>2, <2>3
  <1>5. CASE ReportStopped
    <2>1. TypeOK'
      BY <1>5, OrderLength DEF ReportStopped, ScmStates, ServiceStates, Handles,
         Objects, Threaded
    <2>2. Places' /\ Owned' /\ Released' /\ Quiet'
      <3>1. objects = {} /\ ~joining /\ running = {}
        BY <1>5 DEF ReportStopped
      <3>2. ~child /\ handles = "closed"
        BY <1>5, <3>1 DEF ReportStopped, Connected
      <3> QED
        BY <1>5, <3>1, <3>2 DEF ReportStopped, Quiet
    <2>3. Connected'
      BY <1>5, TurnOf DEF ReportStopped, Connected, Holders
    <2> QED
      BY <2>1, <2>2, <2>3
  <1>6. CASE DispatcherReturns
    <2>1. TypeOK'
      <3>1. child' \in BOOLEAN /\ joining' \in BOOLEAN
        BY <1>6 DEF DispatcherReturns
      <3> QED
        BY <1>6, <3>1, OrderLength DEF DispatcherReturns, ScmStates, ServiceStates,
           Handles, Objects, Threaded
    <2>2. Places' /\ Owned' /\ Released' /\ Quiet'
      BY <1>6, TurnOf DEF DispatcherReturns, Quiet
    <2>3. Connected'
      BY <1>6, TurnOf DEF DispatcherReturns, Connected, Holders
    <2> QED
      BY <2>1, <2>2, <2>3
  <1>7. CASE Exit
    <2>1. TypeOK'
      BY <1>7, OrderLength DEF Exit, ScmStates, ServiceStates, Handles, Objects,
         Threaded
    <2>2. Places' /\ Owned' /\ Released' /\ Quiet'
      <3>1. objects = {}
        BY <1>7, AllReleased DEF Exit
      <3> QED
        BY <1>7, <3>1 DEF Exit, Quiet
    <2>3. Connected'
      BY <1>7, TurnOf DEF Exit, Connected, Holders
    <2> QED
      BY <2>1, <2>2, <2>3
  <1> QED
    BY <1>1, <1>2, <1>3, <1>4, <1>5, <1>6, <1>7 DEF MainStep

(* Steps of the components' threads.                                       *)
LEMMA ThreadKeepsIInv ==
  ASSUME IInv, ServerThrows \/ LoopTest \/ Accept \/ Answer
               \/ (\E c \in {"maintenance", "tunnel"} : Notice(c)) \/ ChildDies \/ Relaunch
  PROVE  IInv'
  <1> USE DEF IInv, TypeOK, MainStates, Places, NotBegun, Starting, Owned, Joined, ShuttingDown,
     Current, Released, OnlyThreads, shutdown
  <1>1. CASE ServerThrows \/ LoopTest \/ Accept \/ Answer
    <2>1. TypeOK'
      <3>1. child' \in BOOLEAN /\ joining' \in BOOLEAN
        BY <1>1 DEF ServerThrows, LoopTest, Accept, Answer
      <3>2. threads' \subseteq Threaded /\ serving' \in {"test", "accept", "request"}
        BY <1>1 DEF ServerThrows, LoopTest, Accept, Answer
      <3> QED
        BY <1>1, <3>1, <3>2 DEF ServerThrows, LoopTest, Accept, Answer
    <2>2. Places' /\ Owned' /\ Released' /\ Quiet'
      BY <1>1 DEF ServerThrows, LoopTest, Accept, Answer, Quiet
    <2>3. Connected'
      BY <1>1 DEF ServerThrows, LoopTest, Accept, Answer, Connected, Holders
    <2> QED
      BY <2>1, <2>2, <2>3
  <1>2. CASE \E c \in {"maintenance", "tunnel"} : Notice(c)
    <2>1. TypeOK'
      BY <1>2, OrderLength DEF Notice, ScmStates, ServiceStates, Handles, Objects,
         Threaded
    <2>2. Places' /\ Owned' /\ Released' /\ Quiet'
      BY <1>2 DEF Notice, Quiet
    <2>3. Connected'
      BY <1>2 DEF Notice, Connected, Holders
    <2> QED
      BY <2>1, <2>2, <2>3
  <1>3. CASE ChildDies \/ Relaunch
    <2>1. TypeOK'
      <3>1. child' \in BOOLEAN /\ joining' \in BOOLEAN
        BY <1>3 DEF ChildDies, Relaunch
      <3>2. threads' \subseteq Threaded /\ serving' \in {"test", "accept", "request"}
        BY <1>3 DEF ChildDies, Relaunch
      <3> QED
        BY <1>3, <3>1, <3>2 DEF ChildDies, Relaunch
    <2>2. Places' /\ Owned' /\ Released' /\ Quiet'
      BY <1>3 DEF ChildDies, Relaunch, Quiet
    <2>3. Connected'
      BY <1>3 DEF ChildDies, Relaunch, Connected, Holders
    <2> QED
      BY <2>1, <2>2, <2>3
  <1> QED
    BY <1>1, <1>2, <1>3

LEMMA StepIInv ==
  ASSUME IInv, [Next]_vars
  PROVE  IInv'
  <1>1. CASE UNCHANGED vars
    BY <1>1 DEF vars, IInv, TypeOK, Places, Owned, Joined, ShuttingDown, Current, Released,
                Connected, Quiet
  <1>2. CASE Next
    BY <1>2, ScmKeepsIInv, ServiceKeepsIInv, MainKeepsIInv, ThreadKeepsIInv DEF Next
  <1> QED
    BY <1>1, <1>2

LEMMA Inductive == Spec => []IInv
  BY InitIInv, StepIInv, PTL DEF Spec

-----------------------------------------------------------------------------
(* The globals, threads and handles of the agent (src/src/main.cpp,        *)
(* DatabaseManager.cpp) stay in their types; so do the states it reports.  *)
THEOREM TypeCorrect == Spec => []TypeOK
  <1>1. IInv => TypeOK
    BY DEF IInv
  <1> QED
    BY <1>1, Inductive, PTL

(* The server thread and the maintenance worker never run without an open  *)
(* connection: stopApplication() and the destruction of the globals join   *)
(* them before the last shared_ptr to the DatabaseManager goes.            *)
THEOREM DatabaseOutlivesThreadsHolds == Spec => []DatabaseOutlivesThreads
  <1>1. IInv => DatabaseOutlivesThreads
    BY DEF IInv, Owned, Connected, DatabaseOutlivesThreads
  <1> QED
    BY <1>1, Inductive, PTL

(* What serviceCtrlHandler() reports as stopped is stopped: no thread, no  *)
(* cloudflared, no connection that is open or was closed twice.            *)
THEOREM QuietWhenStoppedHolds == Spec => []QuietWhenStopped
  <1>1. IInv => QuietWhenStopped
    BY DEF IInv, Owned, Quiet, QuietWhenStopped
  <1> QED
    BY <1>1, Inductive, PTL

(* serviceMain() reports SERVICE_RUNNING only of a service whose parts are *)
(* all there, and none of them goes before the next report.                *)
THEOREM RunningIsWholeHolds == Spec => []RunningIsWhole
  <1>1. IInv => RunningIsWhole
    BY DEF IInv, Connected, RunningIsWhole
  <1> QED
    BY <1>1, Inductive, PTL

-----------------------------------------------------------------------------
(* The promise of StoppableThread.                                         *)

\* What startApplication() has not come to is not there yet, and the server
\* thread does nothing before it exists.
Ahead ==
    /\ service \in {"register", "database", "server"} => "server" \notin objects
    /\ service \in {"register", "database", "server", "tunnel"} => "tunnel" \notin objects
    /\ service \in {"register", "database", "server", "tunnel", "watchdog"} => "tunnel" \notin threads
    /\ service \in {"register", "database", "server", "tunnel", "watchdog", "maintenance"}
         => "maintenance" \notin objects
    /\ "server" \notin threads => serving = "test"

LEMMA AheadStep ==
  ASSUME IInv, Ahead, [Next]_vars
  PROVE  Ahead'
  <1> USE DEF Ahead
  <1>1. CASE UNCHANGED vars
    BY <1>1 DEF vars
  <1>2. CASE ScmStart \/ ScmRecover
    <2>1. Begin /\ objects = {} /\ threads = {}
      BY <1>2 DEF ScmStart, ScmRecover, Begin, IInv, Released, Owned
    <2> QED
      BY <2>1 DEF Begin
  <1>3. CASE ScmStop
    BY <1>3 DEF ScmStop, parts
  <1>4. CASE ServiceStep
    <2> USE <1>4 DEF Goto, Spawn, SpawnFails, AfterFailure, parts
    <2>1. CASE ConnectDatabase \/ ConnectFails
      BY <2>1 DEF ConnectDatabase, ConnectFails, IInv, Owned
    <2>2. CASE StartServer
      BY <2>2 DEF StartServer
    <2>3. CASE SkipTunnel \/ StartTunnel
      BY <2>3 DEF SkipTunnel, StartTunnel, IInv, Owned
    <2>4. CASE EnableWatchdog
      BY <2>4 DEF EnableWatchdog
    <2>5. CASE StartMaintenance
      BY <2>5 DEF StartMaintenance
    <2>6. CASE Register \/ RegisterFails \/ ReportRunning \/ ReportFailure \/ ServiceReturns
      BY <2>6 DEF Register, RegisterFails, ReportRunning, ReportFailure, ServiceReturns
    <2> QED
      BY <2>1, <2>2, <2>3, <2>4, <2>5, <2>6 DEF ServiceStep
  <1>5. CASE MainStep
    <2>1. /\ objects' \subseteq objects /\ UNCHANGED <<threads, serving>>
          /\ service' \in {service, "none"}
      BY <1>5 DEF MainStep, ClearFlag, Pass, Join, Release, StopApplicationEnds, ReportStopped,
                  DispatcherReturns, Exit, parts
    <2> QED
      BY <2>1
  <1>6. CASE ServerThrows \/ LoopTest \/ Accept \/ Answer
    BY <1>6 DEF ServerThrows, LoopTest, Accept, Answer, OnlyThreads
  <1>7. CASE (\E c \in {"maintenance", "tunnel"} : Notice(c)) \/ ChildDies \/ Relaunch
    BY <1>7 DEF Notice, ChildDies, Relaunch, OnlyThreads
  <1>8. CASE Crash
    BY <1>8 DEF Crash
  <1> QED
    BY <1>1, <1>2, <1>3, <1>4, <1>5, <1>6, <1>7, <1>8 DEF Next

LEMMA AheadHolds == Spec => []Ahead
  <1>1. Init => Ahead
    BY DEF Init, Ahead
  <1> QED
    BY <1>1, AheadStep, Inductive, PTL DEF Spec

\* The call of stop() that main is in.
Stopping(c) == main \in {"stopping", "exiting"} /\ joining /\ Current = c

(* A step that does not touch a component.                                 *)
LEMMA Untouched ==
  ASSUME NEW c \in Threaded,
         HasFlag(c)' <=> HasFlag(c), Stopping(c)' <=> Stopping(c),
         UNCHANGED serving,
         c \in threads' <=> c \in threads,
         c = "server" => (c \in running' <=> c \in running)
  PROVE  UNCHANGED Part(c)!vars
  <1>1. HasFlag(c)' = HasFlag(c)
    BY DEF HasFlag
  <1>2. (c \in threads)' = (c \in threads)
    OBVIOUS
  <1>3. (c = "server" /\ c \in threads /\ serving = "request")'
          = (c = "server" /\ c \in threads /\ serving = "request")
    OBVIOUS
  <1>4. (c = "server" /\ c \in threads \ running /\ serving = "accept")'
          = (c = "server" /\ c \in threads \ running /\ serving = "accept")
    OBVIOUS
  <1>5. (main \in {"stopping", "exiting"} /\ joining /\ Current = c)'
          = (main \in {"stopping", "exiting"} /\ joining /\ Current = c)
    BY DEF Stopping
  <1> QED
    BY <1>1, <1>2, <1>3, <1>4, <1>5 DEF Part!vars

\* Only the server thread has turns.
LEMMA OtherUntouched ==
  ASSUME NEW c \in Threaded, c # "server",
         HasFlag(c)' <=> HasFlag(c), Stopping(c)' <=> Stopping(c),
         c \in threads' <=> c \in threads
  PROVE  UNCHANGED Part(c)!vars
  <1>1. HasFlag(c)' = HasFlag(c)
    BY DEF HasFlag
  <1>2. (c \in threads)' = (c \in threads)
    OBVIOUS
  <1>3. (main \in {"stopping", "exiting"} /\ joining /\ Current = c)'
          = (main \in {"stopping", "exiting"} /\ joining /\ Current = c)
    BY DEF Stopping
  <1> QED
    BY <1>1, <1>2, <1>3 DEF Part!vars

(* A step that starts a component, while nothing is stopped.               *)
LEMMA StartsPart ==
  ASSUME IInv, NEW c \in Threaded, service \in Starting,
         ~HasFlag(c), c \notin threads, HasFlag(c)',
         c = "server" => serving = "test", UNCHANGED serving,
         c \in running', Stopping(c)' <=> Stopping(c)
  PROVE  Part(c)!Start
  <1>1. ~Stopping(c) /\ ~Stopping(c)'
    BY DEF IInv, Places, Owned, ShuttingDown, Stopping
  <1>2. (c \in threads)' \in BOOLEAN
    OBVIOUS
  <1> QED
    BY <1>1, <1>2 DEF Part!Start, Stopping

LEMMA PartScmStep ==
  ASSUME IInv, NEW c \in Threaded, ScmStart \/ ScmRecover \/ ScmStop \/ Crash
  PROVE  [Part(c)!Next]_(Part(c)!vars)
  <1>1. CASE ScmStart \/ ScmRecover
    <2>1. objects = {} /\ running = {} /\ threads = {} /\ ~joining
      BY <1>1 DEF ScmStart, ScmRecover, Begin, IInv, Released, Owned, ShuttingDown
    <2>2. UNCHANGED <<running, threads, serving, joining>>
      BY <1>1 DEF ScmStart, ScmRecover, Begin, shutdown
    <2> QED
      BY <2>1, <2>2, Untouched DEF HasFlag, Stopping
  <1>2. CASE ScmStop
    <2>1. main = "dispatch" /\ ~joining' /\ UNCHANGED <<running, threads, serving, service>>
      BY <1>2 DEF ScmStop, AcceptsStop, parts
    <2> QED
      BY <2>1, Untouched DEF HasFlag, Stopping
  <1>3. CASE Crash
    <2>1. Part(c)!Lost
      BY <1>3 DEF Crash, Part!Lost, HasFlag
    <2> QED
      BY <2>1 DEF Part!Next
  <1> QED
    BY <1>1, <1>2, <1>3

LEMMA PartServiceStep ==
  ASSUME IInv, Ahead, NEW c \in Threaded, ServiceStep
  PROVE  [Part(c)!Next]_(Part(c)!vars)
  <1>1. Stopping(c)' <=> Stopping(c)
    BY DEF ServiceStep, Register, RegisterFails, ConnectDatabase, ConnectFails,
       StartServer, SkipTunnel, StartTunnel, EnableWatchdog, StartMaintenance,
       ReportRunning, ReportFailure, ServiceReturns, NoShutdown, shutdown, Stopping,
       Current
  <1>2. CASE \/ ConnectDatabase \/ ConnectFails \/ SkipTunnel
             \/ Register \/ RegisterFails \/ ReportRunning \/ ReportFailure \/ ServiceReturns
    <2>1. UNCHANGED <<running, threads, serving>> /\ service # "watchdog" /\ service' # "watchdog"
      BY <1>2 DEF ConnectDatabase, ConnectFails, SkipTunnel, Register, RegisterFails,
         ReportRunning, ReportFailure, ServiceReturns, Goto, AfterFailure, parts
    <2> QED
      BY <1>1, <2>1, Untouched DEF HasFlag
  <1>3. CASE StartTunnel
    <2>1. /\ UNCHANGED <<threads, serving>> /\ service = "tunnel" /\ service' = "watchdog"
          /\ running' = running \cup {"tunnel"}
      BY <1>3 DEF StartTunnel, Goto
    <2>2. CASE c # "tunnel"
      BY <1>1, <2>1, <2>2, Untouched DEF HasFlag
    <2>3. CASE c = "tunnel"
      <3>1. ~HasFlag(c) /\ ~HasFlag(c)'
        BY <2>1, <2>3 DEF HasFlag, Ahead, IInv, Owned
      <3> QED
        BY <1>1, <2>1, <2>3, <3>1, Untouched
    <2> QED
      BY <2>2, <2>3
  <1>4. CASE StartServer
    <2>1. /\ UNCHANGED serving /\ service = "server" /\ service' # "watchdog"
          /\ running' = running \cup {"server"}
          /\ threads' \in {threads, threads \cup {"server"}}
      BY <1>4 DEF StartServer, Spawn, SpawnFails, AfterFailure
    <2>2. CASE c # "server"
      BY <1>1, <2>1, <2>2, Untouched DEF HasFlag
    <2>3. CASE c = "server"
      <3>1. c \notin running /\ c \notin threads /\ serving = "test"
        BY <2>1, <2>3 DEF Ahead, IInv, Owned
      <3> QED
        BY <1>1, <2>1, <2>3, <3>1, StartsPart DEF HasFlag, NotBegun, Starting, Part!Next
    <2> QED
      BY <2>2, <2>3
  <1>5. CASE EnableWatchdog
    <2>1. /\ UNCHANGED serving /\ service = "watchdog" /\ service' # "watchdog"
          /\ running' = running \cup {"tunnel"}
          /\ threads' \in {threads, threads \cup {"tunnel"}}
      BY <1>5 DEF EnableWatchdog, Spawn, SpawnFails, AfterFailure
    <2>2. CASE c # "tunnel"
      BY <1>1, <2>1, <2>2, Untouched DEF HasFlag
    <2>3. CASE c = "tunnel"
      <3>1. ~HasFlag(c) /\ c \notin threads
        BY <2>1, <2>3 DEF HasFlag, Ahead
      <3> QED
        BY <1>1, <2>1, <2>3, <3>1, StartsPart DEF HasFlag, NotBegun, Starting, Part!Next
    <2> QED
      BY <2>2, <2>3
  <1>6. CASE StartMaintenance
    <2>1. /\ UNCHANGED serving /\ service = "maintenance" /\ service' # "watchdog"
          /\ running' = running \cup {"maintenance"}
          /\ threads' \in {threads, threads \cup {"maintenance"}}
      BY <1>6 DEF StartMaintenance, Spawn, SpawnFails, AfterFailure
    <2>2. CASE c # "maintenance"
      BY <1>1, <2>1, <2>2, Untouched DEF HasFlag
    <2>3. CASE c = "maintenance"
      <3>1. c \notin running /\ c \notin threads
        BY <2>1, <2>3 DEF Ahead, IInv, Owned
      <3> QED
        BY <1>1, <2>1, <2>3, <3>1, StartsPart DEF HasFlag, NotBegun, Starting, Part!Next
    <2> QED
      BY <2>2, <2>3
  <1> QED
    BY <1>2, <1>3, <1>4, <1>5, <1>6 DEF ServiceStep

LEMMA PartMainStep ==
  ASSUME IInv, Ahead, NEW c \in Threaded, MainStep
  PROVE  [Part(c)!Next]_(Part(c)!vars)
  <1>1. CASE ClearFlag
    <2>1. /\ UNCHANGED <<main, service, threads, serving, turn>>
          /\ running' = running \ {Current} /\ Current \in running
          /\ ShuttingDown /\ ~joining /\ joining'
      BY <1>1 DEF ClearFlag, FlagCleared
    <2>2. UNCHANGED Current
      BY <2>1 DEF Current
    <2>3. CASE c # Current
      BY <2>1, <2>2, <2>3, Untouched DEF HasFlag, Stopping
    <2>4. CASE c = Current
      <3>1. service \notin Starting
        BY <2>1, NothingStarts
      <3>2. HasFlag(c) /\ ~HasFlag(c)'
        BY <2>1, <2>4, <3>1 DEF HasFlag, NotBegun, Starting
      <3>3. ~Stopping(c) /\ Stopping(c)'
        BY <2>1, <2>2, <2>4 DEF ShuttingDown, Stopping
      <3>4. (c = "server" /\ c \in threads \ running /\ serving = "accept")' \in BOOLEAN
        OBVIOUS
      <3>5. Part(c)!Clear
        BY <2>1, <3>2, <3>3, <3>4 DEF Part!Clear, Stopping
      <3> QED
        BY <3>5 DEF Part!Next
    <2> QED
      BY <2>3, <2>4
  <1>2. CASE Pass
    <2>1. /\ UNCHANGED <<main, service, running, threads, serving, joining>> /\ ~joining
      BY <1>2 DEF Pass
    <2> QED
      BY <2>1, Untouched DEF HasFlag, Stopping
  <1>3. CASE Join
    <2>1. /\ UNCHANGED <<main, service, running, threads, serving>>
          /\ ShuttingDown /\ joining /\ ~joining' /\ Current \notin threads
      BY <1>3 DEF Join, Joinable
    <2>2. CASE c # Current
      BY <2>1, <2>2, Untouched DEF HasFlag, Stopping
    <2>3. CASE c = Current
      <3>1. Stopping(c) /\ ~Stopping(c)'
        BY <2>1, <2>3 DEF ShuttingDown, Stopping
      <3>2. Part(c)!Return
        BY <2>1, <2>3, <3>1 DEF Part!Return, HasFlag, Stopping
      <3> QED
        BY <3>2 DEF Part!Next
    <2> QED
      BY <2>2, <2>3
  <1>4. CASE StopApplicationEnds \/ ReportStopped \/ DispatcherReturns
    <2>1. UNCHANGED <<service, running, threads, serving>> /\ ~ShuttingDown
          /\ (joining' => joining)
      BY <1>4, OrderLength, TurnOf DEF StopApplicationEnds, ReportStopped, DispatcherReturns,
                  parts, shutdown, ShuttingDown, IInv
    <2>2. ~joining /\ ~joining'
      BY <2>1 DEF IInv, Owned
    <2> QED
      BY <2>1, <2>2, Untouched DEF HasFlag, Stopping
  <1>5. CASE Exit
    <2>1. UNCHANGED <<running, threads, serving, joining>> /\ service' = "none" /\ ~ShuttingDown
      BY <1>5, OrderLength, TurnOf DEF Exit, parts, shutdown, ShuttingDown, IInv
    <2>2. objects = {}
      BY <1>5, AllReleased DEF Exit
    <2>3. running = {} /\ ~joining
      BY <2>1, <2>2 DEF IInv, Owned
    <2> QED
      BY <2>1, <2>3, Untouched DEF HasFlag, Stopping
  <1> QED
    BY <1>1, <1>2, <1>3, <1>4, <1>5 DEF MainStep

LEMMA PartThreadStep ==
  ASSUME IInv, NEW c \in Threaded,
         ServerThrows \/ LoopTest \/ Accept \/ Answer
         \/ (\E d \in {"maintenance", "tunnel"} : Notice(d)) \/ ChildDies \/ Relaunch
  PROVE  [Part(c)!Next]_(Part(c)!vars)
  <1>1. UNCHANGED <<main, service, running, turn, joining>>
    BY DEF ServerThrows, LoopTest, Accept, Answer, Notice, ChildDies, Relaunch, OnlyThreads,
           shutdown
  <1>2. (HasFlag(c)' <=> HasFlag(c)) /\ (Stopping(c)' <=> Stopping(c))
    BY <1>1 DEF HasFlag, Stopping, Current
  <1>3. CASE ServerThrows \/ LoopTest \/ Accept \/ Answer
    <2>1. CASE c # "server"
      <3>1. c \in threads' <=> c \in threads
        BY <1>3, <2>1 DEF ServerThrows, LoopTest, Accept, Answer
      <3> QED
        BY <1>1, <1>2, <2>1, <3>1, OtherUntouched
    <2>2. CASE c = "server"
      <3>1. CASE ServerThrows
        <4>1. Part(c)!Leave
          BY <1>1, <1>2, <2>2, <3>1 DEF ServerThrows, Part!Leave, HasFlag, Stopping
        <4> QED
          BY <4>1 DEF Part!Next
      <3>2. CASE LoopTest /\ "server" \notin running
        <4>1. Part(c)!Leave
          BY <1>1, <1>2, <2>2, <3>2 DEF LoopTest, Part!Leave, HasFlag, Stopping
        <4> QED
          BY <4>1 DEF Part!Next
      <3>3. CASE LoopTest /\ "server" \in running
        <4>1. UNCHANGED Part(c)!vars
          BY <1>1, <1>2, <2>2, <3>3 DEF LoopTest, Part!vars, HasFlag, Stopping
        <4> QED
          BY <4>1
      <3>4. CASE Accept
        <4>1. Part(c)!Begin
          BY <1>1, <1>2, <2>2, <3>4 DEF Accept, Part!Begin, HasFlag, Stopping
        <4> QED
          BY <4>1 DEF Part!Next
      <3>5. CASE Answer
        <4>1. Part(c)!End
          BY <1>1, <1>2, <2>2, <3>5 DEF Answer, Part!End, HasFlag, Stopping
        <4> QED
          BY <4>1 DEF Part!Next
      <3> QED
        BY <1>3, <3>1, <3>2, <3>3, <3>4, <3>5
    <2> QED
      BY <2>1, <2>2
  <1>4. CASE \E d \in {"maintenance", "tunnel"} : Notice(d)
    <2> PICK d \in {"maintenance", "tunnel"} : Notice(d)
      BY <1>4
    <2>1. CASE c # d
      BY <1>1, <1>2, <2>1, Untouched DEF Notice
    <2>2. CASE c = d
      <3>1. Part(c)!Leave
        BY <1>2, <2>2 DEF Notice, Part!Leave, HasFlag, Stopping
      <3> QED
        BY <3>1 DEF Part!Next
    <2> QED
      BY <2>1, <2>2
  <1>5. CASE ChildDies \/ Relaunch
    BY <1>1, <1>2, <1>5, Untouched DEF ChildDies, Relaunch
  <1> QED
    BY <1>3, <1>4, <1>5

(* What main.cpp relies on of the server, the tunnel and the worker, from  *)
(* their start to the return of their stop(), is what StoppableThread      *)
(* promises: every step of the agent is a step of it for each of the three.*)
THEOREM AgentIsMadeOfStoppableThreads == Spec => ImplementsStoppableThread
  <1>1. Init => \A c \in Threaded : Part(c)!Init
    BY DEF Init, Part!Init, HasFlag
  <1>2. ASSUME IInv, Ahead, [Next]_vars
        PROVE  \A c \in Threaded : [Part(c)!Next]_(Part(c)!vars)
    <2>1. TAKE c \in Threaded
    <2>2. CASE UNCHANGED vars
      BY <2>2, Untouched DEF vars, HasFlag, Stopping, Current
    <2>3. CASE Next
      BY <1>2, <2>3, PartScmStep, PartServiceStep, PartMainStep, PartThreadStep DEF Next
    <2> QED
      BY <1>2, <2>2, <2>3
  <1> QED
    BY <1>1, <1>2, Inductive, AheadHolds, PTL DEF Spec, ImplementsStoppableThread

-----------------------------------------------------------------------------
(* What the steps lead to, for the answers and ends that Installation       *)
(* promises.                                                               *)

\* The shutdown, where it is not through: at the component number k it looks at
\* the flag, waits for the thread that it joins, or goes on without it.
AtTurn(k) == main \in {"stopping", "exiting"} /\ turn = k
Looking(k) == AtTurn(k) /\ ~joining
Waiting(k) == AtTurn(k) /\ joining /\ Current \in threads
Alone(k) == AtTurn(k) /\ joining /\ Current \notin threads

Gone == main = "none"
Reporting == main = "report"

(* While it lasts nothing starts, so that threads only end; and only the   *)
(* main thread, or a crash, changes how far it is.                         *)
LEMMA OthersInShutdown ==
  ASSUME IInv, [Next]_vars, main \in {"stopping", "exiting"}
  PROVE  \/ MainStep
         \/ main' = "none"
         \/ UNCHANGED <<main, turn, joining, running>> /\ threads' \subseteq threads
  <1>1. scm \notin {"start_pending", "running"} /\ service \notin Starting
    BY DEF IInv, Places
  <1>2. CASE UNCHANGED vars
    BY <1>2 DEF vars
  <1>3. CASE ScmStart \/ ScmRecover \/ ScmStop
    BY <1>3 DEF ScmStart, ScmRecover, Begin, ScmStop, AcceptsStop
  <1>4. CASE ServiceStep
    BY <1>1, <1>4 DEF ServiceStep, Register, RegisterFails, ConnectDatabase, ConnectFails,
       StartServer, SkipTunnel, StartTunnel, EnableWatchdog, StartMaintenance,
       ReportRunning, ReportFailure, ServiceReturns, Goto, NotBegun, Starting, parts,
       shutdown
  <1>5. CASE ServerThrows \/ LoopTest \/ Accept \/ Answer \/ ChildDies \/ Relaunch
    BY <1>5 DEF ServerThrows, LoopTest, Accept, Answer, ChildDies, Relaunch, OnlyThreads, shutdown
  <1>6. CASE \E c \in {"maintenance", "tunnel"} : Notice(c)
    BY <1>6 DEF Notice, OnlyThreads, shutdown
  <1>7. CASE Crash
    BY <1>7 DEF Crash
  <1> QED
    BY <1>2, <1>3, <1>4, <1>5, <1>6, <1>7 DEF Next

(* The main thread takes the components one after the other.               *)
LEMMA MainInShutdown ==
  ASSUME IInv, MainStep, NEW k \in 1..4, AtTurn(k)
  PROVE  /\ Looking(k) => (Waiting(k) \/ Alone(k) \/ Looking(k + 1))'
         /\ ~Waiting(k)
         /\ Alone(k) => Looking(k + 1)'
  <1>1. ClearFlag \/ Pass \/ Join
    BY OrderLength DEF MainStep, AtTurn, StopApplicationEnds, ReportStopped,
       DispatcherReturns, Exit
  <1>2. CASE ClearFlag
    BY <1>2 DEF ClearFlag, AtTurn, Looking, Waiting, Alone, Current
  <1>3. CASE Pass
    BY <1>3 DEF Pass, Release, AtTurn, Looking, Waiting, Alone
  <1>4. CASE Join
    BY <1>4 DEF Join, Joinable, Release, AtTurn, Looking, Waiting, Alone
  <1> QED
    BY <1>1, <1>2, <1>3, <1>4

LEMMA ShutdownStep ==
  ASSUME IInv, [Next]_vars, NEW k \in 1..4
  PROVE  /\ Looking(k) => (Looking(k) \/ Waiting(k) \/ Alone(k) \/ Looking(k + 1) \/ Gone)'
         /\ Waiting(k) => (Waiting(k) \/ Alone(k) \/ Gone)'
         /\ Alone(k) => (Alone(k) \/ Looking(k + 1) \/ Gone)'
  <1>1. CASE AtTurn(k) /\ MainStep
    BY <1>1, MainInShutdown DEF Looking, Waiting, Alone
  <1>2. CASE AtTurn(k) /\ main' # "none" /\ ~MainStep
    <2>1. UNCHANGED <<main, turn, joining, running>> /\ threads' \subseteq threads
      BY <1>2, OthersInShutdown DEF AtTurn
    <2>2. Current' = Current
      BY <2>1 DEF Current
    <2> QED
      BY <1>2, <2>1, <2>2 DEF AtTurn, Looking, Waiting, Alone
  <1> QED
    BY <1>1, <1>2 DEF Looking, Waiting, Alone, Gone

(* When the last is passed, the handler reports or the process ends.       *)
LEMMA ShutdownThrough ==
  ASSUME IInv, [Next]_vars, Looking(5)
  PROVE  (Looking(5) \/ Reporting \/ Gone)' /\ (MainStep => ~Looking(5)')
  <1>1. CASE MainStep
    BY <1>1, OrderLength DEF MainStep, ClearFlag, Pass, Join, ShuttingDown,
       StopApplicationEnds, ReportStopped, DispatcherReturns, Exit, AtTurn, Looking,
       Reporting, Gone
  <1>2. CASE ~MainStep
    BY <1>2, OthersInShutdown DEF AtTurn, Looking, Gone
  <1> QED
    BY <1>1, <1>2

\* The server thread, while main waits for it: its flag is cleared.
ServerWaits == Waiting(3) /\ serving = "accept"
ServerWorks == Waiting(3) /\ serving = "request"
ServerLooks == Waiting(3) /\ serving = "test"

(* A thread that is joined has its flag cleared.                           *)
LEMMA WaitingFor ==
  ASSUME IInv
  PROVE  /\ Waiting(1) => "maintenance" \in threads \ running /\ Current = "maintenance"
         /\ Waiting(2) => "tunnel" \in threads \ running /\ Current = "tunnel"
         /\ Waiting(3) => "server" \in threads \ running /\ Current = "server"
         /\ ~Waiting(4)
  BY TurnOf DEF IInv, TypeOK, Threaded, Owned, AtTurn, Waiting

LEMMA ServerStep ==
  ASSUME IInv, [Next]_vars
  PROVE  /\ ServerWaits => (ServerWaits \/ ServerWorks \/ Alone(3) \/ Gone)'
         /\ ServerWorks => (ServerWorks \/ ServerLooks \/ Alone(3) \/ Gone)'
         /\ ServerLooks => (ServerLooks \/ Alone(3) \/ Gone)'
  <1> SUFFICES ASSUME Waiting(3), ~(Alone(3) \/ Gone)'
               PROVE  /\ Waiting(3)'
                      /\ serving = "accept" => serving' \in {"accept", "request"}
                      /\ serving = "request" => serving' \in {"request", "test"}
                      /\ serving = "test" => serving' = "test"
    BY ShutdownStep DEF ServerWaits, ServerWorks, ServerLooks
  <1>1. Waiting(3)' /\ "server" \notin running /\ scm # "start_pending" /\ service \notin Starting
    BY ShutdownStep, WaitingFor DEF Waiting, AtTurn, IInv, Places
  <1>2. CASE MainStep
    BY <1>2, MainInShutdown DEF Waiting
  <1>3. CASE ServerThrows \/ LoopTest \/ Accept \/ Answer
    <2>1. "server" \in threads'
      <3>1. turn = 3 /\ turn' = 3
        BY <1>1 DEF Waiting, AtTurn
      <3> QED
        BY <1>1, <3>1 DEF Waiting, Current, ShutdownOrder
    <2> QED
      BY <1>1, <1>3, <2>1 DEF ServerThrows, LoopTest, Accept, Answer
  <1>4. CASE ServiceStep
    BY <1>1, <1>4 DEF ServiceStep, Register, RegisterFails, ConnectDatabase, ConnectFails,
       StartServer, SkipTunnel, StartTunnel, EnableWatchdog, StartMaintenance,
       ReportRunning, ReportFailure, ServiceReturns, Goto, NotBegun, Starting, parts
  <1>5. CASE ~(MainStep \/ ServerThrows \/ LoopTest \/ Accept \/ Answer \/ ServiceStep)
    <2>1. UNCHANGED serving
      BY <1>1, <1>5 DEF Next, ScmStart, ScmRecover, Begin, ScmStop, parts, Notice,
         ChildDies, Relaunch, Crash, Gone, vars
    <2> QED
      BY <1>1, <2>1
  <1> QED
    BY <1>1, <1>2, <1>3, <1>4, <1>5

(* What each of those does for whom main waits.                            *)
LEMMA WaitEnds ==
  ASSUME IInv
  PROVE  /\ Notice("maintenance") => ~Waiting(1)'
         /\ Notice("tunnel") => ~Waiting(2)'
         /\ Accept => ~ServerWaits'
         /\ ServerWorks /\ (LoopTest \/ Answer) => ~ServerWorks'
         /\ ServerLooks /\ (LoopTest \/ Answer) => ~ServerLooks'
  <1>1. /\ AtTurn(1)' => Current' = "maintenance"
        /\ AtTurn(2)' => Current' = "tunnel"
        /\ AtTurn(3)' => Current' = "server"
    BY DEF AtTurn, Current, ShutdownOrder
  <1> QED
    BY <1>1, WaitingFor DEF Waiting, Notice, ServerWaits, ServerWorks, ServerLooks, Accept,
       LoopTest, Answer

\* Where serviceMain() goes on to from the places of the start.
Onwards == [register |-> {"database", "unheard"},
            unheard |-> {},
            database |-> {"server", "throw"},
            server |-> {"tunnel", "throw"},
            tunnel |-> {"watchdog", "maintenance"},
            watchdog |-> {"maintenance", "throw"},
            maintenance |-> {"report", "throw"},
            report |-> {"loop"},
            throw |-> {"none"}]

(* The start goes on, and ends where the process does.                     *)
LEMMA StartStep ==
  ASSUME IInv, [Next]_vars, service \in Starting
  PROVE  /\ service' \in {service, "none"} \cup Onwards[service]
         /\ ServiceStep => service' # service
  <1>1. main = "dispatch" /\ scm = "start_pending"
    BY DEF IInv, Places
  <1>2. CASE UNCHANGED vars \/ Crash
    BY <1>1, <1>2 DEF vars, Crash, ServiceStep, Register, RegisterFails, ConnectDatabase,
       ConnectFails, StartServer, SkipTunnel, StartTunnel, EnableWatchdog,
       StartMaintenance, ReportRunning, ReportFailure, ServiceReturns, Goto, SpawnFails,
       AfterFailure, NotBegun, Starting
  <1>3. CASE ServiceStep
    BY <1>3 DEF ServiceStep, Register, RegisterFails, ConnectDatabase, ConnectFails,
       StartServer, SkipTunnel, StartTunnel, EnableWatchdog, StartMaintenance,
       ReportRunning, ReportFailure, ServiceReturns, Goto, SpawnFails, AfterFailure,
       NotBegun, Starting, Onwards
  <1>4. CASE MainStep
    BY <1>1, <1>4 DEF MainStep, ClearFlag, Pass, Join, ShuttingDown, StopApplicationEnds,
       ReportStopped, DispatcherReturns, Exit
  <1>5. CASE ~(UNCHANGED vars \/ Crash \/ ServiceStep \/ MainStep)
    BY <1>1, <1>5 DEF Next, ScmStart, ScmRecover, Begin, ScmStop, AcceptsStop,
       ServerThrows, LoopTest, Accept, Answer, Notice, ChildDies, Relaunch, OnlyThreads
  <1> QED
    BY <1>2, <1>3, <1>4, <1>5

Done == main = "dispatch" /\ scm = "stopped"

(* What has been reported to the SCM only changes for the better.          *)
LEMMA ReportStep ==
  ASSUME IInv, [Next]_vars
  PROVE  /\ scm = "start_pending" => scm' \in {"start_pending", "running", "stopped"}
         /\ scm = "stop_pending" => scm' \in {"stop_pending", "stopped"}
         /\ scm = "stopped" /\ main # "none" => scm' = "stopped"
         /\ Reporting => (Reporting \/ Done \/ Gone)'
         /\ Done => (Done \/ Looking(1) \/ Gone)'
  <1> USE DEF Reporting, Done, Gone
  <1>1. CASE UNCHANGED vars
    BY <1>1 DEF vars
  <1>2. CASE ScmStart \/ ScmRecover
    BY <1>2 DEF ScmStart, ScmRecover, Begin
  <1>3. CASE ScmStop
    BY <1>3 DEF ScmStop, AcceptsStop
  <1>4. CASE ServiceStep
    <2>1. main' = main /\ (scm' = scm \/ (service \in Starting /\ scm' \in {"running", "stopped"}))
      BY <1>4 DEF ServiceStep, Register, RegisterFails, ConnectDatabase, ConnectFails,
         StartServer, SkipTunnel, StartTunnel, EnableWatchdog, StartMaintenance,
         ReportRunning, ReportFailure, ServiceReturns, Goto, NoShutdown, NotBegun, Starting
    <2> QED
      BY <2>1 DEF IInv, Places
  <1>5. CASE MainStep
    BY <1>5 DEF MainStep, ClearFlag, Pass, Join, ShuttingDown, StopApplicationEnds, ReportStopped,
       DispatcherReturns, Exit, IInv, Places, Looking, AtTurn
  <1>6. CASE ServerThrows \/ LoopTest \/ Accept \/ Answer \/ ChildDies \/ Relaunch
    BY <1>6 DEF ServerThrows, LoopTest, Accept, Answer, ChildDies, Relaunch, OnlyThreads
  <1>7. CASE \E c \in {"maintenance", "tunnel"} : Notice(c)
    BY <1>7 DEF Notice, OnlyThreads
  <1>8. CASE Crash
    BY <1>8 DEF Crash
  <1> QED
    BY <1>1, <1>2, <1>3, <1>4, <1>5, <1>6, <1>7, <1>8 DEF Next

(* The main thread reports, and leaves the dispatcher.                     *)
LEMMA MainAtEnd ==
  ASSUME IInv, MainStep
  PROVE  (Reporting => ~Reporting') /\ (Done => ~Done')
  BY DEF MainStep, ClearFlag, Pass, Join, ShuttingDown, StopApplicationEnds, ReportStopped,
     DispatcherReturns, Exit, Reporting, Done
=============================================================================
