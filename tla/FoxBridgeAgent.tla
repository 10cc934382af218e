--------------------------- MODULE FoxBridgeAgent ---------------------------
(***************************************************************************)
(* The life of the service: startApplication() and stopApplication() of    *)
(* src/src/main.cpp, serviceMain() and serviceCtrlHandler() of             *)
(* src/src/WindowsService.cpp, connect() and disconnect() of               *)
(* src/src/DatabaseManager.cpp, and the service control manager (SCM).     *)
(*                                                                         *)
(* Two threads of the process matter: main, which waits in the dispatcher, *)
(* runs the control handler and, at exit, destroys the globals; and the    *)
(* thread of serviceMain().  The other components are reduced to what      *)
(* their owner sees: start() spawns a thread or throws, stop() clears a    *)
(* flag and joins a thread that ends some time after.  A process is        *)
(* started when the one before it is gone.                                 *)
(***************************************************************************)
EXTENDS Integers, Sequences

CONSTANT MaxStarts      \* bound on the processes started (for TLC)

ASSUME MaxStartsAssumption == MaxStarts \in Nat

VARIABLES
    scm,            \* dwCurrentState as the SCM has been told
    outcome,        \* how the last process ended
    main,           \* where the main thread is
    service,        \* where serviceMain() and its start callback are
    objects,        \* the globals g_* that are not null
    running,        \* the components whose running_ is set
    threads,        \* the components whose thread runs
    serving,        \* what the server thread does
    child,          \* is a cloudflared of this process alive?
    handles,        \* henv_ and hdbc_ of the DatabaseManager
    turn,           \* next in ShutdownOrder
    joining,        \* is the stop() of that component past its flag?
    starts          \* processes started (bounded)

vars == <<scm, outcome, main, service, objects, running, threads, serving, child,
          handles, turn, joining, starts>>
parts == <<objects, running, threads, serving, child, handles>>
shutdown == <<turn, joining>>

\* stopApplication() stops in this order, and the globals are destroyed in it.
ShutdownOrder == <<"maintenance", "tunnel", "server", "database">>
Threaded == {"maintenance", "tunnel", "server"}
Objects == Threaded \cup {"database"}

\* They share the DatabaseManager with g_db_manager.
Holders == {"maintenance", "server", "database"}

ScmStates == {"stopped", "start_pending", "running", "stop_pending"}
MainStates == {"none", "dispatch", "stopping", "report", "exiting"}
ServiceStates ==
    {"none",                                                    \* not there, or returned
     "register",                                                \* serviceMain() has begun
     "unheard",                                                 \* and returned without a report
     "database", "server", "tunnel", "watchdog", "maintenance", \* startApplication()
     "report", "loop", "throw"}
Handles == {"null", "open", "stale", "closed", "freed_twice"}

TypeOK ==
    /\ scm \in ScmStates
    /\ outcome \in {"none", "orderly", "error", "crash"}
    /\ main \in MainStates
    /\ service \in ServiceStates
    /\ objects \subseteq Objects
    /\ running \subseteq Threaded
    /\ threads \subseteq Threaded
    /\ serving \in {"test", "accept", "request"}
    /\ child \in BOOLEAN
    /\ handles \in Handles
    /\ turn \in 1..Len(ShutdownOrder) + 1
    /\ joining \in BOOLEAN
    /\ starts \in Nat

Init ==
    /\ scm = "stopped" /\ outcome = "none"
    /\ main = "none" /\ service = "none"
    /\ objects = {} /\ running = {} /\ threads = {} /\ serving = "test"
    /\ child = FALSE /\ handles = "null"
    /\ turn = 1 /\ joining = FALSE
    /\ starts = 0

-----------------------------------------------------------------------------
(* The SCM.                                                                *)

\* A process is created: main() enters the dispatcher, which starts serviceMain().
\* It finds an instance_: that is set before and cleared after the dispatcher.
\* A child that outlived a crash is no child of this process.
Begin ==
    /\ scm = "stopped" /\ main = "none" /\ starts < MaxStarts
    /\ scm' = "start_pending"
    /\ main' = "dispatch" /\ service' = "register"
    /\ child' = FALSE /\ handles' = "null"
    /\ starts' = starts + 1
    /\ UNCHANGED <<outcome, objects, running, threads, serving, shutdown>>

\* Somebody starts the service, or the machine boots.
ScmStart == Begin

\* The recovery actions of install() are for a process that ended without
\* reporting SERVICE_STOPPED; its failure flag is not set.
ScmRecover == outcome = "crash" /\ Begin

\* A stop control is only delivered to a service that accepts it.
AcceptsStop == scm = "running" /\ main = "dispatch"

InBackground == "report"                    \* a mutation of Handling
\* The handler calls the stop callback itself, before it reports and returns.
Handling == "stopping"

ScmStop ==
    /\ AcceptsStop
    /\ scm' = "stop_pending"
    /\ main' = Handling
    /\ turn' = 1 /\ joining' = FALSE
    /\ UNCHANGED <<outcome, service, parts, starts>>

-----------------------------------------------------------------------------
(* serviceMain(), and startApplication(), which it calls.                  *)

Goto(from, to) == service = from /\ service' = to

\* RegisterServiceCtrlHandlerW(), and the report of SERVICE_START_PENDING.
Register ==
    /\ Goto("register", "database")
    /\ UNCHANGED <<scm, outcome, main, parts, shutdown, starts>>

\* serviceMain() returns, and cannot report anything.  The dispatcher goes on
\* waiting, and a service that is starting accepts no stop control.
RegisterFails ==
    /\ Goto("register", "unheard")
    /\ UNCHANGED <<scm, outcome, main, parts, shutdown, starts>>

\* startApplication() logs an exception and throws it again.
Swallowed == "report"                       \* a mutation of AfterFailure
AfterFailure == "throw"

NoShutdown == UNCHANGED <<scm, outcome, main, shutdown, starts>>

ConnectDatabase ==
    /\ Goto("database", "server")
    /\ objects' = objects \cup {"database"}
    /\ handles' = "open"
    /\ UNCHANGED <<running, threads, serving, child>>
    /\ NoShutdown

\* No folder: the constructor throws.  No environment: connect() leaves null
\* handles.  No connection: it frees the handles and keeps their values.
ConnectFails ==
    /\ Goto("database", AfterFailure)
    /\ \/ UNCHANGED <<objects, handles>>
       \/ objects' = objects \cup {"database"} /\ handles' \in {"null", "stale"}
    /\ UNCHANGED <<running, threads, serving, child>>
    /\ NoShutdown

\* make_shared and start(): running_ is set before the thread is created.
Spawn(c) ==
    /\ objects' = objects \cup {c}
    /\ running' = running \cup {c}
    /\ threads' = threads \cup {c}

SpawnFails(c) ==
    /\ objects' = objects \cup {c}
    /\ running' = running \cup {c}
    /\ service' = AfterFailure
    /\ UNCHANGED <<threads, serving, child, handles>>

StartServer ==
    /\ service = "server"
    /\ \/ Spawn("server") /\ service' = "tunnel" /\ UNCHANGED <<serving, child, handles>>
       \/ SpawnFails("server")
    /\ NoShutdown

\* Without a token there is no tunnel; one that does not start is only logged.
SkipTunnel ==
    /\ Goto("tunnel", "maintenance")
    /\ objects' \in {objects, objects \cup {"tunnel"}}
    /\ UNCHANGED <<running, threads, serving, child, handles>>
    /\ NoShutdown

StartTunnel ==
    /\ Goto("tunnel", "watchdog")
    /\ objects' = objects \cup {"tunnel"}
    /\ running' = running \cup {"tunnel"}
    /\ child' = TRUE
    /\ UNCHANGED <<threads, serving, handles>>
    /\ NoShutdown

EnableWatchdog ==
    /\ service = "watchdog"
    /\ \/ Spawn("tunnel") /\ service' = "maintenance" /\ UNCHANGED <<serving, child, handles>>
       \/ SpawnFails("tunnel")
    /\ NoShutdown

StartMaintenance ==
    /\ service = "maintenance"
    /\ \/ Spawn("maintenance") /\ service' = "report" /\ UNCHANGED <<serving, child, handles>>
       \/ SpawnFails("maintenance")
    /\ NoShutdown

ReportRunning ==
    /\ Goto("report", "loop")
    /\ scm' = "running"
    /\ UNCHANGED <<outcome, main, parts, shutdown, starts>>

FailureUnreported ==                        \* a mutation of ReportFailure
    Goto("throw", "none") /\ UNCHANGED <<scm, outcome, main, parts, shutdown, starts>>

\* Nothing of what was started is stopped here.
ReportFailure ==
    /\ Goto("throw", "none")
    /\ scm' = "stopped" /\ outcome' = "error"
    /\ UNCHANGED <<main, parts, shutdown, starts>>

\* The loop looks at dwCurrentState once a second.
ServiceReturns ==
    /\ scm # "running" /\ Goto("loop", "none")
    /\ UNCHANGED <<scm, outcome, main, parts, shutdown, starts>>

-----------------------------------------------------------------------------
(* The shutdown, component by component: stopApplication() in the control  *)
(* handler, and the destructors of the globals when main() has returned.   *)

Current == ShutdownOrder[turn]
ShuttingDown == main \in {"stopping", "exiting"} /\ turn <= Len(ShutdownOrder)

\* A mutation of Disconnected, without the tests for null.
DisconnectedBlindly == CASE handles = "open" -> "closed"
                         [] handles = "stale" -> "freed_twice"
                         [] OTHER -> "freed_null"

\* disconnect(), which tells handles from null by their values.
Disconnected == CASE handles = "open" -> "closed"
                  [] handles = "stale" -> "freed_twice"
                  [] OTHER -> handles

HoldsIt == Current \in objects \cap Holders  \* a mutation of HoldsLast
HoldsLast == objects \cap Holders = {Current}

\* The global is reset; the last of its holders takes the DatabaseManager along.
Release ==
    /\ objects' = objects \ {Current}
    /\ handles' = IF HoldsLast THEN Disconnected ELSE handles
    /\ turn' = turn + 1

FlagKept == running                         \* a mutation of FlagCleared
FlagCleared == running \ {Current}

\* stop() finds a component that runs: it clears its flag, before it joins.
ClearFlag ==
    /\ ShuttingDown /\ ~joining
    /\ Current \in running
    /\ running' = FlagCleared
    /\ joining' = TRUE
    /\ UNCHANGED <<scm, outcome, main, service, objects, threads, serving, child, handles,
                   turn, starts>>

\* There is nothing to stop.
Pass ==
    /\ ShuttingDown /\ ~joining
    /\ Current \notin running
    /\ Release
    /\ UNCHANGED <<scm, outcome, main, service, running, threads, serving, child, joining, starts>>

JoinForgotten == TRUE                       \* a mutation of Joinable
Joinable == Current \notin threads

\* The thread has ended; the tunnel now ends its child.
Join ==
    /\ ShuttingDown /\ joining /\ Joinable
    /\ child' = (child /\ Current # "tunnel")
    /\ Release
    /\ joining' = FALSE
    /\ UNCHANGED <<scm, outcome, main, service, running, threads, serving, starts>>

StopApplicationEnds ==
    /\ main = "stopping" /\ turn > Len(ShutdownOrder)
    /\ main' = "report"
    /\ UNCHANGED <<scm, outcome, service, parts, shutdown, starts>>

ReportStopped ==
    /\ main = "report"
    /\ scm' = "stopped" /\ outcome' = "orderly"
    /\ main' = "dispatch"
    /\ UNCHANGED <<service, parts, shutdown, starts>>

\* The dispatcher returns once SERVICE_STOPPED was reported, and main() after it.
DispatcherReturns ==
    /\ main = "dispatch" /\ scm = "stopped"
    /\ main' = "exiting"
    /\ turn' = 1 /\ joining' = FALSE
    /\ UNCHANGED <<scm, outcome, service, parts, starts>>

\* The globals are destroyed: the process ends, with whatever thread is left.
Exit ==
    /\ main = "exiting" /\ turn > Len(ShutdownOrder)
    /\ main' = "none" /\ service' = "none"
    /\ UNCHANGED <<scm, outcome, parts, shutdown, starts>>

-----------------------------------------------------------------------------
(* The threads of the components, and the process they live in.            *)

OnlyThreads == UNCHANGED <<scm, outcome, main, service, objects, running, handles,
                           shutdown, starts>>

\* The port is taken, or an exception leaves run(): see HttpServer.
ServerThrows ==
    /\ "server" \in threads
    /\ threads' = threads \ {"server"} /\ serving' = "test"
    /\ UNCHANGED child
    /\ OnlyThreads

\* The condition of the loop; accept() does not look at it again.
LoopTest ==
    /\ "server" \in threads /\ serving = "test"
    /\ IF "server" \in running
         THEN serving' = "accept" /\ threads' = threads
         ELSE serving' = "test" /\ threads' = threads \ {"server"}
    /\ UNCHANGED child
    /\ OnlyThreads

\* Somebody connects.
Accept ==
    /\ "server" \in threads /\ serving = "accept"
    /\ serving' = "request"
    /\ UNCHANGED <<threads, child>>
    /\ OnlyThreads

Answer ==
    /\ "server" \in threads /\ serving = "request"
    /\ serving' = "test"
    /\ UNCHANGED <<threads, child>>
    /\ OnlyThreads

\* The worker and the watchdog look at their flags within bounded waits.
Notice(c) ==
    /\ c \in threads \ running
    /\ threads' = threads \ {c}
    /\ UNCHANGED <<serving, child>>
    /\ OnlyThreads

\* cloudflared ends by itself; the watchdog launches another one, also when its
\* flag has been cleared since it looked.
ChildDies == child /\ child' = FALSE /\ UNCHANGED <<threads, serving>> /\ OnlyThreads

Relaunch ==
    /\ "tunnel" \in threads /\ ~child
    /\ child' = TRUE
    /\ UNCHANGED <<threads, serving>>
    /\ OnlyThreads

\* The process ends at once; the system frees what it held, but not its child.
Crash ==
    /\ main # "none"
    /\ scm' = "stopped" /\ outcome' = IF scm = "stopped" THEN outcome ELSE "crash"
    /\ main' = "none" /\ service' = "none"
    /\ objects' = {} /\ running' = {} /\ threads' = {} /\ serving' = "test"
    /\ handles' = "null"
    /\ turn' = 1 /\ joining' = FALSE
    /\ UNCHANGED <<child, starts>>

ServiceStep ==
    \/ Register \/ RegisterFails
    \/ ConnectDatabase \/ ConnectFails \/ StartServer \/ SkipTunnel \/ StartTunnel
    \/ EnableWatchdog \/ StartMaintenance \/ ReportRunning \/ ReportFailure \/ ServiceReturns

MainStep ==
    \/ ClearFlag \/ Pass \/ Join \/ StopApplicationEnds \/ ReportStopped
    \/ DispatcherReturns \/ Exit

Next ==
    \/ ScmStart \/ ScmRecover \/ ScmStop
    \/ ServiceStep \/ MainStep
    \/ ServerThrows \/ LoopTest \/ Accept \/ Answer
    \/ \E c \in {"maintenance", "tunnel"} : Notice(c)
    \/ ChildDies \/ Relaunch \/ Crash

Spec == Init /\ [][Next]_vars

\* Threads that can run are run, requests are answered, and the recovery actions
\* are carried out.  Nobody has to start or stop the service, or to connect.
FairSpec ==
    /\ Spec
    /\ WF_vars(ServiceStep) /\ WF_vars(MainStep) /\ WF_vars(LoopTest \/ Answer)
    /\ \A c \in {"maintenance", "tunnel"} : WF_vars(Notice(c))
    /\ WF_vars(ScmRecover)

-----------------------------------------------------------------------------
(* Properties.                                                             *)

(* The server thread and the maintenance worker never run without an open  *)
(* connection, whether the service stops, fails to start or exits.         *)
DatabaseOutlivesThreads == threads \cap {"server", "maintenance"} # {} => handles = "open"

(* When the service has been reported stopped as it was asked to, no       *)
(* thread of it runs, no cloudflared, no connection is open and none was   *)
(* closed twice.                                                           *)
QuietWhenStopped ==
    scm = "stopped" /\ outcome = "orderly"
        => threads = {} /\ ~child /\ handles \in {"closed", "null"}

(* While the SCM shows the service as running, its parts are all there and *)
(* the worker waits for tasks; whatever starts or fails in between.        *)
RunningIsWhole ==
    scm = "running" => Holders \subseteq objects /\ "maintenance" \in threads

(* As long as somebody connects, a stop is answered with SERVICE_STOPPED,   *)
(* whatever the server, the worker and the watchdog are doing.             *)
StopAnswered == WF_vars(Accept) => (scm = "stop_pending" ~> scm = "stopped")

(* A start is answered one way or the other, whichever part of it fails,   *)
(* with one exception: without a control handler serviceMain() returns     *)
(* unheard, and the service stays in SERVICE_START_PENDING with nothing of *)
(* it started and nobody to answer, until the process is killed.           *)
Unheard == service = "unheard" /\ main = "dispatch" /\ objects = {} /\ threads = {}

StartAnswered == scm = "start_pending" ~> scm # "start_pending" \/ Unheard

(* A process that is done, whose service was stopped or could not start,   *)
(* ends as long as somebody connects: its exit destroys the globals, and   *)
(* joins what a start that failed has left.                                *)
ExitEnds == WF_vars(Accept) => (scm = "stopped" /\ main # "none" ~> main = "none")

\* enableWatchdog() comes after start(), and has a flag of its own.
HasFlag(c) == c \in running /\ ~(c = "tunnel" /\ service = "watchdog")

Part(c) == INSTANCE StoppableThread WITH
    flag <- HasFlag(c), thread <- c \in threads,
    stopping <- main \in {"stopping", "exiting"} /\ joining /\ Current = c,
    working <- c = "server" /\ c \in threads /\ serving = "request",
    last <- c = "server" /\ c \in threads \ running /\ serving = "accept"

(* The agent relies on no more of a component than StoppableThread, which   *)
(* the components implement, whichever start fails and whoever stops it.   *)
ImplementsStoppableThread ==
    /\ \A c \in Threaded : Part(c)!Init
    /\ [][\A c \in Threaded : [Part(c)!Next]_(Part(c)!vars)]_vars

(* OPERATIONS.md:221, README.md:12: the service is restarted on failure    *)
(* (as far as the bound on starts lets it).                                *)
FailureIsRestarted ==
    scm = "stopped" /\ outcome \in {"error", "crash"} /\ starts < MaxStarts
        ~> scm = "start_pending"
=============================================================================
