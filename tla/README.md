# FoxBridgeAgent: a TLA+ verification project

FoxBridgeAgent is a Windows service that offers an HTTP API on a folder of Visual FoxPro tables
(DBF files) while the application that owns them, ExpressD, goes on working on them. This
directory holds TLA+ models of its C++ code (paths below are relative to the repository), what
TLC checks of them on small instances, and what TLAPS proves of them for every instance.

## 1. Inventory

| Component | Source | State | Operations | Model |
|---|---|---|---|---|
| IndexMaintenance | `src/IndexMaintenance.cpp` | `running_`, `task_queue_` under `queue_mutex_`, `queue_cv_`, the worker thread, the window string | `start`, `stop`, `queueReindex`, `queueVerify`, `workerLoop`, `isInMaintenanceWindow` | `IndexMaintenance`, `MaintenanceWindow` |
| CloudflareTunnel | `src/CloudflareTunnel.cpp` | `running_`, `watchdog_enabled_`, `process_handle_`, `process_info_`, the watchdog thread, the child process | `start`, `stop`, `enableWatchdog`, `watchdogLoop`, `launchCloudflared`, `killProcess` | `CloudflareTunnel` |
| HttpServer, the thread | `src/HttpServer.cpp` 13-66 | `running_`, the server thread, acceptor and socket | `start`, `stop`, `run` | `HttpServer` |
| HttpServer, routes and handlers | `src/HttpServer.cpp` 68-580 | none between requests | `handleRequest` and one handler per route | `RequestHandling` |
| DatabaseManager, operations | `src/DatabaseManager.cpp` 103-730 | none of its own; the DBF and CDX files | `exportJSON`, `exportCSV`, `search`, `getAllRecords`, `findByDocnum`, `add`, `update`, `deleteRecords`, `undeleteRecords`, `pack`, `reindex`, `getIndexStatus` | `RequestHandling` |
| DatabaseManager, connection | `src/DatabaseManager.cpp` 8-101 | `henv_`, `hdbc_`, `connected_` | `connect`, `disconnect` | `FoxBridgeAgent` |
| Application lifecycle | `src/main.cpp` 63-164 | the four global `shared_ptr`s | `startApplication`, `stopApplication`, `runAsService`, the destruction of the globals; `runAsConsole` | `FoxBridgeAgent`; `Startup` for `runAsConsole` |
| WindowsService | `src/WindowsService.cpp` | `service_status_`, the service's handle; the registration the service control manager keeps | `run`, `serviceMain`, `serviceCtrlHandler`, `reportStatus`; `install`, `uninstall`, `start`, `stop` | `FoxBridgeAgent`; `Installation` for the last four |
| Config | `include/Config.h`, `src/main.cpp` 192-224 | `g_config`, the files it comes from | `findConfigFile`, `load`, `validate`, `createDefaultConfig` | `Startup` |
| Command line, first-time setup | `src/main.cpp` 226-415 | `mode`, `config_path`, `dbf_path` | `main`, `promptForPath` | `Startup` |
| Logging | `src/main.cpp` | spdlog's own | `initializeLogging` | not modelled |
| Installer, requirements checker, build | `installer/`, build scripts | - | - | not modelled |

How they meet. `main.cpp` creates a DatabaseManager, an HttpServer, a CloudflareTunnel (when there
is a token) and an IndexMaintenance, in this order, and stops them in the reverse order. The
server thread calls DatabaseManager for every request; the maintenance worker calls its
`reindex` and `getIndexStatus`. ExpressD works on the same files through no interface of this
program: tables change, get locked and disappear between any two accesses. Nobody in the program
calls `queueReindex` or `queueVerify`; they are the public interface of IndexMaintenance and are
modelled as such.

What is hard, and what makes each component right:

* **IndexMaintenance.** A queue between threads, a condition variable whose notification comes
  without the mutex, a run outside the mutex, repetition with a counter. Right: no task is lost,
  doubled or repeated too often; the worker never sleeps over a task; `stop` returns and leaves no
  thread; a task that fails does not circulate for ever.
* **MaintenanceWindow.** Minutes of a day compared as a line. Right: open when the string says so,
  every day.
* **CloudflareTunnel.** Two threads that kill, close and launch one child; a child that may outlive
  its termination. Right: no child outlives `stop`, two are never connected, each handle is closed
  once, a dead child is replaced.
* **HttpServer.** A blocking loop that any exception ends. Right: connections get their turn;
  `stop` leaves nothing in progress and no request carried out without its answer (who waits in the
  backlog is reset); little is accepted after `stop` began.
* **RequestHandling.** File test, statement and answer are separate moments, with ExpressD between
  them. Right: a request has one atomic effect or none, on the rows it selects only; what is
  answered was there, and what was there all the while is answered; what is asked again is not
  done again. The code keeps this for values without an apostrophe, and for a search by document
  number over the six tables it knows.
* **Lifecycle.** `startApplication` may fail at any of its steps; `stopApplication` runs in the
  control handler of the service and joins three threads, two of which share the connection with
  the global that owns it; the process may end at any moment. Right: the connection outlives its
  users; what is reported stopped is stopped, what is reported running is whole; starts and stops
  are answered (a start without a control handler is not); a process that is done ends; a failure is
  followed by a restart.
* **Installation.** Commands of other processes meet a service that starts, stops, hangs or
  crashes. Right: a success is only reported of what has happened; what was uninstalled goes.
* **Startup.** Four places of files that others write, a process with nobody at the console, and a
  global that is assigned before it is validated. Right: one source, the one that was named; no
  service on answers nobody gave; no process that waits for them.

`PROJECT.json` lists the hazards line by line, with the properties that are aimed at them.

## 2. Modules

| Module | Stands for |
|---|---|
| `RetryQueue` | Abstract: what the maintenance worker promises of a task (submitted, run by one actor, repeated at most `MaxRetries` times, ended once). |
| `IndexMaintenance` | The worker, its owner and its callers. Refines `RetryQueue` (`ImplementsRetryQueue`). |
| `MaintenanceWindow` | When the window of a configuration string is open, by the minute. |
| `CloudflareTunnel` | The tunnel, its owner, its watchdog, and the operating system's processes and handles. |
| `HttpServer` | The server thread, its owner, the clients and the backlog. |
| `RecordService` | Abstract: what a client of the API may rely on while ExpressD works on the tables. |
| `RequestHandling` | `handleRequest`, the handlers and the operations of DatabaseManager. Refines `RecordService` (`ImplementsRecordService`). |
| `StoppableThread` | Abstract: what a component with a thread promises its owner. Refined by `IndexMaintenance`, `CloudflareTunnel`, `HttpServer`, and by each of the three inside `FoxBridgeAgent` (`ImplementsStoppableThread`). |
| `FoxBridgeAgent` | The life of the service: `main.cpp`, `WindowsService.cpp`, the connection, and the service control manager, over the other components reduced to what their owner sees of them. |
| `Installation` | Extends `FoxBridgeAgent` with the registration of the service and the commands that change it. |
| `Startup` | `main()` until the application runs: arguments, configuration, setup, choice of the mode. |
| `MC*` | Instances for TLC, and for `IndexMaintenance` and `HttpServer` properties that a document or a comment claims and the code does not have. |
| `*_proofs` | TLAPS proofs. |

### IndexMaintenance

One action is one access to shared state. `worker` is the program counter of `workerLoop`
("lock" before line 90, "blocking" between the predicate and the wait with the mutex held,
"waiting" in `wait_for`, "expired" after the 60 seconds and before the mutex is retaken, "check"
after `wait_for`, "choose" after line 97 has found `running_` set, "process" and "requeue" after the
pop). `stop` needs no mutex to clear `running_` and may do so in "choose" too: the worker then begins
one more task. The mutex is not a variable: only in
"blocking", "check" and "choose" does the worker hold it from one step to the next (`MutexFree`), and a
queue function takes and releases it within its step. `Notified` says what a notification does:
it moves a worker that is in the wait set and is lost otherwise. `stop` is three steps
(`StopClear`, `StopNotify`, `StopJoin`). What a run may return (`Outcomes`) is read from
`DatabaseManager::reindex`, which has no path to success, and `getIndexStatus`. The clock is the
one bit `windowOpen`, which may change at any step. A task is one call of a queue function. The
variables `submitted`, `attempts`, `done`, `dropped` are history.

### MaintenanceWindow

`Open` is line 85, `Parsed` the parser with its default, `Meant` the window as an interval on the
circle of the day. Numbers no clock shows (hour 26) are left out: nothing validates them and no
document gives them a meaning. The clock goes minute by minute; the jumps of summer time are left out.

### CloudflareTunnel

`owner` and `watchdog` are program counters. A child is the number of its launch; `child` and
`open` are the operating system's view of processes and handles. `killProcess` is two steps, the
termination and, after a wait that may time out, the closing of what `process_info_` names; both
threads run it. Between the two the child may be "dying". `dead259` is a death whose exit code is
`STILL_ACTIVE`. The owner keeps to the calls `main.cpp` makes.

### HttpServer

`server` is the program counter of `run`. `Return` is its end, by the loop's condition or by an
exception: acceptor and socket are closed and with them every connection not answered. What
`handleRequest` does is not looked into here. `StartMayFail` lets the constructor of the thread
throw after `running_` was set (`StartThrows`) and the port be taken (`BindFails`); `AcceptThrows`
is an `accept` whose client has reset its connection. An `accept` that fails for want of memory or
sockets is left out. Clients connect, send a request or something else (a body the 500 response
cannot quote, or bytes that are not HTTP), and may hang up. `late` counts connections accepted since
`running_` was cleared.

### RequestHandling

One request at a time, as `run` serves them. Each access to the folder is a step of its own
(`FileMissing`/`FileExists`, then the statement), and ExpressD's steps (`Foreign*`: edit, move,
lock, files) come between any two. A row is its docnum and its `deleted` column; a where clause is
one docnum, everything, or absent; clauses on other columns are left out. That a statement is
carried out as a whole or fails as a whole is assumed of the driver, and that it takes one statement
at a time.

Two assumptions are not made. The tables are any DBF files; only those in `Known` have one of the
six names that `findByDocnum` searches (line 338), and a document in another one is not found. And a
value goes into the statement as it is (lines 152, 231, 348): one with an apostrophe (`Quoted`)
makes it another statement than the one meant (`Misquoted`). It fails (`Fails`, `ScanPast`), or does
what any statement of its kind can do to the table it names: an UPDATE leaves any rows where rows
were (`Left`), an INSERT adds any row (`Added`), a SELECT returns any records (`Fetched`).
`RecordService` makes its promise accordingly: of the rows for requests that are `Meant`, of absence
for the tables `Known`. A page of a table without rows says "Error" (`Empty`), and a search whose
query ends in ".dbf" is taken for a search in a file of that name (`QueryIsName`).

`FailedAnswer` gathers what the catch blocks and the handlers make of a failure, the uninitialised
`index_status` of `reindex` included (any value). `Fetched` lets a SELECT end early
(`FetchMayFail`), as the row loop of `executeSQL` does at an error. `seen` and `lasting` are
history: the records that have been in the tables since the request arrived, and those that could be
read at every moment since. A table that is locked, missing or fails in the middle of a fetch loses
its records from `lasting`; what is left has to be in an export, and must not be "absent" for a
search by document number. `RepeatChangesNothing` asks what a client may do that has lost an answer:
an update, delete or undelete sent again at once, with nothing of ExpressD in between and no
apostrophe in it, leaves the table as it is. Its second answer may be an error (`SQL_NO_DATA`, when
the update has moved the row out of its own clause), and a repeated add adds a second row.

### StoppableThread

Five booleans: the flag, whether there is a thread, whether it has begun a turn of its work, whether
it may begin one more without looking at the flag (`last`), and whether `stop` is between the flag
and its return. The actions say what `main.cpp` relies on: `start` finds nothing of an earlier
thread, the flag is set before a creation that may throw, `stop` returns only when the thread is
gone, and after the flag was cleared at most one turn begins. A turn is a task of the worker, a
round of the watchdog, a connection of the server. The three components show it of their code, step
by step; in `FoxBridgeAgent` the same module is instantiated for each of its three threads
(`Part(c)`), so that its reduction of them and what they do are held against one promise. The
tunnel's flag is `watchdog_enabled_`, which `startApplication` has set after `start` has returned
(`HasFlag`).

### FoxBridgeAgent

Two threads matter: `main`, which waits in the dispatcher, runs `serviceCtrlHandler` and, when
`runAsService` has returned, destroys the globals; and the one of `serviceMain`, whose program
counter `service` is the next part of `startApplication`, after "register", the call of
`RegisterServiceCtrlHandlerW`. Where that fails `serviceMain` returns without a report ("unheard"):
the service stays START_PENDING, accepts no stop, and nothing of it is started until somebody ends
the process. `objects` are the globals that are not null, `running` the components whose flag is
set, `threads` those whose thread runs. A component is reduced to: `start` sets the flag and creates
a thread, or throws between the two (`Spawn`, `SpawnFails`); `stop` clears the flag (`ClearFlag`)
and joins (`Join`); the thread ends some time after, the server's only after it has been let out of
`accept`. `stopApplication` and the destruction of the globals go through the same `ShutdownOrder`,
and the last holder of the DatabaseManager takes it along (`Release`, `HoldsLast`). `handles` says
what `henv_` and `hdbc_` hold: "stale" after a `connect` that failed and freed them, "freed_twice"
when `disconnect` then frees them again. `scm` is what the service control manager has been told,
`outcome` how the last process ended; `ScmRecover` is what it does about that. A stop control is
delivered only in `AcceptsStop`: `reportStatus` accepts none while the service starts, and the
manager delivers none to one that stops. A process is followed until it ends; what a process that
hangs in its exit does to the next one is left out.

### Installation

`registration` is the service's entry ("marked" for deletion), `recovery` whether
`ChangeServiceConfig2` configured its recovery actions, `due` that they are to be carried out, and
`tool` where the one command is that holds a handle or waits in `ControlService`. That call returns
when the handler has (`Replied`), when it takes too long (`ControlTimesOut`), or when the process
ends (`Unanswered`). `Uninstall` stops first and does not look at the result. A crash makes the
recovery due only if it was configured. Every step is a step of `FoxBridgeAgent` or leaves it alone.

### Startup

`pc` is where `main()` is. `files` says what each of the four places holds (a configuration, nothing,
something broken, or a place at which `exists()` throws), and `ChangeFile` changes one at any moment:
between `exists` and `load` too. `g_config` is assigned before `validate`, and stays what it became
when that throws. A process of the service control manager has no console: `getline` leaves its
string empty, which ends the setup. `origin` is history: where `g_config` was last taken from. What
the commands do is in `Installation`, what `startApplication` does in `FoxBridgeAgent`.

## 3. What TLC checks

Passing runs:

| Run | Instance | Shows |
|---|---|---|
| `maintenance` | one reindex and two verify tasks, 2 starts, thread creation may fail, `FairSpec` | `TypeOK`, `TaskConserved`, `NoLostTaskWakeup`, `NeverStuck`, `ImplementsStoppableThread`, `ImplementsRetryQueue`, `StopTerminates`, `EventuallySettled` |
| `window` | 5 windows, 1440 minutes | `OpenAsMeant` |
| `tunnel` | 3 launches, every failure allowed, `FairSpec` | `NoOrphan`, `AtMostOneTunnel`, `NoHandleLeak`, `NeverStuck`, `ImplementsStoppableThread`, `StopTerminates`, `TunnelRestored` |
| `server` | 3 clients that may misbehave, 2 starts, a thread that cannot be had, a port that may be taken, `FairSpec` | `QuietAfterStop`, `NeverStuck`, `ImplementsStoppableThread`, `Served`, `StopReturnsOnceMet` |
| `agent` | `Installation` over 2 processes: any part of a start may fail, a crash or a command at any moment, `InstallationFairSpec` | `InstallationTypeOK`, `DatabaseOutlivesThreads`, `QuietWhenStopped`, `RunningIsWhole`, `NeverStuck`, `StopTold`, `ImplementsStoppableThread`, `StopAnswered`, `StartAnswered`, `ExitEnds`, `RemovalEnds` |
| `startup` | one folder, a valid and an invalid configuration in 4 places, 6 ports at the edges, `FairSpec` | `TypeOK`, `ConfigFromOneSource`, `SetupOnlyWhenAsked`, `NeverStuck`, `UnattendedEnds` |
| `requests` | 3 tables of 1 row, 2 of them known to the search, 1 named by requests; 2 docnums and one with an apostrophe, 2 steps of ExpressD, the 2 docnums symmetric | `TypeOK`, `RepeatChangesNothing`, `ImplementsRecordService` |

`TypeOK` of the tunnel and of the server is a theorem (`TypeCorrect`) and not repeated in their runs.

What `QuietAfterStop` says of answers is about requests that were carried out; a client in the
backlog is reset when the acceptor is closed. `RunningIsWhole` is about the moment and the time
after the start, and says nothing of a server thread that an exception has ended since.
`AtMostOneTunnel` counts living children: one that is still dying after the 5 seconds of
`killProcess` may overlap the next.

`NeverStuck` has the same meaning in five modules: whoever is waited for (a thread in its `stop`,
the thread it joins, a command, the service control manager) has a step to take, in every reachable
state. A step that could be missing is, for example, the closing of a handle whose process died
meanwhile, the wake-up of a worker that slept when the notification came, or the return of a `read`
from what some client sent. Excepted are the server's wait for somebody to connect, which
`server_stop_returns` shows, and a start without a control handler (`Unheard`), which is over
without an answer: `StartAnswered` and `RemovalEnds` except it too, and it is shown that nothing of
the agent runs then. A server that waits in `read` has to have a client that can send. The liveness
theorems of section 4 rest on it.

Runs that find what a document or a comment says violated (`PROJECT.json`, "findings"):

| Run | The code |
|---|---|
| `maintenance_waits` | spins outside the window while a task is queued |
| `tunnel_restart` | gives up the tunnel for good after one relaunch that fails |
| `server_stop_returns` | waits in `stop` for a thread blocked in `accept` |
| `server_client_error` | ends the server thread at one client's error |
| `agent_recovery` | does not start the service again after a start that failed |

Other disagreements between documents and code that the models contain, without a run of their own:

* `max_retry_attempts` is never read: the worker compares with the literal 3 (`IndexMaintenance.cpp:121`,
  `docs/ARCHITECTURE.md:233`).
* `reindex` has no path that succeeds, so a reindex task is always dropped (`DatabaseManager.cpp:686`,
  `docs/OPERATIONS.md:343-345`); and nothing queues one after a write answered "pending"
  (`docs/ARCHITECTURE.md:119-128`).
* A window through midnight never opens (`IndexMaintenance.cpp:85`, `config/CONFIG.md:130`): `Open`
  is empty when `Start > End`.
* A search with a query string matches no route and is answered 404 (`Routed`, `HttpServer.cpp:163`).
* A search by document number looks into six tables (`Known`, `DatabaseManager.cpp:338`), not "across all
  DBF files" (`docs/API.md:274`).
* Values are put into the SQL text as they are (`Misquoted`, `DatabaseManager.cpp:152`);
  `README.md:327` and `docs/SECURITY.md:127-130` speak of parameterized queries.
* The view of a table without rows is a page that says "Error" (`Empty`, `HttpServer.cpp:351`).
* A start whose control handler cannot be registered is reported neither as running nor as failed
  (`RegisterFails`, `WindowsService.cpp:49`), so that no recovery follows it (`docs/OPERATIONS.md:221`).
* A body that is not JSON is answered 500 and not 400 (`Unparsable`, `docs/ARCHITECTURE.md:462`).
* `stop` lets one more connection in (`AtMostOneLateHolds`, `docs/OPERATIONS.md:246`).
* An export whose `SQLFetch` fails halfway is answered as a success with part of the records
  (`FetchMayFail`, `DatabaseManager.cpp:634`, `docs/API.md:74`).
* A search by document number says "not found" of a document in a table it could not read
  (`DatabaseManager.cpp:351`, `docs/API.md:274`): `ImplementsRecordService` promises the document
  only while its table can be read.
* A failed `connect` leaves handles that `disconnect` frees a second time ("freed_twice",
  `DatabaseManager.cpp:66`).
* The service stops maintenance, tunnel and server in this order (`ShutdownOrder`), not the server
  first (`docs/OPERATIONS.md:246-250`).
* `install` on a service that exists calls it installed and does not configure the recovery
  actions it may lack (`Install`).
* "Configuration Created Successfully!" is said of a configuration that is never written to a file
  (`AskPort`): the next start asks again.
* The setup takes ports from 1 and 8080 by default (`Chosen`, `DefaultPort`); `validate` wants 1024
  and more, and is not called on the setup's result.
* `--service` typed by somebody ends without having started anything and without a message
  (`RunAsService`).
* `.\config.json` depends on the directory the process happens to be in, which for a service is the
  system's (`SearchPaths`).
* `uninstall` goes on when its stop failed, and deletes a service that still runs (`Uninstall`).
* The "index" field of a write is set from the statement's result, not from the index (`docs/API.md:35`).

Bounds. `MaxStarts`, `MaxLaunches` and `MaxForeign` cut counters the code does not have. Two starts
let a second worker or server meet what the first left; three launches let a relaunch follow a
relaunch; two tasks are enough for one to overtake the other in the queue, and a task needs four
runs, all within the bound. Two docnums tell a row a clause selects from one it does not, and of
three tables two let a document leave the one that is yet to be searched for the one that has been,
and the third is never searched. A request other than a search by document number works on the one
table it names, whichever that is, so that requests name only the first (`Named`); the others are
filled by ExpressD. Two steps of ExpressD fit anywhere between a request's arrival, its file test,
its statements and its answer. Two processes let a recovery or a second start meet what the first
left behind. In `Startup` one valid and one invalid configuration and the three ways a file can fail
are all that the code tells apart, and the six ports are the edges of its two port checks. The
theorems do not depend on any of these values.

Fairness. `FairSpec` asks that a thread that can run is run, that `wait_for`, `Sleep` and
`WaitForSingleObject` return when their time is over, and in `HttpServer` that the client the server
reads from sends its request (`Ask`; of the others in the backlog nothing is asked, and without this
assumption a silent client holds up `read`, which has no timeout, for ever). `StopReturnsOnceMet`
says itself that somebody connects to a server that waits in `accept` while it is stopped. In
`Installation` the service control manager carries out the recovery that is due and removes what is
marked, stopped and held by nobody; a command that has begun ends. `StopAnswered`, `ExitEnds` and
`RemovalEnds` say themselves that they need somebody to connect (`WF` of `Accept` or `Connect`), for
the reason `server_stop_returns` shows; and the fairness of `Answer` assumes there, as `Ask` does in
`HttpServer`, that whoever has connected sends its request. In `Startup` only what needs nobody is
fair: `main()` goes on, and a process without a console gets the end of its input as an answer.
Nobody has to call `start` or `stop`, to answer a question, to install, to connect, or to queue a
task, and the window need not open. In `CloudflareTunnel` no child has to die.

`CHECK_DEADLOCK FALSE` stands where the system really rests: a stopped server or tunnel, a
server nobody connects to, and a service nobody starts.

## 4. What is proved

All theorems hold for every value of the constants under the named assumptions of the modules
(the sets of tasks are disjoint, `NoTask` is none of them, and the like).

* **IndexMaintenance_proofs.** `TypeCorrect`, `NoWorkerAfterStopHolds`, `NoLostTaskWakeupHolds`,
  `TaskConservedHolds`, `RetryBudgetHolds`, and `WorkerImplementsRetryQueue`. `NoWorkerAfterStop` is
  not inductive: `StopInv` adds that an owner inside `stop` has cleared `running_`. `TaskConserved`
  is unfolded into `Distinct` (no two entries of one task) and `Placed` (each task in one place),
  and each step moves at most one task. `RetryBudget` needs both, because a second copy of a task
  would have a count of its own, and `Untouched`: a task never queued has no runs. The refinement
  has one step per action: the unlocked run is the abstract "active", the pop begins it, the end of
  the run decides it, and the push back is a stutter, because the abstract task is pending from the
  moment the failed run ends. `TasksAreAccountedFor` and `EndsAreFinal` draw from the refinement
  what a caller gets (`Account`, `EndIsFinal` in `RetryQueue`): they are proved of the abstract
  steps alone (`OneTaskMoves`). `WorkerIsStoppable` maps the same steps to `StoppableThread`, with
  the place between the last look at `running_` and the pop as the one from which a turn may still
  begin (`last`); it rests on `StopInv` and the types.
* **MaintenanceWindow_proofs.** `OpenAsMeantHolds`: at every minute and for every window within one
  day, by the arithmetic of minutes on the circle of the day.
* **CloudflareTunnel_proofs.** `TypeCorrect`, `NoOrphanHolds`, `AtMostOneTunnelHolds`,
  `NoHandleLeakHolds`, from one inductive invariant `IInv`: which program counters of owner and
  watchdog can meet (`TakesTurns`), that every living child is the one `process_handle_` names
  (`OnlyHandleAlive`), that it is not alive any more between its termination and the closing of its
  handles (`KilledFirst`), and that a launch starts from a null handle (`NullBeforeLaunch`).
  `WatchdogIsStoppable` adds `FlagSet`: when the watchdog's flag is set, and that there is no
  watchdog before.
* **HttpServer_proofs.** `TypeCorrect`, `AtMostOneLateHolds`, `QuietAfterStopHolds`. The first
  needs `LateInv`: while `running_` is set, and whenever the thread is about to accept, no
  connection has been accepted late. The last needs `IInv`: no thread outside `Start` ... `StopJoin`
  (`StopInv`), a waiting connection is there once and not yet served (`WaitInv`), the one being
  served is open (`ServeInv`), and a request that was carried out has its answer or is about to get
  it (`AnswerInv`). `ServerIsStoppable` is the refinement of `StoppableThread`, from `IInv`. Its
  liveness theorems are under Liveness below.
* **FoxBridgeAgent_proofs.** `TypeCorrect`, `DatabaseOutlivesThreadsHolds`,
  `QuietWhenStoppedHolds`, `RunningIsWholeHolds`, from one invariant `IInv`: nothing is started
  while anything is stopped (`Places`); a thread belongs to an object whose flag is set or that is
  being joined, and so does a child (`Owned`); the shutdown has released what it has passed
  (`Released`); the connection is open from before its first user until after the last
  (`Connected`); and after an orderly stop nothing is left (`Quiet`). There is one lemma for the
  service control manager, each of the two threads, and the components' threads.
  `AgentIsMadeOfStoppableThreads` follows the same division for `StoppableThread`, for the three
  threads at once. It needs one more invariant, `Ahead`: of what `startApplication` has not come to
  there is no object and no thread.
* **Installation_proofs.** `InstalledIsAgent`: every step of the installation is a step of
  `FoxBridgeAgent` or leaves it alone, so that `InstalledSafety` is had from the theorems above.
  `InstallationTypeCorrect`, and `StopToldHolds`, from the agent's `IInv` at the step that reports
  SERVICE_STOPPED.
* **Startup_proofs.** `TypeCorrect`, `ConfigFromOneSourceHolds`,
  `SetupOnlyWhenAskedHolds`, for any files, folders, keys and answers. The invariant says what
  `g_config` can hold at each place of `main()`, above all at "ready", where the two ways to a
  configuration meet.
* **RequestHandling_proofs.** `TypeCorrect` and `HandlingImplementsRecordService`, from `ServeInv`:
  a request is there exactly while it is served, the records of the tables and the rows read so far
  are among those seen since it arrived, nothing has been read before the statement, and what is
  lasting and was asked for is among the rows of every table the scan has passed. For a request with
  an apostrophe in a value only the tables its rows come from are known. Each statement maps to the
  abstract write or read at the moment it runs; file tests and the steps of the scan are stutters.
  `AnswersAreRight` is what the refinement gives the client that holds an answer (`AnswerIsRight` in
  `RecordService`), proved of the abstract steps alone (`AnswerStep`). `RepeatChangesNothingHolds`:
  what an update without an apostrophe, a delete or an undelete does to a table, done twice, is what
  it does once.

**Liveness.** The theorems have the form `FairSpec /\ []NeverStuck => P`. What the provers cannot
look into is `ENABLED`, and `NeverStuck` is exactly what they would have to find there: that the
fair actions can be taken. It is an invariant of the runs, so the hypothesis is met wherever it was
checked. All the rest is proved for every value of the constants: each argument lists the places of
the one who has to move, shows that a step leaves it at its place or at one further on and
that the fair step does not leave it there, and gives the finite chain to the temporal prover.

* `StopTerminatesHolds` (IndexMaintenance_proofs): the worker's way home once `running_` is clear
  (`Homewards`) has nine places; it never passes `wait_for` twice, so one timeout makes up for the
  lost notification.
* `LineMovesOn` and `RunsEnd` (IndexMaintenance_proofs): the two steps of `EventuallySettled`. In an
  open window a task moves from any place in the queue to the one before it, or from the front to
  its run, and a run ends the task or puts it back with one run less left, of four. They
  use `NoLostTaskWakeup` (a worker with a queued task is not asleep) and the counts of `RetryBudget`.
* `StopTerminatesHolds`, `TunnelRestoredHolds` (CloudflareTunnel_proofs): `stop` waits for at most
  one round of the watchdog; a dead child is seen, terminated and replaced in six steps, none of
  which anybody but the watchdog can take while nobody stops it.
* `StopReturnsOnceMetHolds` (HttpServer_proofs): the positive counterpart of `server_stop_returns`,
  and what `StopAnswered` and the two beside it assume of the server as `WF` of `Accept`. The
  thread's way out has eight places (`Phases`: "read" is two of them, before and after the request is
  there); once `running_` is clear each place is left for one further on, "accept" only with
  somebody in the backlog, and an exception is a short cut. Misbehaving clients are included.
* `BacklogMovesOn` and `TurnsEnd` (HttpServer_proofs): the two steps of `Served`. While the clients
  behave and the server is not stopped (`Tended`), everybody in the backlog comes one place nearer
  to the socket, from wherever the thread is, and the connection in the socket is answered.
* `StartAnsweredHolds`, `StopAnsweredHolds`, `ExitEndsHolds`, `RemovalEndsHolds`
  (Installation_proofs): the start goes forward through its parts, or is `Unheard`; the shutdown,
  which the handler and the exit share, through the three components and the connection
  (`ShutdownThrough`), and at each of them waits for a thread whose flag is clear. The invariants of
  the agent say which places can be met together. The server is let out of `accept` by the somebody
  that the properties ask for.
* `UnattendedEndsHolds` (Startup_proofs): `main()` never goes back, and where it waits for an answer
  a process without a console gets the end of its input.

Model-checked only: `EventuallySettled` and `Served`, of which only the induction is missing, over
the place in the queue and the runs that are left, and over the place in the backlog (the library's
induction theorems cannot be used here); and the five `NeverStuck`, which speak of `ENABLED`.

## 5. Not modelled

Wording and layout of JSON and CSV; SQL text and column types, but for the missing escape of values;
the sizes of buffers and of the request body; logging; the fields of the configuration that only set
waits, logs and policies; exit codes; the installer, its requirements checker and the build. A
real-time bound (the 60-second wait, the 30-second check, the 5 seconds of `killProcess`) appears
only as an event that may or, under fairness, must happen.

Two processes of the agent at once are left out: one that hangs in its exit while the next one
starts, and one at a console beside the service. So is the cloudflared that a crash leaves running:
no later process knows of it. That a maintenance run and a request share one ODBC connection has no
consequence in this code: neither `reindex` nor `getIndexStatus` touches it.

## 6. Plan

Done: all modules above, with their runs and theorems; the common promise of the three threads and
its composition into the agent; repeated writes; complete exports and searches; installation and
startup; the liveness proofs, down to the steps of `Served` and `EventuallySettled`;
what callers get from `RetryQueue` and `RecordService`.

Left:

1. Two overlapping processes of the agent: the port, the connection and the child of each.
2. `Startup` composed with `FoxBridgeAgent`: the configuration decides whether there is a tunnel and
   whether the server gets its port.
3. A writer that can tell a repeated add, if the interface ever carries an identity of a request.
