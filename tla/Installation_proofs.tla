------------------------- MODULE Installation_proofs -------------------------
(***************************************************************************)
(* Machine-checked proofs about Installation: it is the agent of           *)
(* FoxBridgeAgent, whose theorems carry over, and what --stop says is true. *)
(***************************************************************************)
EXTENDS Installation, FoxBridgeAgent_proofs

-----------------------------------------------------------------------------
(* The commands and the SCM do nothing to the agent that FoxBridgeAgent    *)
(* does not know.                                                          *)

AgentStep == MainGoesOn \/ ServiceGoesOn \/ ServerGoesOn \/ Connect
             \/ (\E c \in {"maintenance", "tunnel"} : Noticed(c)) \/ Mishap

LEMMA StepIsAgentStep ==
  ASSUME [InstallationNext]_allVars
  PROVE  [Next]_vars
  <1>1. CASE UNCHANGED allVars
    BY <1>1 DEF allVars
  <1>2. CASE Commands \/ Manager
    BY <1>2 DEF Commands, Install, StartService, StopService, Uninstall, DeleteService,
                StopReturns, Manager, StopOtherwise, ControlTimesOut, Recover, Remove, Next
  <1>3. CASE AgentStep
    BY <1>3 DEF AgentStep, MainGoesOn, ServiceGoesOn, ServerGoesOn, Connect, Noticed, Mishap,
       ServerEnds, ChildEnds, Relaunched, Next
  <1>4. CASE ProcessEnds
    BY <1>4 DEF ProcessEnds, Next
  <1> QED
    BY <1>1, <1>2, <1>3, <1>4 DEF InstallationNext, AgentStep

(* However the service is installed, started, stopped and removed, it is   *)
(* the service of FoxBridgeAgent.                                          *)
THEOREM InstalledIsAgent == InstallationSpec => Spec
  <1>1. InstallationInit => Init
    BY DEF InstallationInit
  <1>2. [InstallationNext]_allVars => [Next]_vars
    BY StepIsAgentStep
  <1> QED
    BY <1>1, <1>2, PTL DEF InstallationSpec, Spec

LEMMA AgentInvariant == InstallationSpec => []IInv
  BY InstalledIsAgent, Inductive, PTL

-----------------------------------------------------------------------------
(* The registration.                                                       *)

\* Only a service that is registered runs, and nothing of it does while the SCM
\* is about to start it again.
Registered ==
    /\ scm # "stopped" => registration # "none"
    /\ due => main = "none" /\ scm = "stopped"

RegistrationInv == InstallationTypeOK /\ Registered

LEMMA RegistrationInit == InstallationInit => RegistrationInv
  BY InitIInv DEF InstallationInit, Init, RegistrationInv, Registered, InstallationTypeOK,
                  ToolStates, IInv

LEMMA CommandsKeepRegistration ==
  ASSUME IInv, IInv', RegistrationInv, Commands
  PROVE  RegistrationInv'
  <1> USE DEF RegistrationInv, Registered, InstallationTypeOK, ToolStates
  <1>0. TypeOK'
    BY DEF IInv
  <1>1. CASE Install
    BY <1>0, <1>1 DEF Install, vars
  <1>2. CASE StartService
    BY <1>0, <1>2 DEF StartService
  <1>3. CASE StopService
    BY <1>0, <1>3 DEF StopService, ScmStop, AcceptsStop
  <1>4. CASE Uninstall
    BY <1>0, <1>4 DEF Uninstall, ScmStop, AcceptsStop, vars
  <1>5. CASE DeleteService
    BY <1>0, <1>5 DEF DeleteService, vars
  <1>6. CASE StopReturns
    BY <1>0, <1>6 DEF StopReturns, vars
  <1> QED
    BY <1>1, <1>2, <1>3, <1>4, <1>5, <1>6 DEF Commands

LEMMA ManagerKeepsRegistration ==
  ASSUME IInv, IInv', RegistrationInv, Manager
  PROVE  RegistrationInv'
  <1> USE DEF RegistrationInv, Registered, InstallationTypeOK, ToolStates
  <1>0. TypeOK'
    BY DEF IInv
  <1>1. CASE StopOtherwise
    BY <1>0, <1>1 DEF StopOtherwise, installation, ScmStop, AcceptsStop
  <1>2. CASE ControlTimesOut
    BY <1>0, <1>2 DEF ControlTimesOut, Unanswered, vars
  <1>3. CASE Recover
    BY <1>0, <1>3 DEF Recover
  <1>4. CASE Remove
    BY <1>0, <1>4 DEF Remove, vars
  <1> QED
    BY <1>1, <1>2, <1>3, <1>4 DEF Manager

(* While a restart is due there is no process that could take a step.      *)
LEMMA DueStands ==
  ASSUME IInv, RegistrationInv, AgentStep, due
  PROVE  UNCHANGED <<scm, main, outcome>>
  <1>1. main = "none" /\ scm = "stopped" /\ service \notin Starting
    BY DEF RegistrationInv, Registered, IInv, Places
  <1>2. ~MainGoesOn
    BY <1>1 DEF MainGoesOn, MainStep, ClearFlag, Pass, Join, ShuttingDown, StopApplicationEnds,
                ReportStopped, DispatcherReturns, Exit
  <1>3. ServiceGoesOn => UNCHANGED <<scm, main, outcome>>
    BY <1>1 DEF ServiceGoesOn, ServiceStep, Register, RegisterFails, ConnectDatabase,
       ConnectFails, StartServer, SkipTunnel, StartTunnel, EnableWatchdog,
       StartMaintenance, ReportRunning, ReportFailure, ServiceReturns, Goto, NoShutdown,
       NotBegun, Starting
  <1>4. ServerGoesOn \/ Connect \/ Mishap \/ (\E c \in {"maintenance", "tunnel"} : Noticed(c))
          => UNCHANGED <<scm, main, outcome>>
    BY DEF ServerGoesOn, Connect, Mishap, ServerEnds, ChildEnds, Relaunched, Noticed,
       LoopTest, Answer, Accept, ServerThrows, ChildDies, Relaunch, Notice, OnlyThreads
  <1> QED
    BY <1>2, <1>3, <1>4 DEF AgentStep

(* The agent does not begin by itself.                                     *)
LEMMA StoppedStands ==
  ASSUME IInv, AgentStep, scm = "stopped"
  PROVE  scm' = "stopped"
  <1>1. main \notin {"stopping", "report"} /\ service \notin Starting
    BY DEF IInv, Places
  <1>2. MainGoesOn => scm' = "stopped"
    BY <1>1 DEF MainGoesOn, MainStep, ClearFlag, Pass, Join, StopApplicationEnds, ReportStopped,
                DispatcherReturns, Exit
  <1>3. ServiceGoesOn => scm' = "stopped"
    BY <1>1 DEF ServiceGoesOn, ServiceStep, Register, RegisterFails, ConnectDatabase,
       ConnectFails, StartServer, SkipTunnel, StartTunnel, EnableWatchdog,
       StartMaintenance, ReportRunning, ReportFailure, ServiceReturns, Goto, NoShutdown,
       NotBegun, Starting
  <1>4. ServerGoesOn \/ Connect \/ Mishap \/ (\E c \in {"maintenance", "tunnel"} : Noticed(c))
          => scm' = "stopped"
    BY DEF ServerGoesOn, Connect, Mishap, ServerEnds, ChildEnds, Relaunched, Noticed,
       LoopTest, Answer, Accept, ServerThrows, ChildDies, Relaunch, Notice, OnlyThreads
  <1> QED
    BY <1>2, <1>3, <1>4 DEF AgentStep

LEMMA AgentKeepsRegistration ==
  ASSUME IInv, IInv', RegistrationInv, AgentStep \/ ProcessEnds
  PROVE  RegistrationInv'
  <1> USE DEF RegistrationInv, Registered, InstallationTypeOK, ToolStates
  <1>0. TypeOK'
    BY DEF IInv
  <1>1. CASE AgentStep
    <2>1. UNCHANGED <<registration, recovery, due>>
      BY <1>1 DEF AgentStep, MainGoesOn, ServiceGoesOn, ServerGoesOn, Connect, Noticed,
         Mishap, ServerEnds, ChildEnds, Relaunched, installation
    <2>2. tool' \in ToolStates /\ (tool' # "none" => tool # "none")
      BY <1>1 DEF AgentStep, MainGoesOn, ServiceGoesOn, ServerGoesOn, Connect, Noticed,
         Mishap, ServerEnds, ChildEnds, Relaunched, installation, Replied
    <2> QED
      BY <1>0, <1>1, <2>1, <2>2, DueStands, StoppedStands
  <1>2. CASE ProcessEnds
    <2>1. /\ scm' = "stopped" /\ main' = "none"
          /\ outcome' = IF scm = "stopped" THEN outcome ELSE "crash"
          /\ due' = IF scm = "stopped" THEN due ELSE recovery
          /\ tool' = Unanswered[tool]
          /\ UNCHANGED <<registration, recovery>>
      BY <1>2 DEF ProcessEnds, Crash
    <2>2. tool' \in ToolStates /\ (tool' # "none" => tool # "none")
      BY <2>1 DEF Unanswered
    <2> QED
      BY <1>0, <2>1, <2>2
  <1> QED
    BY <1>1, <1>2

LEMMA RegistrationStep ==
  ASSUME IInv, IInv', RegistrationInv, [InstallationNext]_allVars
  PROVE  RegistrationInv'
  <1>1. CASE UNCHANGED allVars
    <2>1. TypeOK'
      BY DEF IInv
    <2> QED
      BY <1>1, <2>1 DEF allVars, vars, installation, RegistrationInv, Registered,
         InstallationTypeOK
  <1>2. CASE InstallationNext
    BY <1>2, CommandsKeepRegistration, ManagerKeepsRegistration, AgentKeepsRegistration
       DEF InstallationNext, AgentStep
  <1> QED
    BY <1>1, <1>2

LEMMA RegistrationHolds == InstallationSpec => []RegistrationInv
  BY RegistrationInit, RegistrationStep, AgentInvariant, PTL DEF InstallationSpec

-----------------------------------------------------------------------------
(* The registration, the commands and the agent stay in their types; in    *)
(* particular nobody holds a handle of a service that is gone.             *)
THEOREM InstallationTypeCorrect == InstallationSpec => []InstallationTypeOK
  <1>1. RegistrationInv => InstallationTypeOK
    BY DEF RegistrationInv
  <1> QED
    BY <1>1, RegistrationHolds, PTL

(* A stop of which the command line says that it was successful has left   *)
(* no thread, no cloudflared and no connection.                            *)
THEOREM StopToldHolds == InstallationSpec => StopTold
  <1> DEFINE NothingLeft == /\ scm' = "stopped" /\ outcome' = "orderly"
                            /\ threads' = {} /\ ~child' /\ handles' \in {"closed", "null"}
  <1>1. ASSUME IInv', InstallationTypeOK, [InstallationNext]_allVars,
               tool # "stopped", tool' = "stopped"
        PROVE  NothingLeft
    <2>1. MainGoesOn
      <3>1. tool' # tool
        BY <1>1
      <3>2. ~(UNCHANGED tool) /\ ~(UNCHANGED allVars)
        BY <3>1 DEF allVars, installation
      <3>3. ~Commands
        BY <1>1, <3>1 DEF Commands, Install, StartService, StopService, Uninstall, DeleteService,
                          StopReturns
      <3>4. ~Manager /\ ~ProcessEnds
        BY <1>1, <3>1 DEF Manager, StopOtherwise, ControlTimesOut, Recover, Remove, ProcessEnds,
                          Unanswered, installation, InstallationTypeOK, ToolStates
      <3>5. ~(ServiceGoesOn \/ ServerGoesOn \/ Connect \/ Mishap
              \/ \E c \in {"maintenance", "tunnel"} : Noticed(c))
        BY <3>1 DEF ServiceGoesOn, ServerGoesOn, Connect, Mishap, ServerEnds, ChildEnds,
           Relaunched, Noticed, installation
      <3> QED
        BY <1>1, <3>2, <3>3, <3>4, <3>5 DEF InstallationNext
    <2>2. main = "report"
      BY <1>1, <2>1 DEF MainGoesOn
    <2>3. ReportStopped
      BY <2>1, <2>2 DEF MainGoesOn, MainStep, ClearFlag, Pass, Join, ShuttingDown,
                        StopApplicationEnds, DispatcherReturns, Exit
    <2>4. scm' = "stopped" /\ outcome' = "orderly"
      BY <2>3 DEF ReportStopped
    <2> QED
      BY <1>1, <2>4 DEF IInv, Owned, Quiet
  <1>2. IInv' /\ InstallationTypeOK /\ [InstallationNext]_allVars
          => [tool # "stopped" /\ tool' = "stopped" => NothingLeft]_allVars
    BY <1>1
  <1> QED
    BY <1>2, AgentInvariant, InstallationTypeCorrect, PTL DEF InstallationSpec, StopTold

(* The theorems of FoxBridgeAgent hold of a service however it is          *)
(* installed, started, stopped and removed.                                *)
THEOREM InstalledSafety ==
    InstallationSpec => [](DatabaseOutlivesThreads /\ QuietWhenStopped /\ RunningIsWhole)
  BY InstalledIsAgent, DatabaseOutlivesThreadsHolds, QuietWhenStoppedHolds, RunningIsWholeHolds, PTL

-----------------------------------------------------------------------------
(* The ends and the answers.  What can be taken of the steps that fairness  *)
(* is assumed of is taken; that it can be taken is NeverStuck.  From each   *)
(* place on the way it leads nearer to the end, so nobody stays anywhere.  *)

(* A start is answered one way or the other, whichever part of it fails; a  *)
(* failure to register the control handler leaves it Unheard.               *)
THEOREM StartAnsweredHolds == InstallationFairSpec /\ []NeverStuck => StartAnswered
  <1> DEFINE At(place) == service = place
             Answered == service \notin Starting
  <1>1. IInv /\ [InstallationNext]_allVars =>
          /\ At("register") => (At("register") \/ At("unheard") \/ At("database") \/ Answered)'
          /\ At("database") => (At("database") \/ At("server") \/ At("throw") \/ Answered)'
          /\ At("server") => (At("server") \/ At("tunnel") \/ At("throw") \/ Answered)'
          /\ At("tunnel") => (At("tunnel") \/ At("watchdog") \/ At("maintenance") \/ Answered)'
          /\ At("watchdog") => (At("watchdog") \/ At("maintenance") \/ At("throw") \/ Answered)'
          /\ At("maintenance") => (At("maintenance") \/ At("report") \/ At("throw") \/ Answered)'
          /\ At("report") => (At("report") \/ Answered)'
          /\ At("throw") => (At("throw") \/ Answered)'
    BY StepIsAgentStep, StartStep DEF NotBegun, Starting, Onwards
  <1>2. IInv /\ [InstallationNext]_allVars /\ <<ServiceGoesOn>>_allVars =>
          /\ At("register") => ~At("register")'
          /\ At("database") => ~At("database")'
          /\ At("server") => ~At("server")'
          /\ At("tunnel") => ~At("tunnel")'
          /\ At("watchdog") => ~At("watchdog")'
          /\ At("maintenance") => ~At("maintenance")'
          /\ At("report") => ~At("report")'
          /\ At("throw") => ~At("throw")'
    BY StepIsAgentStep, StartStep DEF NotBegun, Starting, ServiceGoesOn
  <1>3. Answered \/ At("unheard") \/ At("register") \/ At("database") \/ At("server") \/ At("tunnel") \/ At("watchdog")
          \/ At("maintenance") \/ At("report") \/ At("throw")
    BY DEF NotBegun, Starting
  <1>4. IInv => (Answered <=> scm # "start_pending") /\ (~Answered <=> scm = "start_pending")
    BY DEF IInv, Places
  <1>5. NeverStuck /\ scm = "start_pending" /\ ~Unheard => ENABLED <<ServiceGoesOn>>_allVars
    BY DEF NeverStuck
  <1>6. IInv => (At("unheard") => Unheard)
    BY DEF IInv, Places, Released, Owned, Joined, NotBegun, Starting, Unheard
  <1> HIDE DEF At, Answered
  <1> QED
    BY <1>1, <1>2, <1>3, <1>4, <1>5, <1>6, AgentInvariant, PTL
       DEF InstallationFairSpec, InstallationSpec, StartAnswered

(* The shutdown passes the worker: main joins it with its flag cleared, so  *)
(* it sees that and ends.                                                  *)
LEMMA MaintenanceStopped ==
    InstallationFairSpec /\ []NeverStuck => (AtTurn(1) ~> AtTurn(2) \/ Gone)
  <1>1. IInv /\ [InstallationNext]_allVars =>
          /\ Looking(1) => (Looking(1) \/ Waiting(1) \/ Alone(1) \/ Looking(2) \/ Gone)'
          /\ Waiting(1) => (Waiting(1) \/ Alone(1) \/ Gone)'
          /\ Alone(1) => (Alone(1) \/ Looking(2) \/ Gone)'
    BY StepIsAgentStep, ShutdownStep
  <1>2. IInv /\ <<MainGoesOn>>_allVars => (Looking(1) => ~Looking(1)') /\ (Alone(1) => ~Alone(1)')
    BY MainInShutdown DEF MainGoesOn, Looking, Waiting, Alone, AtTurn
  <1>3. IInv /\ <<Noticed("maintenance")>>_allVars => ~Waiting(1)'
    BY WaitEnds DEF Noticed
  <1>4. IInv /\ NeverStuck =>
          /\ Looking(1) \/ Alone(1) => ENABLED <<MainGoesOn>>_allVars
          /\ Waiting(1) => ENABLED <<Noticed("maintenance")>>_allVars
    BY WaitingFor DEF NeverStuck, Looking, Waiting, Alone, AtTurn, IInv, TypeOK, Places, ScmStates
  <1>5. /\ AtTurn(1) => Looking(1) \/ Waiting(1) \/ Alone(1)
        /\ Looking(2) => AtTurn(2)
    BY DEF AtTurn, Looking, Waiting, Alone
  <1> QED
    BY <1>1, <1>2, <1>3, <1>4, <1>5, AgentInvariant, PTL DEF InstallationFairSpec,
       InstallationSpec

(* Then the tunnel, whose watchdog ends in the same way.                   *)
LEMMA TunnelStopped ==
    InstallationFairSpec /\ []NeverStuck => (AtTurn(2) ~> AtTurn(3) \/ Gone)
  <1>1. IInv /\ [InstallationNext]_allVars =>
          /\ Looking(2) => (Looking(2) \/ Waiting(2) \/ Alone(2) \/ Looking(3) \/ Gone)'
          /\ Waiting(2) => (Waiting(2) \/ Alone(2) \/ Gone)'
          /\ Alone(2) => (Alone(2) \/ Looking(3) \/ Gone)'
    BY StepIsAgentStep, ShutdownStep
  <1>2. IInv /\ <<MainGoesOn>>_allVars => (Looking(2) => ~Looking(2)') /\ (Alone(2) => ~Alone(2)')
    BY MainInShutdown DEF MainGoesOn, Looking, Waiting, Alone, AtTurn
  <1>3. IInv /\ <<Noticed("tunnel")>>_allVars => ~Waiting(2)'
    BY WaitEnds DEF Noticed
  <1>4. IInv /\ NeverStuck =>
          /\ Looking(2) \/ Alone(2) => ENABLED <<MainGoesOn>>_allVars
          /\ Waiting(2) => ENABLED <<Noticed("tunnel")>>_allVars
    BY WaitingFor DEF NeverStuck, Looking, Waiting, Alone, AtTurn, IInv, TypeOK, Places, ScmStates
  <1>5. /\ AtTurn(2) => Looking(2) \/ Waiting(2) \/ Alone(2)
        /\ Looking(3) => AtTurn(3)
    BY DEF AtTurn, Looking, Waiting, Alone
  <1> QED
    BY <1>1, <1>2, <1>3, <1>4, <1>5, AgentInvariant, PTL DEF InstallationFairSpec,
       InstallationSpec

(* Then the server, unless its thread waits for a connection for ever:     *)
(* once it has one it answers it, looks at its flag and ends.              *)
LEMMA ServerStopped ==
    InstallationFairSpec /\ []NeverStuck /\ []<>~ServerWaits => (AtTurn(3) ~> AtTurn(4) \/ Gone)
  <1>1. IInv /\ [InstallationNext]_allVars =>
          /\ Looking(3) => (Looking(3) \/ Waiting(3) \/ Alone(3) \/ Looking(4) \/ Gone)'
          /\ ServerWaits => (ServerWaits \/ ServerWorks \/ Alone(3) \/ Gone)'
          /\ ServerWorks => (ServerWorks \/ ServerLooks \/ Alone(3) \/ Gone)'
          /\ ServerLooks => (ServerLooks \/ Alone(3) \/ Gone)'
          /\ Alone(3) => (Alone(3) \/ Looking(4) \/ Gone)'
    BY StepIsAgentStep, ShutdownStep, ServerStep
  <1>2. IInv /\ <<MainGoesOn>>_allVars => (Looking(3) => ~Looking(3)') /\ (Alone(3) => ~Alone(3)')
    BY MainInShutdown DEF MainGoesOn, Looking, Waiting, Alone, AtTurn
  <1>3. IInv /\ <<ServerGoesOn>>_allVars =>
          (ServerWorks => ~ServerWorks') /\ (ServerLooks => ~ServerLooks')
    BY WaitEnds DEF ServerGoesOn
  <1>4. IInv =>
          /\ AtTurn(3) => Looking(3) \/ Waiting(3) \/ Alone(3)
          /\ Waiting(3) => ServerWaits \/ ServerWorks \/ ServerLooks
          /\ Looking(4) => AtTurn(4)
    BY DEF IInv, TypeOK, AtTurn, Looking, Waiting, Alone, ServerWaits, ServerWorks, ServerLooks
  <1>5. IInv /\ NeverStuck =>
          /\ Looking(3) \/ Alone(3) => ENABLED <<MainGoesOn>>_allVars
          /\ ServerWorks \/ ServerLooks => ENABLED <<ServerGoesOn>>_allVars
    BY WaitingFor DEF NeverStuck, Looking, ServerWorks, ServerLooks, Waiting, Alone,
       AtTurn, IInv, TypeOK, Places, ScmStates
  <1> QED
    BY <1>1, <1>2, <1>3, <1>4, <1>5, AgentInvariant, PTL DEF InstallationFairSpec,
       InstallationSpec

(* Then the database, and it is through: the handler has somebody to       *)
(* report to, or the process ends.                                         *)
LEMMA DatabaseReleased ==
    InstallationFairSpec /\ []NeverStuck => (AtTurn(4) \/ AtTurn(5) ~> Reporting \/ Gone)
  <1>1. IInv /\ [InstallationNext]_allVars =>
          /\ Looking(4) => (Looking(4) \/ Waiting(4) \/ Alone(4) \/ Looking(5) \/ Gone)'
          /\ Alone(4) => (Alone(4) \/ Looking(5) \/ Gone)'
          /\ Looking(5) => (Looking(5) \/ Reporting \/ Gone)'
    BY StepIsAgentStep, ShutdownStep, ShutdownThrough
  <1>2. IInv /\ [InstallationNext]_allVars /\ <<MainGoesOn>>_allVars =>
          /\ Looking(4) => ~Looking(4)'
          /\ Alone(4) => ~Alone(4)'
          /\ Looking(5) => ~Looking(5)'
    BY StepIsAgentStep, MainInShutdown, ShutdownThrough DEF MainGoesOn, Looking, Waiting,
       Alone, AtTurn
  <1>3. IInv => /\ AtTurn(4) => Looking(4) \/ Alone(4)
                /\ AtTurn(5) => Looking(5)
                /\ ~Waiting(4)
    BY WaitingFor, OrderLength DEF IInv, Owned, ShuttingDown, AtTurn, Looking, Waiting, Alone
  <1>4. IInv /\ NeverStuck => (Looking(4) \/ Alone(4) \/ Looking(5) => ENABLED <<MainGoesOn>>_allVars)
    BY WaitingFor DEF NeverStuck, Looking, Waiting, Alone, AtTurn, IInv, TypeOK, Places, ScmStates
  <1> QED
    BY <1>1, <1>2, <1>3, <1>4, AgentInvariant, PTL DEF InstallationFairSpec, InstallationSpec

\* Somewhere in the shutdown.
Shutting == main \in {"stopping", "exiting"}

LEMMA ShutdownEnds ==
    InstallationFairSpec /\ []NeverStuck /\ []<>~ServerWaits => (Shutting ~> Reporting \/ Gone)
  <1>1. IInv => (Shutting => AtTurn(1) \/ AtTurn(2) \/ AtTurn(3) \/ AtTurn(4) \/ AtTurn(5))
    BY TurnOf DEF IInv, Shutting, AtTurn
  <1> QED
    BY <1>1, MaintenanceStopped, TunnelStopped, ServerStopped, DatabaseReleased, AgentInvariant, PTL
       DEF InstallationFairSpec, InstallationSpec

(* Nobody connecting for ever is the only reason for main to wait for a    *)
(* server for ever.                                                        *)
LEMMA ServerIsMet == []NeverStuck /\ []IInv /\ WF_vars(Accept) => []<>~ServerWaits
  <1>1. IInv /\ NeverStuck /\ ServerWaits => ENABLED <<Accept>>_vars
    BY WaitingFor DEF NeverStuck, ServerWaits, Waiting, AtTurn
  <1>2. IInv /\ <<Accept>>_vars => ~ServerWaits'
    BY WaitEnds
  <1> QED
    BY <1>1, <1>2, PTL

(* The handler reports.                                                    *)
LEMMA StopEnds ==
    InstallationFairSpec /\ []NeverStuck /\ []<>~ServerWaits
      => (scm = "stop_pending" ~> scm = "stopped")
  <1>1. IInv => (scm = "stop_pending" => Shutting \/ Reporting) /\ (Gone => ~(scm = "stop_pending"))
    BY DEF IInv, Places, Shutting, Reporting, Gone
  <1>2. IInv /\ [InstallationNext]_allVars =>
          /\ scm = "stop_pending" => (scm = "stop_pending" \/ scm = "stopped")'
          /\ Reporting => (Reporting \/ Done \/ Gone)'
    BY StepIsAgentStep, ReportStep
  <1>3. IInv /\ <<MainGoesOn>>_allVars => (Reporting => ~Reporting')
    BY MainAtEnd DEF MainGoesOn
  <1>4. IInv /\ NeverStuck => (Reporting => ENABLED <<MainGoesOn>>_allVars)
    BY DEF NeverStuck, Reporting, IInv, Places, Owned, ShuttingDown
  <1>5. IInv => (Done => ~(scm = "stop_pending"))
    BY DEF Done
  <1> QED
    BY <1>1, <1>2, <1>3, <1>4, <1>5, ShutdownEnds, AgentInvariant, PTL
       DEF InstallationFairSpec, InstallationSpec

(* As long as somebody connects, a stop is answered: stopApplication()     *)
(* gets past each component, and the handler reports.                      *)
THEOREM StopAnsweredHolds == InstallationFairSpec /\ []NeverStuck => StopAnswered
  BY StopEnds, ServerIsMet, AgentInvariant, PTL DEF InstallationFairSpec, StopAnswered

(* A process that is done ends as long as somebody connects: the globals   *)
(* are destroyed one after the other.                                      *)
THEOREM ExitEndsHolds == InstallationFairSpec /\ []NeverStuck => ExitEnds
  <1> DEFINE Stopped == scm = "stopped"
  <1>1. IInv => /\ Stopped /\ ~Gone => Done \/ Shutting
                /\ Done \/ Shutting => ~Gone
                /\ Stopped => ~Reporting
                /\ Looking(1) => Shutting
    BY DEF IInv, TypeOK, MainStates, Places, Shutting, Reporting, Gone, Done, Looking, AtTurn
  <1>2. IInv /\ [InstallationNext]_allVars =>
          /\ Stopped /\ ~Gone => Stopped'
          /\ Done => (Done \/ Looking(1) \/ Gone)'
    BY StepIsAgentStep, ReportStep DEF Gone
  <1>3. IInv /\ <<MainGoesOn>>_allVars => (Done => ~Done')
    BY MainAtEnd DEF MainGoesOn
  <1>4. IInv /\ NeverStuck => (Done => ENABLED <<MainGoesOn>>_allVars)
    BY DEF NeverStuck, Done, IInv, Places, Owned, ShuttingDown
  <1>5. ExitEnds <=> (WF_vars(Accept) => (Stopped /\ ~Gone ~> Gone))
    <2>1. Stopped /\ ~Gone <=> scm = "stopped" /\ main # "none"
      BY DEF Gone
    <2> QED
      BY <2>1, PTL DEF ExitEnds, Gone
  <1> HIDE DEF Stopped
  <1> QED
    BY <1>1, <1>2, <1>3, <1>4, <1>5, ShutdownEnds, ServerIsMet, AgentInvariant, PTL
       DEF InstallationFairSpec, InstallationSpec

-----------------------------------------------------------------------------
(* The removal.                                                            *)

\* A command only waits in ControlService() while the handler is at work.
Attended == tool \in {"stopping", "removing"} => main \in {"stopping", "report"}

LEMMA AttendedStep ==
  ASSUME IInv, RegistrationInv, Attended, [InstallationNext]_allVars
  PROVE  Attended'
  <1> USE DEF Attended
  <1>1. CASE UNCHANGED allVars
    BY <1>1 DEF allVars, vars, installation
  <1>2. CASE Commands
    BY <1>2 DEF Commands, Install, StartService, StopService, Uninstall, DeleteService,
       StopReturns, ScmStart, Begin, ScmStop, AcceptsStop, Handling, vars
  <1>3. CASE Manager
    BY <1>3 DEF Manager, StopOtherwise, ControlTimesOut, Recover, Remove, ScmRecover,
       Begin, ScmStop, AcceptsStop, Handling, Unanswered, installation, vars
  <1>4. CASE MainGoesOn
    <2>1. CASE main = "report"
      BY <1>4, <2>1 DEF MainGoesOn, Replied, RegistrationInv, InstallationTypeOK, ToolStates
    <2>2. CASE main # "report"
      BY <1>4, <2>2 DEF MainGoesOn, MainStep, ClearFlag, Pass, Join, StopApplicationEnds,
         ReportStopped, DispatcherReturns, Exit
    <2> QED
      BY <2>1, <2>2
  <1>5. CASE ServiceGoesOn
    BY <1>5 DEF ServiceGoesOn, ServiceStep, Register, RegisterFails, ConnectDatabase,
       ConnectFails, StartServer, SkipTunnel, StartTunnel, EnableWatchdog,
       StartMaintenance, ReportRunning, ReportFailure, ServiceReturns, NoShutdown,
       installation
  <1>6. CASE ServerGoesOn \/ Connect \/ Mishap \/ \E c \in {"maintenance", "tunnel"} : Noticed(c)
    BY <1>6 DEF ServerGoesOn, Connect, Mishap, ServerEnds, ChildEnds, Relaunched, Noticed,
       LoopTest, Answer, Accept, ServerThrows, ChildDies, Relaunch, Notice, OnlyThreads,
       installation
  <1>7. CASE ProcessEnds
    BY <1>7 DEF ProcessEnds, Unanswered, RegistrationInv, InstallationTypeOK, ToolStates
  <1> QED
    BY <1>1, <1>2, <1>3, <1>4, <1>5, <1>6, <1>7 DEF InstallationNext

LEMMA AttendedHolds == InstallationSpec => []Attended
  <1>1. InstallationInit => Attended
    BY DEF InstallationInit, Attended
  <1> QED
    BY <1>1, AttendedStep, AgentInvariant, RegistrationHolds, PTL DEF InstallationSpec

\* Marked for deletion, as far as the stop has come.
Marked(report) == registration = "marked" /\ scm = report
Held(place) == Marked("stopped") /\ tool = place
Removed == registration = "none"
Runs == scm = "running"

(* What is marked stays marked until it is removed, and once it has        *)
(* stopped nobody starts it or takes a handle again.                       *)
LEMMA MarkedStep ==
  ASSUME IInv, RegistrationInv, Attended, [InstallationNext]_allVars, registration = "marked"
  PROVE  /\ registration' \in {"marked", "none"}
         /\ scm = "stopped" /\ registration' = "marked" =>
              scm' = "stopped" /\ tool' \in {tool, "none"}
  <1>1. CASE UNCHANGED allVars
    BY <1>1 DEF allVars, vars, installation
  <1>2. CASE Commands
    BY <1>2 DEF Commands, Install, StartService, StopService, Uninstall, DeleteService,
       StopReturns, ScmStop, AcceptsStop, vars
  <1>3. CASE Manager
    BY <1>3 DEF Manager, StopOtherwise, ControlTimesOut, Recover, Remove, ScmStop, AcceptsStop,
       installation, vars, Attended, IInv, Places
  <1>4. CASE AgentStep
    <2>1. UNCHANGED registration /\ (tool' = tool \/ main = "report")
      BY <1>4 DEF AgentStep, MainGoesOn, ServiceGoesOn, ServerGoesOn, Connect, Noticed,
         Mishap, ServerEnds, ChildEnds, Relaunched, installation
    <2> QED
      BY <1>4, <2>1, StoppedStands DEF IInv, Places
  <1>5. CASE ProcessEnds
    BY <1>5 DEF ProcessEnds, Crash, Unanswered, RegistrationInv, InstallationTypeOK, ToolStates,
       Attended, IInv, Places
  <1> QED
    BY <1>1, <1>2, <1>3, <1>4, <1>5 DEF InstallationNext, AgentStep

(* Somebody who connects to an installed service connects to its agent.    *)
LEMMA InstalledServerIsMet == []NeverStuck /\ []IInv /\ WF_allVars(Connect) => []<>~ServerWaits
  <1>1. IInv /\ NeverStuck /\ ServerWaits => ENABLED <<Connect>>_allVars
    BY WaitingFor DEF NeverStuck, ServerWaits, Waiting, AtTurn
  <1>2. IInv /\ <<Connect>>_allVars => ~ServerWaits'
    BY WaitEnds DEF Connect
  <1> QED
    BY <1>1, <1>2, PTL

(* What uninstall() has marked goes, as long as somebody connects: it is   *)
(* stopped, whoever holds a handle closes it, and the SCM removes it.  One  *)
(* that could not be stopped runs in the end, or remains Unheard.           *)
THEOREM RemovalEndsHolds == InstallationFairSpec /\ []NeverStuck => RemovalEnds
  <1> DEFINE Inv == IInv /\ RegistrationInv /\ Attended
             Asked == registration = "marked"
             Starts == scm = "start_pending"
             Stops == scm = "stop_pending"
             Stopped == scm = "stopped"
  <1>1. Inv => /\ Asked => Starts \/ Stops \/ Runs \/ Marked("stopped")
               /\ Marked("stopped") => Held("none") \/ Held("stopped") \/ Held("delete")
               /\ Marked("stopped") <=> Asked /\ Stopped
               /\ Held("none") \/ Held("stopped") \/ Held("delete") => Marked("stopped")
    BY DEF IInv, TypeOK, ScmStates, Places, RegistrationInv, InstallationTypeOK,
       ToolStates, Attended, Marked, Held, Runs
  <1>2. Inv /\ [InstallationNext]_allVars =>
          /\ Asked => (Asked \/ Removed)'
          /\ Starts => (Starts \/ Runs \/ Stopped)'
          /\ Held("none") => (Held("none") \/ Removed)'
          /\ Held("stopped") => (Held("stopped") \/ Held("none") \/ Removed)'
          /\ Held("delete") => (Held("delete") \/ Held("none") \/ Removed)'
    BY StepIsAgentStep, ReportStep, MarkedStep DEF Held, Marked, Removed, Runs
  <1>3. /\ <<StopReturns>>_allVars => ~Held("stopped")'
        /\ <<DeleteService>>_allVars => ~Held("delete")'
        /\ <<Remove>>_allVars => Removed'
    BY DEF StopReturns, DeleteService, Remove, Held, Removed
  <1>4. NeverStuck => /\ Held("stopped") => ENABLED <<StopReturns>>_allVars
                      /\ Held("delete") => ENABLED <<DeleteService>>_allVars
                      /\ Held("none") => ENABLED <<Remove>>_allVars
    BY DEF NeverStuck, Held, Marked
  <1>5. InstallationFairSpec /\ []NeverStuck => (Starts ~> ~Starts \/ Unheard)
    <2>1. scm # "start_pending" <=> ~Starts
      OBVIOUS
    <2> QED
      BY <2>1, StartAnsweredHolds, PTL DEF StartAnswered
  <1>6. InstallationFairSpec /\ []NeverStuck /\ []<>~ServerWaits => (Stops ~> Stopped)
    BY StopEnds
  <1>7. RemovalEnds <=> (WF_allVars(Connect) => (Asked ~> Removed \/ Runs \/ Unheard))
    BY PTL DEF RemovalEnds, Removed, Runs
  <1>8. Inv <=> IInv /\ RegistrationInv /\ Attended
    OBVIOUS
  <1> HIDE DEF Inv, Asked, Starts, Stops, Stopped
  <1> QED
    BY <1>1, <1>2, <1>3, <1>4, <1>5, <1>6, <1>7, <1>8, InstalledServerIsMet, AgentInvariant,
       RegistrationHolds, AttendedHolds, PTL DEF InstallationFairSpec, InstallationSpec
=============================================================================
