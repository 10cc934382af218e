----------------------------- MODULE Installation -----------------------------
(***************************************************************************)
(* The service as the service control manager (SCM) keeps it: install(),   *)
(* uninstall(), start() and stop() of src/src/WindowsService.cpp, called    *)
(* by the commands of main(), while the service of FoxBridgeAgent starts,  *)
(* runs, fails, stops and crashes.                                         *)
(*                                                                         *)
(* One command that waits or holds a handle at a time.  A command that     *)
(* fails before it has changed anything (no rights, no such service, a     *)
(* name that is marked for deletion) is no step.                           *)
(***************************************************************************)
EXTENDS FoxBridgeAgent

VARIABLES
    registration,   \* of the service: "marked" is for deletion
    recovery,       \* were its recovery actions configured?
    due,            \* is the SCM about to carry them out?
    tool            \* where the command is that holds a handle

installation == <<registration, recovery, due, tool>>
allVars == <<vars, installation>>

ToolStates ==
    {"none",
     "stopping",    \* stop() waits in ControlService()
     "stopped",     \* it has returned TRUE: "Service stopped successfully"
     "removing",    \* uninstall() waits in ControlService()
     "delete"}      \* it is about to call DeleteService()

InstallationTypeOK ==
    /\ TypeOK
    /\ registration \in {"none", "installed", "marked"}
    /\ recovery \in BOOLEAN
    /\ due \in BOOLEAN
    /\ tool \in ToolStates
    /\ tool # "none" => registration # "none"
    /\ due => registration # "none" /\ outcome = "crash"

InstallationInit ==
    /\ Init
    /\ registration = "none" /\ recovery = FALSE /\ due = FALSE
    /\ tool = "none"

-----------------------------------------------------------------------------
(* The commands.                                                           *)

\* When ChangeServiceConfig2() fails there are no recovery actions, and no error.
\* A service that exists is left as it is, and called installed.
Install ==
    /\ tool = "none" /\ registration = "none"
    /\ registration' = "installed"
    /\ recovery' \in BOOLEAN
    /\ UNCHANGED <<vars, due, tool>>

\* Nobody waits for the service to be running: start() returns when it begins.
\* The machine starts it as well, when it boots.
StartService ==
    /\ registration = "installed"
    /\ ScmStart
    /\ due' = FALSE
    /\ UNCHANGED <<registration, recovery, tool>>

\* ControlService() returns when the handler has.
StopService ==
    /\ tool = "none"
    /\ ScmStop
    /\ tool' = "stopping"
    /\ UNCHANGED <<registration, recovery, due>>

\* Others may stop it, and the machine does when it shuts down.
StopOtherwise ==
    /\ ScmStop
    /\ UNCHANGED installation

\* "Stop service first": the result of ControlService() is not looked at.  One that
\* is marked already is stopped again, and no more.
Uninstall ==
    /\ tool = "none"
    /\ registration = "installed" \/ (registration = "marked" /\ AcceptsStop)
    /\ IF AcceptsStop THEN ScmStop /\ tool' = "removing"
                      ELSE tool' = "delete" /\ UNCHANGED vars
    /\ UNCHANGED <<registration, recovery, due>>

DeleteService ==
    /\ tool = "delete"
    /\ registration' = "marked"
    /\ tool' = "none"
    /\ UNCHANGED <<vars, recovery, due>>

\* stop() returns, and closes its handle.
StopReturns ==
    /\ tool = "stopped"
    /\ tool' = "none"
    /\ UNCHANGED <<vars, registration, recovery, due>>

-----------------------------------------------------------------------------
(* The SCM.                                                                *)

\* ControlService() fails: stop() does as well, uninstall() goes on.
Unanswered == [none |-> "none", stopping |-> "none", stopped |-> "stopped",
               removing |-> "delete", delete |-> "delete"]

\* The handler takes longer than the 30 seconds ControlService() waits for it.
ControlTimesOut ==
    /\ tool \in {"stopping", "removing"}
    /\ tool' = Unanswered[tool]
    /\ UNCHANGED <<vars, registration, recovery, due>>

\* The handler has returned, and with it whoever waits for it.
Replied == [none |-> "none", stopping |-> "stopped", stopped |-> "stopped",
            removing |-> "delete", delete |-> "delete"]

Recover ==
    /\ due /\ registration = "installed"
    /\ ScmRecover
    /\ due' = FALSE
    /\ UNCHANGED <<registration, recovery, tool>>

\* A service marked for deletion goes when it has stopped and nobody holds a handle.
Remove ==
    /\ registration = "marked" /\ tool = "none"
    /\ scm = "stopped"
    /\ registration' = "none" /\ recovery' = FALSE /\ due' = FALSE
    /\ UNCHANGED <<vars, tool>>

-----------------------------------------------------------------------------
(* The steps of the agent.                                                 *)

\* The handler returns in the step that reports SERVICE_STOPPED.
MainGoesOn ==
    /\ MainStep
    /\ tool' = IF main = "report" THEN Replied[tool] ELSE tool
    /\ UNCHANGED <<registration, recovery, due>>

ServiceGoesOn == ServiceStep /\ UNCHANGED installation

ServerGoesOn == (LoopTest \/ Answer) /\ UNCHANGED installation

Connect == Accept /\ UNCHANGED installation

Noticed(c) == Notice(c) /\ UNCHANGED installation

ServerEnds == ServerThrows /\ UNCHANGED installation

ChildEnds == ChildDies /\ UNCHANGED installation

Relaunched == Relaunch /\ UNCHANGED installation

Mishap == ServerEnds \/ ChildEnds \/ Relaunched

\* The SCM recovers a process that ended without SERVICE_STOPPED.
ProcessEnds ==
    /\ Crash
    /\ due' = IF scm = "stopped" THEN due ELSE recovery
    /\ tool' = Unanswered[tool]
    /\ UNCHANGED <<registration, recovery>>

-----------------------------------------------------------------------------
Commands == Install \/ StartService \/ StopService \/ Uninstall \/ DeleteService \/ StopReturns
Manager == StopOtherwise \/ ControlTimesOut \/ Recover \/ Remove

InstallationNext ==
    \/ Commands \/ Manager
    \/ MainGoesOn \/ ServiceGoesOn \/ ServerGoesOn \/ Connect
    \/ \E c \in {"maintenance", "tunnel"} : Noticed(c)
    \/ Mishap \/ ProcessEnds

InstallationSpec == InstallationInit /\ [][InstallationNext]_allVars

\* What runs goes on, a call of the SCM returns, and the SCM does what is due.
\* Nobody has to install, start or stop the service, or to connect.
InstallationFairSpec ==
    /\ InstallationSpec
    /\ WF_allVars(ServiceGoesOn) /\ WF_allVars(MainGoesOn) /\ WF_allVars(ServerGoesOn)
    /\ WF_allVars(Noticed("maintenance")) /\ WF_allVars(Noticed("tunnel"))
    /\ WF_allVars(Recover) /\ WF_allVars(Remove)
    /\ WF_allVars(DeleteService) /\ WF_allVars(StopReturns)

-----------------------------------------------------------------------------
(* Properties.                                                             *)

(* "Service stopped successfully" (main.cpp:304) is only said of a service  *)
(* that has been reported stopped and of which nothing is left: no thread,  *)
(* no cloudflared, no open connection.                                     *)
StopTold ==
    [][tool # "stopped" /\ tool' = "stopped"
        => /\ scm' = "stopped" /\ outcome' = "orderly"
           /\ threads' = {} /\ ~child' /\ handles' \in {"closed", "null"}]_allVars

(* Whoever is waited for can go on: the start, the handler and the exit, or *)
(* the thread that they join; a command that holds a handle, and the SCM   *)
(* when it is to remove the service.  Only the server may wait itself, for *)
(* somebody to connect, and a start that is Unheard is over.               *)
NeverStuck ==
    /\ scm = "start_pending" /\ ~Unheard => ENABLED <<ServiceGoesOn>>_allVars
    /\ main # "none" /\ scm \in {"stop_pending", "stopped"} /\ ~(joining /\ Current \in threads)
         => ENABLED <<MainGoesOn>>_allVars
    /\ joining /\ Current \in threads =>
         /\ Current = "maintenance" => ENABLED <<Noticed("maintenance")>>_allVars
         /\ Current = "tunnel" => ENABLED <<Noticed("tunnel")>>_allVars
         /\ Current = "server" =>
              IF serving = "accept" THEN ENABLED <<Accept>>_vars /\ ENABLED <<Connect>>_allVars
                                    ELSE ENABLED <<ServerGoesOn>>_allVars
    /\ tool = "stopped" => ENABLED <<StopReturns>>_allVars
    /\ tool = "delete" => ENABLED <<DeleteService>>_allVars
    /\ registration = "marked" /\ scm = "stopped" /\ tool = "none" => ENABLED <<Remove>>_allVars

(* A service that was uninstalled goes, as long as somebody connects, also  *)
(* when the stop takes longer than uninstall() waits; unless it was just    *)
(* starting and could not be stopped, and now runs, or has remained        *)
(* Unheard.                                                                *)
RemovalEnds ==
    WF_allVars(Connect) =>
        (registration = "marked" ~> registration = "none" \/ scm = "running" \/ Unheard)
=============================================================================
