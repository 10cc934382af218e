------------------------------- MODULE Startup -------------------------------
(***************************************************************************)
(* main() of src/src/main.cpp up to the point where the application runs:   *)
(* the arguments, the search for a configuration, Config::load() and       *)
(* Config::validate() of src/include/Config.h, the setup at the console,   *)
(* and the choice between console and service.  One process at a time,     *)
(* started by somebody at a console or by the service control manager      *)
(* (SCM), while configuration files come, change and go.                   *)
(*                                                                         *)
(* The files are the three places of findConfigFile() and the one named by *)
(* --config.  What the commands do to the SCM is in Installation, what     *)
(* startApplication() does is in FoxBridgeAgent; exit codes are left out.  *)
(***************************************************************************)
EXTENDS Integers, Sequences

CONSTANTS
    Folders,        \* what exists and can be named as the DBF folder
    Keys,           \* values of api_key
    BuiltInKey,     \* the one of createDefaultConfig()
    Tokens,         \* values of cloudflare_token
    Empty,          \* the empty string
    FileConfigs,    \* what a file may say, with load()'s defaults filled in
    PortAnswers,    \* numbers somebody may type
    Absent,         \* there is no such file
    Broken,         \* not to be opened, not JSON, or of other types
    Denied,         \* not even to be looked for: exists() throws
    NoConfig        \* g_config before it is first assigned

Config == [database: Folders \cup {Empty}, key: Keys \cup {Empty}, port: Int,
           token: Tokens \cup {Empty}]

ASSUME ConfigAssumption == FileConfigs \subseteq Config /\ PortAnswers \subseteq Int
ASSUME NamesAssumption ==
    /\ BuiltInKey \in Keys /\ Empty \notin Folders \cup Keys
    /\ {Absent, Broken, Denied} \cap Config = {}
    /\ NoConfig \notin Config

VARIABLES
    files,          \* place -> what is there
    by,             \* who started the process
    pc,             \* where main() is
    mode,           \* mode
    path,           \* config_path; "given" when config_specified is set
    config,         \* g_config
    folder,         \* dbf_path
    origin          \* history: where g_config was last taken from as a whole

vars == <<files, by, pc, mode, path, config, folder, origin>>

SearchPaths == <<"current", "programdata", "folder">>
Places == {"current", "programdata", "folder", "given"}
Contents == FileConfigs \cup {Absent, Broken, Denied}

Points ==
    {"none",                        \* no process
     "args",                        \* the loop over the arguments
     "look1", "look2", "look3",     \* findConfigFile(): exists()
     "load",
     "path", "port", "pause",       \* the questions, and "Press Enter to exit"
     "ready",
     "console", "service"}          \* startApplication() was called

Given == path = "given"
Running == pc \in {"console", "service"}

TypeOK ==
    /\ files \in [Places -> Contents]
    /\ by \in {"user", "scm"}
    /\ pc \in Points
    /\ mode \in {"console", "service"}
    /\ path \in Places \cup {"none"}
    /\ config \in Config \cup {NoConfig}
    /\ Running => config \in Config
    /\ folder \in Folders \cup {Empty}
    /\ origin \in {"none", "file", "setup"}

Fresh ==
    /\ mode' = "console" /\ path' = "none"
    /\ config' = NoConfig /\ folder' = Empty /\ origin' = "none"

Init ==
    /\ files \in [Places -> Contents]
    /\ by = "user" /\ pc = "none"
    /\ mode = "console" /\ path = "none"
    /\ config = NoConfig /\ folder = Empty /\ origin = "none"

-----------------------------------------------------------------------------
(* The process begins.                                                     *)

\* Somebody types a command line, or the SCM runs the one install() registered.
Launch ==
    /\ pc = "none"
    /\ by' \in {"user", "scm"}
    /\ pc' = "args"
    /\ Fresh
    /\ UNCHANGED files

\* The arguments the SCM passes are the registered ones: --service.
Passed(arg) == pc = "args" /\ (by = "scm" => arg = "--service")

ModeArgument ==
    /\ \/ Passed("--console") /\ mode' = "console"
       \/ Passed("--service") /\ mode' = "service"
    /\ UNCHANGED <<files, by, pc, path, config, folder, origin>>

\* --help and the four commands return from main() when they are met, whatever
\* stands before or after them.
CommandArgument ==
    /\ \E command \in {"--help", "--install", "--uninstall", "--start", "--stop"} : Passed(command)
    /\ pc' = "none"
    /\ UNCHANGED <<files, by, mode, path, config, folder, origin>>

\* --config takes the next argument, whatever it is; as the last argument it is
\* passed over, as every argument is that main() does not know.
ConfigArgument ==
    /\ Passed("--config")
    /\ path' = "given"
    /\ UNCHANGED <<files, by, pc, mode, config, folder, origin>>

ArgumentsEnd ==
    /\ pc = "args" /\ (by = "scm" => mode = "service")
    /\ pc' = IF Given THEN "load" ELSE "look1"
    /\ UNCHANGED <<files, by, mode, path, config, folder, origin>>

-----------------------------------------------------------------------------
(* The configuration.                                                      *)

AfterLook == [look1 |-> "look2", look2 |-> "look3", look3 |-> "path"]
LookedAt == [look1 |-> SearchPaths[1], look2 |-> SearchPaths[2], look3 |-> SearchPaths[3]]

\* findConfigFile() takes the first place where there is something.
Look ==
    /\ pc \in DOMAIN AfterLook
    /\ LET place == LookedAt[pc] IN
        \/ files[place] = Absent /\ pc' = AfterLook[pc] /\ UNCHANGED path
        \/ files[place] = Denied /\ pc' = "none" /\ UNCHANGED path
        \/ files[place] \notin {Absent, Denied} /\ pc' = "load" /\ path' = place
    /\ UNCHANGED <<files, by, mode, config, folder, origin>>

MaxPort == 65535

\* A mutation of Valid.
PortUnchecked(c) == c.database # Empty /\ c.key # Empty

Valid(c) == c.database # Empty /\ c.key # Empty /\ c.port \in 1024..MaxPort

\* Mutations of AfterInvalid: the setup for whatever is invalid; no way out.
SetupInstead == "path"
GoOn == "ready"

\* A file named by --config has to do; one that was found does not.
AfterInvalid == IF Given THEN "none" ELSE "path"

\* g_config is assigned before it is validated, and stays if that throws.
Load ==
    /\ pc = "load" /\ files[path] \in Config
    /\ config' = files[path]
    /\ origin' = "file"
    /\ pc' = IF Valid(files[path]) THEN "ready" ELSE AfterInvalid
    /\ UNCHANGED <<files, by, mode, path, folder>>

\* A mutation of LoadFails: nobody thought of a file that is gone.
LoadBroken ==
    /\ pc = "load" /\ files[path] = Broken
    /\ pc' = AfterInvalid
    /\ UNCHANGED <<files, by, mode, path, config, folder, origin>>

\* The file has gone since it was found, or load() throws on it.
LoadFails ==
    /\ pc = "load" /\ files[path] \notin Config
    /\ pc' = AfterInvalid
    /\ UNCHANGED <<files, by, mode, path, config, folder, origin>>

-----------------------------------------------------------------------------
(* The setup at the console.  A process of the SCM has nobody to answer:    *)
(* std::getline() meets the end of its input and leaves the string empty.  *)

AskAgain == "path"                          \* a mutation of AfterBadPath
AfterBadPath == "pause"

Answered(answer) == answer \in Folders

\* What is empty or does not exist ends the setup.
AskPath ==
    /\ pc = "path"
    /\ folder' \in IF by = "scm" THEN {Empty} ELSE Folders \cup {Empty}
    /\ pc' = IF Answered(folder') THEN "port" ELSE AfterBadPath
    /\ UNCHANGED <<files, by, mode, path, config, origin>>

DefaultPort == 8080

\* What is no number, or none of these, is taken for the default.
Chosen(port) == IF port \in 1..MaxPort THEN port ELSE DefaultPort

\* A mutation of DefaultConfig: what an invalid file has left is kept.
TunnelKept(f, p) ==
    [database |-> f, key |-> BuiltInKey, port |-> p,
     token |-> IF config = NoConfig THEN Empty ELSE config.token]

DefaultConfig(f, p) == [database |-> f, key |-> BuiltInKey, port |-> p, token |-> Empty]

AskPort ==
    /\ pc = "port"
    /\ \E port \in PortAnswers \cup {DefaultPort} :
        config' = DefaultConfig(folder, Chosen(port))
    /\ origin' = "setup"
    /\ pc' = "ready"
    /\ UNCHANGED <<files, by, mode, path, folder>>

Pause ==
    /\ pc = "pause"
    /\ pc' = "none"
    /\ UNCHANGED <<files, by, mode, path, config, folder, origin>>

-----------------------------------------------------------------------------
(* The application.                                                        *)

RunAsConsole ==
    /\ pc = "ready" /\ mode = "console"
    /\ pc' = "console"
    /\ UNCHANGED <<files, by, mode, path, config, folder, origin>>

\* The dispatcher only connects in a process of the SCM; main() returns without
\* having started anything in any other.
RunAsService ==
    /\ pc = "ready" /\ mode = "service"
    /\ pc' = IF by = "scm" THEN "service" ELSE "none"
    /\ UNCHANGED <<files, by, mode, path, config, folder, origin>>

\* The application ends, or the process is ended: Ctrl+C, a crash.
End ==
    /\ pc # "none"
    /\ pc' = "none"
    /\ UNCHANGED <<files, by, mode, path, config, folder, origin>>

\* A file is written, damaged or removed, by whomever.
ChangeFile ==
    /\ \E place \in Places, content \in Contents : files' = [files EXCEPT ![place] = content]
    /\ UNCHANGED <<by, pc, mode, path, config, folder, origin>>

-----------------------------------------------------------------------------
Arguments == ModeArgument \/ CommandArgument \/ ConfigArgument
Questions == AskPath \/ AskPort \/ Pause
Progress == ArgumentsEnd \/ Look \/ Load \/ LoadFails \/ RunAsConsole \/ RunAsService

Next == Launch \/ Arguments \/ Questions \/ Progress \/ End \/ ChangeFile

Spec == Init /\ [][Next]_vars

\* main() goes on, its arguments are finite, and the end of the input is an
\* answer.  Nobody at a console has to answer.
FairSpec ==
    /\ Spec
    /\ WF_vars(Progress)
    /\ WF_vars(by = "scm" /\ ModeArgument) /\ WF_vars(by = "scm" /\ Questions)

-----------------------------------------------------------------------------
(* Properties.                                                             *)

(* The application never runs on a mixture: its configuration is one file   *)
(* as it was at one moment and passed validate(), or the defaults with the  *)
(* folder and the port of the setup, also when the setup follows a file    *)
(* that had been assigned to g_config and did not pass.                    *)
ConfigFromOneSource ==
    Running =>
        \/ /\ origin = "file" /\ config \in FileConfigs
           /\ config.database # Empty /\ config.key # Empty /\ config.port \in 1024..MaxPort
        \/ /\ origin = "setup"
           /\ folder \in Folders /\ config.port \in 1..MaxPort
           /\ config = [database |-> folder, key |-> BuiltInKey, port |-> config.port, token |-> Empty]

(* The setup never steps in where nobody asked for it: not for a file that *)
(* was named and is missing or invalid (main.cpp:182, --config <path>: use *)
(* specific config file), and not for a service, which would run on the    *)
(* built-in key and a port nobody validated; whatever becomes of the files *)
(* in between.                                                             *)
SetupOnlyWhenAsked ==
    /\ Running /\ Given => origin = "file"
    /\ pc = "service" => origin = "file" /\ by = "scm"

(* main() is never stuck where nobody can help it: what it asks or looks   *)
(* for, what a file holds and what becomes of it, it can go on.            *)
NeverStuck ==
    /\ pc \in {"look1", "look2", "look3", "load", "ready"} => ENABLED <<Progress>>_vars
    /\ by = "scm" /\ pc = "args" =>
         IF mode = "service" THEN ENABLED <<Progress>>_vars
                             ELSE ENABLED <<by = "scm" /\ ModeArgument>>_vars
    /\ by = "scm" /\ pc \in {"path", "port", "pause"} => ENABLED <<by = "scm" /\ Questions>>_vars

(* A process the SCM started becomes the service or ends: no question that  *)
(* nobody can answer holds it up.                                          *)
UnattendedEnds == by = "scm" /\ pc = "args" ~> pc \in {"service", "none"}
=============================================================================
