--------------------------- MODULE Startup_proofs ---------------------------
(***************************************************************************)
(* Machine-checked proofs of the safety of Startup, for any folders, any    *)
(* contents of the files and whatever is typed.                            *)
(***************************************************************************)
EXTENDS Startup, TLAPS

-----------------------------------------------------------------------------
(* The strengthening: what is known of the configuration where main()      *)
(* stands.                                                                 *)

\* A file that was loaded and passed.
FromFile ==
    /\ origin = "file" /\ config \in FileConfigs
    /\ config.database # Empty /\ config.key # Empty /\ config.port \in 1024..MaxPort

\* What the setup has made, at a console.
FromSetup ==
    /\ origin = "setup" /\ by = "user" /\ ~Given
    /\ folder \in Folders
    /\ \E port \in 1..MaxPort : config = DefaultConfig(folder, port)

Sourced ==
    /\ pc \in {"ready", "console", "service"} => FromFile \/ FromSetup
    /\ Given => pc \in {"none", "args", "load", "ready", "console", "service"}
    /\ pc = "load" => path # "none"
    /\ pc = "port" => by = "user" /\ folder \in Folders
    /\ pc = "service" => by = "scm"
    /\ by = "scm" /\ pc \notin {"none", "args"} => mode = "service"

IInv == TypeOK /\ Sourced

-----------------------------------------------------------------------------
LEMMA MaxPortTyped == MaxPort \in Int /\ 8080 <= MaxPort
  BY DEF MaxPort

(* Whatever is typed, the setup makes a configuration with a port.         *)
LEMMA ChosenPort ==
  ASSUME NEW port \in Int
  PROVE  Chosen(port) \in 1..MaxPort
  BY MaxPortTyped DEF Chosen, DefaultPort

LEMMA DefaultTyped ==
  ASSUME NEW f \in Folders \cup {Empty}, NEW p \in 1..MaxPort
  PROVE  DefaultConfig(f, p) \in Config
  BY NamesAssumption, MaxPortTyped DEF DefaultConfig, Config

(* A place that holds a configuration holds one of those a file may hold.   *)
LEMMA LoadedTyped ==
  ASSUME TypeOK, NEW place \in Places, files[place] \in Config
  PROVE  files[place] \in FileConfigs
  BY NamesAssumption DEF TypeOK, Contents

LEMMA InitIInv == Init => IInv
  <1> SUFFICES ASSUME Init PROVE IInv
    OBVIOUS
  <1>2. TypeOK
    BY DEF Init, TypeOK, Points, Places, Running
  <1>3. Sourced
    BY DEF Init, Sourced, Given
  <1> QED
    BY <1>2, <1>3 DEF IInv

LEMMA BeginKeepsIInv ==
  ASSUME IInv, Launch \/ Arguments \/ ArgumentsEnd
  PROVE  IInv'
  <1>1. CASE Launch
    BY <1>1 DEF IInv, TypeOK, Sourced, Given, Launch, Fresh, Points, Places, Running
  <1>2. CASE ModeArgument
    BY <1>2 DEF IInv, TypeOK, Sourced, Given, FromFile, FromSetup, DefaultConfig, ModeArgument, Passed,
                Running
  <1>3. CASE CommandArgument
    BY <1>3 DEF IInv, TypeOK, Sourced, Given, CommandArgument, Passed, Running, Points
  <1>4. CASE ConfigArgument
    BY <1>4 DEF IInv, TypeOK, Sourced, Given, ConfigArgument, Passed, Running, Places
  <1>5. CASE ArgumentsEnd
    BY <1>5 DEF IInv, TypeOK, Sourced, Given, ArgumentsEnd, Running, Points
  <1> QED
    BY <1>1, <1>2, <1>3, <1>4, <1>5 DEF Arguments

LEMMA ConfigurationKeepsIInv ==
  ASSUME IInv, Look \/ Load \/ LoadFails
  PROVE  IInv'
  <1>1. CASE Look
    <2>1. pc \in {"look1", "look2", "look3"}
      BY <1>1 DEF Look, AfterLook
    <2>2. ~Given
      BY <2>1 DEF IInv, Sourced, Given
    <2>3. LookedAt[pc] \in Places \ {"given"} /\ AfterLook[pc] \in {"look2", "look3", "path"}
      BY <2>1 DEF LookedAt, AfterLook, SearchPaths, Places
    <2>4. /\ pc' \in {"look2", "look3", "path", "none", "load"}
          /\ path' \in Places \cup {"none"} /\ path' # "given"
          /\ pc' = "load" => path' # "none"
      BY <1>1, <2>2, <2>3 DEF Look, IInv, TypeOK, Given, Places
    <2>5. by' = "scm" => mode' = "service"
      BY <1>1, <2>1 DEF Look, IInv, Sourced
    <2> QED
      BY <1>1, <2>2, <2>4, <2>5 DEF IInv, TypeOK, Sourced, Given, Look, Running, Points
  <1>2. CASE Load
    <2>1. path \in Places /\ config' \in FileConfigs /\ config' = files[path]
      BY <1>2, LoadedTyped DEF IInv, TypeOK, Sourced, Load
    <2>2. config' \in Config
      BY <2>1, ConfigAssumption
    <2>3. CASE Valid(files[path])
      <3>1. pc' = "ready"
        BY <1>2, <2>3 DEF Load
      <3>2. FromFile'
        BY <1>2, <2>1, <2>3 DEF Load, FromFile, Valid
      <3> QED
        BY <1>2, <2>2, <3>1, <3>2 DEF IInv, TypeOK, Sourced, Given, Load, Running, Points
    <2>4. CASE ~Valid(files[path])
      <3>1. pc' = AfterInvalid
        BY <1>2, <2>4 DEF Load
      <3>2. pc' \in {"none", "path"} /\ (Given => pc' = "none")
        BY <3>1 DEF AfterInvalid
      <3> QED
        BY <1>2, <2>2, <3>2 DEF IInv, TypeOK, Sourced, Given, Load, Running, Points
    <2> QED
      BY <2>3, <2>4
  <1>3. CASE LoadFails
    BY <1>3 DEF IInv, TypeOK, Sourced, Given, LoadFails, AfterInvalid, Running, Points
  <1> QED
    BY <1>1, <1>2, <1>3

LEMMA QuestionsKeepIInv ==
  ASSUME IInv, Questions
  PROVE  IInv'
  <1>1. CASE AskPath
    <2>1. ~Given
      BY <1>1 DEF IInv, Sourced, Given, AskPath
    <2>2. folder' \in Folders \cup {Empty} /\ (by = "scm" => folder' = Empty)
      BY <1>1 DEF AskPath
    <2>3. pc' \in {"port", "pause"} /\ (pc' = "port" => folder' \in Folders)
      BY <1>1 DEF AskPath, Answered, AfterBadPath
    <2>4. pc' = "port" => by = "user"
      BY <2>2, <2>3, NamesAssumption DEF IInv, TypeOK
    <2> QED
      BY <1>1, <2>1, <2>2, <2>3, <2>4 DEF IInv, TypeOK, Sourced, Given, AskPath, Running, Points
  <1>2. CASE AskPort
    <2>1. by = "user" /\ folder \in Folders /\ ~Given
      BY <1>2 DEF IInv, Sourced, Given, AskPort
    <2>2. PICK port \in PortAnswers \cup {DefaultPort} :
            config' = DefaultConfig(folder, Chosen(port))
      BY <1>2 DEF AskPort
    <2>3. Chosen(port) \in 1..MaxPort
      BY ConfigAssumption, ChosenPort DEF DefaultPort
    <2>4. config' \in Config
      BY <2>1, <2>2, <2>3, DefaultTyped
    <2>5. FromSetup'
      <3>1. origin' = "setup" /\ UNCHANGED <<by, path, folder>>
        BY <1>2 DEF AskPort
      <3>2. config' = DefaultConfig(folder', Chosen(port))
        BY <2>2, <3>1
      <3> QED
        BY <2>1, <2>3, <3>1, <3>2 DEF FromSetup, Given
    <2> QED
      BY <1>2, <2>1, <2>4, <2>5 DEF IInv, TypeOK, Sourced, Given, AskPort, Running, Points
  <1>3. CASE Pause
    BY <1>3 DEF IInv, TypeOK, Sourced, Given, Pause, Running, Points
  <1> QED
    BY <1>1, <1>2, <1>3 DEF Questions

LEMMA RunKeepsIInv ==
  ASSUME IInv, RunAsConsole \/ RunAsService \/ End
  PROVE  IInv'
  <1>1. CASE RunAsConsole \/ RunAsService
    <2>1. (FromFile \/ FromSetup)'
      BY <1>1 DEF IInv, Sourced, Given, FromFile, FromSetup, DefaultConfig, RunAsConsole, RunAsService
    <2>2. config \in Config
      <3>1. FromFile \/ FromSetup
        BY <1>1 DEF IInv, Sourced, Given, RunAsConsole, RunAsService
      <3>2. CASE FromFile
        BY <3>2, ConfigAssumption DEF FromFile
      <3>3. CASE FromSetup
        BY <3>3, DefaultTyped DEF FromSetup
      <3> QED
        BY <3>1, <3>2, <3>3
    <2> QED
      BY <1>1, <2>1, <2>2 DEF IInv, TypeOK, Sourced, Given, RunAsConsole, RunAsService, Running, Points
  <1>2. CASE End
    BY <1>2 DEF IInv, TypeOK, Sourced, Given, End, Running, Points
  <1> QED
    BY <1>1, <1>2

LEMMA FilesKeepIInv ==
  ASSUME IInv, ChangeFile \/ UNCHANGED vars
  PROVE  IInv'
  <1>1. files' \in [Places -> Contents]
    BY DEF IInv, TypeOK, ChangeFile, vars
  <1>2. UNCHANGED <<by, pc, mode, path, config, folder, origin>>
    BY DEF ChangeFile, vars
  <1> QED
    BY <1>1, <1>2 DEF IInv, TypeOK, Sourced, Given, FromFile, FromSetup, DefaultConfig, Running

LEMMA IInvHolds == Spec => []IInv
  <1>1. IInv /\ [Next]_vars => IInv'
    BY BeginKeepsIInv, ConfigurationKeepsIInv, QuestionsKeepIInv, RunKeepsIInv, FilesKeepIInv
       DEF Next, Progress
  <1> QED
    BY InitIInv, <1>1, PTL DEF Spec

-----------------------------------------------------------------------------
(* Every variable stays in its range.                                      *)
THEOREM TypeCorrect == Spec => []TypeOK
  BY IInvHolds, PTL DEF IInv

(* What runs was taken from one file that passed, or from one setup.       *)
THEOREM ConfigFromOneSourceHolds == Spec => []ConfigFromOneSource
  <1>1. IInv => ConfigFromOneSource
    <2> SUFFICES ASSUME IInv, Running PROVE ConfigFromOneSource
      BY DEF ConfigFromOneSource
    <2>1. FromFile \/ FromSetup
      BY DEF IInv, Sourced, Given, Running
    <2> QED
      BY <2>1 DEF ConfigFromOneSource, FromFile, FromSetup, DefaultConfig
  <1> QED
    BY IInvHolds, <1>1, PTL

(* A file named by --config is used, or nothing runs; a service runs on a  *)
(* file, never on the answers of a setup.                                  *)
THEOREM SetupOnlyWhenAskedHolds == Spec => []SetupOnlyWhenAsked
  <1>1. IInv => SetupOnlyWhenAsked
    BY DEF IInv, Sourced, Given, FromFile, FromSetup, SetupOnlyWhenAsked, Running
  <1> QED
    BY IInvHolds, <1>1, PTL

-----------------------------------------------------------------------------
(* The end of an unattended start.  main() never goes back, so a process of *)
(* the SCM leaves each of these places for good.                           *)

Steps == {"args", "look1", "look2", "look3", "load", "path", "pause", "ready"}
Unattended(place) == by = "scm" /\ pc = place
Arrived == pc \in {"service", "none"}

Beyond == [args |-> {"look1", "load", "none"},
           look1 |-> {"look2", "load", "none"},
           look2 |-> {"look3", "load", "none"},
           look3 |-> {"path", "load", "none"},
           load |-> {"path", "ready", "none"},
           path |-> {"pause", "none"},
           pause |-> {"none"},
           ready |-> {"service", "none"}]

(* Whoever takes a step, a process of the SCM stays one, and stays where it *)
(* is or goes beyond.                                                      *)
LEMMA UnattendedStep ==
  ASSUME IInv, [Next]_vars, NEW place \in Steps, Unattended(place)
  PROVE  /\ by' = "scm"
         /\ \/ pc' = place /\ (mode = "service" => mode' = "service")
            \/ pc' \in Beyond[place]
  <1> USE DEF Unattended, Steps, Beyond
  <1>1. CASE UNCHANGED vars \/ ChangeFile \/ Launch
    BY <1>1 DEF vars, ChangeFile, Launch
  <1>2. CASE Arguments
    BY <1>2 DEF Arguments, ModeArgument, CommandArgument, ConfigArgument, Passed
  <1>3. CASE Questions
    <2>1. CASE AskPath
      <3>1. folder' = Empty
        BY <2>1 DEF AskPath
      <3> QED
        BY <2>1, <3>1, NamesAssumption DEF AskPath, Answered, AfterBadPath
    <2>2. CASE AskPort \/ Pause
      BY <2>2 DEF AskPort, Pause
    <2> QED
      BY <1>3, <2>1, <2>2 DEF Questions
  <1>4. CASE ArgumentsEnd
    BY <1>4 DEF ArgumentsEnd
  <1>5. CASE Look
    BY <1>5 DEF Look, AfterLook
  <1>6. CASE Load \/ LoadFails
    BY <1>6 DEF Load, LoadFails, AfterInvalid
  <1>7. CASE RunAsConsole \/ RunAsService
    BY <1>7 DEF RunAsConsole, RunAsService, IInv, Sourced
  <1>8. CASE End
    BY <1>8 DEF End
  <1> QED
    BY <1>1, <1>2, <1>3, <1>4, <1>5, <1>6, <1>7, <1>8 DEF Next, Progress

(* main() going on, or an answer, takes it away from where it is.          *)
LEMMA UnattendedGoesOn ==
  ASSUME IInv, NEW place \in Steps, Unattended(place), Progress \/ Questions
  PROVE  pc' # place
  <1> USE DEF Unattended, Steps
  <1>1. CASE ArgumentsEnd \/ Load \/ LoadFails \/ RunAsConsole \/ RunAsService
    BY <1>1 DEF ArgumentsEnd, Load, LoadFails, AfterInvalid, RunAsConsole, RunAsService
  <1>2. CASE Look
    BY <1>2 DEF Look, AfterLook
  <1>3. CASE Questions
    BY <1>3 DEF Questions, AskPath, AskPort, Pause, AfterBadPath
  <1> QED
    BY <1>1, <1>2, <1>3 DEF Progress

(* A process the SCM started becomes the service or ends.  A step of main() *)
(* that can be taken is taken: that it can be is NeverStuck, and that each  *)
(* step leads beyond where it was is proved here.                          *)
THEOREM UnattendedEndsHolds == FairSpec /\ []NeverStuck => UnattendedEnds
  <1> DEFINE Console == Unattended("args") /\ mode # "service"
             Service == Unattended("args") /\ mode = "service"
             Given1 == by = "scm" /\ ModeArgument
             Answer == by = "scm" /\ Questions
             At(place) == Unattended(place)
  <1>1. IInv /\ [Next]_vars /\ Console => (Console \/ Service \/ At("look1") \/ At("load") \/ Arrived)'
    BY UnattendedStep DEF Steps, Beyond, Unattended, Arrived
  <1>2. IInv /\ [Next]_vars /\ Service => (Service \/ At("look1") \/ At("load") \/ Arrived)'
    BY UnattendedStep DEF Steps, Beyond, Unattended, Arrived
  <1>3. IInv /\ [Next]_vars /\ At("look1") => (At("look1") \/ At("look2") \/ At("load") \/ Arrived)'
    BY UnattendedStep DEF Steps, Beyond, Unattended, Arrived
  <1>4. IInv /\ [Next]_vars /\ At("look2") => (At("look2") \/ At("look3") \/ At("load") \/ Arrived)'
    BY UnattendedStep DEF Steps, Beyond, Unattended, Arrived
  <1>5. IInv /\ [Next]_vars /\ At("look3") => (At("look3") \/ At("path") \/ At("load") \/ Arrived)'
    BY UnattendedStep DEF Steps, Beyond, Unattended, Arrived
  <1>6. IInv /\ [Next]_vars /\ At("load") => (At("load") \/ At("path") \/ At("ready") \/ Arrived)'
    BY UnattendedStep DEF Steps, Beyond, Unattended, Arrived
  <1>7. IInv /\ [Next]_vars /\ At("path") => (At("path") \/ At("pause") \/ Arrived)'
    BY UnattendedStep DEF Steps, Beyond, Unattended, Arrived
  <1>8. IInv /\ [Next]_vars /\ At("pause") => (At("pause") \/ Arrived)'
    BY UnattendedStep DEF Steps, Beyond, Unattended, Arrived
  <1>9. IInv /\ [Next]_vars /\ At("ready") => (At("ready") \/ Arrived)'
    BY UnattendedStep DEF Steps, Beyond, Unattended, Arrived
  <1>10. Console /\ <<Given1>>_vars => ~Console'
    BY DEF Unattended, ModeArgument, Passed
  <1>11. IInv /\ <<Progress>>_vars => /\ Service => ~Service'
                                      /\ At("look1") => ~At("look1")'
                                      /\ At("look2") => ~At("look2")'
                                      /\ At("look3") => ~At("look3")'
                                      /\ At("load") => ~At("load")'
                                      /\ At("ready") => ~At("ready")'
    BY UnattendedGoesOn DEF Steps, Unattended
  <1>12. IInv /\ <<Answer>>_vars => (At("path") => ~At("path")') /\ (At("pause") => ~At("pause")')
    BY UnattendedGoesOn DEF Steps, Unattended
  <1>13. NeverStuck => /\ Console => ENABLED <<Given1>>_vars
                       /\ Service \/ At("look1") \/ At("look2") \/ At("look3") \/ At("load") \/ At("ready")
                            => ENABLED <<Progress>>_vars
                       /\ At("path") \/ At("pause") => ENABLED <<Answer>>_vars
    BY DEF NeverStuck, Unattended
  <1>14. FairSpec => Spec /\ WF_vars(Progress) /\ WF_vars(Given1) /\ WF_vars(Answer)
    BY PTL DEF FairSpec
  <1>15. UnattendedEnds <=> ((Console \/ Service) ~> Arrived)
    <2>1. by = "scm" /\ pc = "args" <=> Console \/ Service
      BY DEF Unattended
    <2> QED
      BY <2>1, PTL DEF UnattendedEnds, Arrived
  <1> HIDE DEF Console, Service, Given1, Answer, At
  <1> QED
    BY <1>1, <1>2, <1>3, <1>4, <1>5, <1>6, <1>7, <1>8, <1>9, <1>10, <1>11, <1>12, <1>13, <1>14, <1>15,
       IInvHolds, PTL DEF Spec
=============================================================================
