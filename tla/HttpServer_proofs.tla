-------------------------- MODULE HttpServer_proofs --------------------------
(***************************************************************************)
(* Machine-checked proofs about HttpServer, for every set of clients,      *)
(* well-behaved or not.                                                    *)
(***************************************************************************)
EXTENDS HttpServer, SequenceTheorems, TLAPS

-----------------------------------------------------------------------------
(* Sequence facts.                                                         *)

LEMMA Joined ==
  ASSUME backlog \in Seq(Clients), NEW c \in Clients, backlog' = Append(backlog, c)
  PROVE  /\ backlog' \in Seq(Clients)
         /\ Len(backlog) \in Nat
         /\ Len(backlog') = Len(backlog) + 1
         /\ \A i \in 1..Len(backlog) : backlog'[i] = backlog[i]
         /\ backlog'[Len(backlog) + 1] = c
  BY AppendProperties, LenProperties

LEMMA Accepted ==
  ASSUME backlog \in Seq(Clients), backlog # <<>>, backlog' = Tail(backlog)
  PROVE  /\ backlog' \in Seq(Clients)
         /\ Head(backlog) \in Clients
         /\ Head(backlog) = backlog[1]
         /\ Len(backlog) \in Nat \ {0}
         /\ Len(backlog') = Len(backlog) - 1
         /\ \A i \in 1..Len(backlog') : backlog'[i] = backlog[i + 1]
  <1>1. Len(backlog) \in Nat \ {0}
    BY EmptySeq
  <1>2. Head(backlog) = backlog[1]
    OBVIOUS
  <1> QED
    BY <1>1, <1>2, HeadTailProperties

-----------------------------------------------------------------------------
(* Type correctness.                                                       *)

(* What the end of run() leaves, whichever connections it cuts.            *)
LEMMA ReturnKeepsType ==
  ASSUME TypeOK, NEW served, Return(served), UNCHANGED executed
  PROVE  TypeOK'
  <1>1. result' \in [Clients -> Results]
    BY DEF TypeOK, Return, Results
  <1>2. backlog' \in Seq(Clients)
    BY DEF Return
  <1> QED
    BY <1>1, <1>2 DEF TypeOK, Return, ServerStates

LEMMA TypeInit == Init => TypeOK
  <1> SUFFICES ASSUME Init
               PROVE  TypeOK
    OBVIOUS
  <1>1. input \in [Clients -> Inputs] /\ result \in [Clients -> Results]
    BY DEF Init, Inputs, Results
  <1>2. backlog \in Seq(Clients)
    BY DEF Init
  <1> QED
    BY <1>1, <1>2 DEF Init, TypeOK, OwnerStates, ServerStates

LEMMA TypeStep ==
  ASSUME TypeOK, [Next]_vars
  PROVE  TypeOK'
  <1>1. CASE UNCHANGED vars
    BY <1>1 DEF vars, TypeOK
  <1>2. CASE Start \/ StartThrows
    <2>1. CASE Start
      BY <2>1 DEF Start, clients, TypeOK, ServerStates
    <2>2. CASE StartThrows
      BY <2>2 DEF StartThrows, clients, TypeOK, ServerStates
    <2> QED
      BY <1>2, <2>1, <2>2
  <1>3. CASE Stop \/ StopJoin
    BY <1>3 DEF Stop, StopJoin, clients, TypeOK, OwnerStates
  <1>4. CASE Bind \/ LoopTest \/ Read
    BY <1>4 DEF Bind, LoopTest, Read, clients, TypeOK, ServerStates
  <1>5. CASE BindFails \/ LoopEnds \/ AcceptThrows \/ ReadThrows \/ HandleThrows \/ WriteThrows
    BY <1>5, ReturnKeepsType DEF BindFails, LoopEnds, AcceptThrows, ReadThrows, HandleThrows, WriteThrows
  <1>6. CASE Accept
    <2>1. backlog' \in Seq(Clients) /\ current' \in Clients
      BY <1>6, Accepted DEF Accept, TypeOK
    <2>2. late' \in Nat
      BY <1>6 DEF Accept, TypeOK
    <2> QED
      BY <1>6, <2>1, <2>2 DEF Accept, clients, TypeOK, ServerStates
  <1>7. CASE Handle
    BY <1>7 DEF Handle, clients, TypeOK, ServerStates
  <1>8. CASE Write
    <2>1. result' \in [Clients -> Results]
      BY <1>8 DEF Write, TypeOK, Results
    <2> QED
      BY <1>8, <2>1 DEF Write, AfterWrite, TypeOK, ServerStates
  <1>9. ASSUME NEW c \in Clients, Connect(c)
        PROVE  TypeOK'
    <2>1. backlog' \in Seq(Clients)
      BY <1>9, Joined DEF Connect, TypeOK
    <2> QED
      BY <1>9, <2>1 DEF Connect, clients, TypeOK
  <1>10. ASSUME NEW c \in Clients, NEW what \in Inputs, Send(c, what)
         PROVE  TypeOK'
    BY <1>10 DEF Send, TypeOK
  <1>11. ASSUME NEW c \in Clients, HangUp(c)
         PROVE  TypeOK'
    BY <1>11 DEF HangUp, TypeOK, Inputs
  <1>12. {"request", "garbled", "broken"} \subseteq Inputs
    BY DEF Inputs
  <1> QED
    BY <1>1, <1>2, <1>3, <1>4, <1>5, <1>6, <1>7, <1>8, <1>9, <1>10, <1>11, <1>12
       DEF Next, ServerStep, ClientStep

(* Every reachable state is well typed; in particular the thread never     *)
(* reads, handles or writes without a connection.                          *)
THEOREM TypeCorrect == Spec => []TypeOK
  BY TypeInit, TypeStep, PTL DEF Spec

-----------------------------------------------------------------------------
(* Connections accepted late.                                              *)

\* While running_ is set, and whenever the thread is about to accept, none
\* has been accepted late.
LateInv ==
    /\ late \in {0, 1}
    /\ running \/ server = "accept" => late = 0

(* stop() lets at most one more connection in, whatever the clients do.    *)
THEOREM AtMostOneLateHolds == Spec => []AtMostOneLate
  <1>1. Init => LateInv
    BY DEF Init, LateInv
  <1>2. LateInv /\ [Next]_vars => LateInv'
    <2> SUFFICES ASSUME LateInv, [Next]_vars
                 PROVE  LateInv'
      OBVIOUS
    <2> USE DEF LateInv
    <2>1. CASE UNCHANGED vars
      BY <2>1 DEF vars
    <2>2. CASE Start \/ StartThrows \/ Stop \/ StopJoin
      BY <2>2 DEF Start, StartThrows, Stop, StopJoin
    <2>3. CASE Bind \/ Read \/ Handle \/ Write
      BY <2>3 DEF Bind, Read, Handle, Write, AfterWrite
    <2>4. CASE LoopTest
      BY <2>4 DEF LoopTest, KeepRunning
    <2>5. CASE BindFails \/ LoopEnds \/ AcceptThrows \/ ReadThrows \/ HandleThrows \/ WriteThrows
      BY <2>5 DEF BindFails, LoopEnds, AcceptThrows, ReadThrows, HandleThrows, WriteThrows, Return
    <2>6. CASE Accept
      BY <2>6 DEF Accept
    <2>7. CASE ClientStep
      BY <2>7 DEF ClientStep, Connect, Send, HangUp
    <2> QED
      BY <2>1, <2>2, <2>3, <2>4, <2>5, <2>6, <2>7 DEF Next, ServerStep
  <1>3. LateInv => AtMostOneLate
    BY DEF LateInv, AtMostOneLate
  <1> QED
    BY <1>1, <1>2, <1>3, PTL DEF Spec

-----------------------------------------------------------------------------
(* What stop() leaves behind.                                              *)

Busy == server \in {"read", "handle", "write"}

\* The join separates stop() from the thread.
StopInv ==
    /\ owner = "idle" /\ ~running => server = "none"
    /\ owner = "join" => ~running
    /\ server \in {"none", "bind"} => backlog = <<>>

\* A waiting connection is there once, open, and not yet served.
WaitInv ==
    /\ \A i, j \in 1..Len(backlog) : backlog[i] = backlog[j] => i = j
    /\ \A c \in Clients : InBacklog(c) => result[c] = "open" /\ c \notin executed /\ c # current

\* The connection being served is open; its request is carried out in Handle.
ServeInv ==
    /\ ~Busy => current = NoClient
    /\ Busy => current \in Clients /\ result[current] = "open"
    /\ server \in {"read", "handle"} => current \notin executed
    /\ server \in {"handle", "write"} => input[current] # "nothing"

\* A request that was carried out has its answer or is about to get it.
AnswerInv ==
    \A c \in executed :
        /\ input[c] # "nothing"
        /\ \/ server = "write" /\ c = current
           \/ result[c] # "open" /\ (input[c] = "request" => result[c] = "answered")

IInv == StopInv /\ WaitInv /\ ServeInv /\ AnswerInv

(* The end of run() cuts only connections that were not carried out, or    *)
(* whose client has gone.                                                  *)
LEMMA ReturnIsQuiet ==
  ASSUME TypeOK, IInv, UNCHANGED executed,
         \/ server \in {"bind", "test", "accept"} /\ Return({})
         \/ server \in {"read", "handle"} /\ Return({current})
         \/ server = "write" /\ input[current] = "gone" /\ Return({current})
  PROVE  IInv'
  <1> USE ClientAssumption DEF IInv
  <1>1. /\ server' = "none" /\ backlog' = <<>> /\ current' = NoClient
        /\ UNCHANGED <<running, owner, input, executed>>
    BY DEF Return
  <1>2. StopInv' /\ WaitInv' /\ ServeInv'
    <2>1. Len(backlog') = 0
      BY <1>1
    <2> QED
      BY <1>1, <2>1 DEF StopInv, WaitInv, ServeInv, InBacklog, Busy
  <1>3. ASSUME NEW c \in executed
        PROVE  /\ input'[c] # "nothing"
               /\ result'[c] # "open" /\ (input'[c] = "request" => result'[c] = "answered")
    <2>1. c \in Clients /\ ~InBacklog(c)
      BY <1>3 DEF TypeOK, WaitInv
    <2>2. CASE c = current
      <3>1. server = "write" /\ input[current] = "gone" /\ Return({current})
        BY <1>3, <2>1, <2>2 DEF ServeInv, Busy
      <3>2. result'[c] = "reset"
        BY <2>1, <2>2, <3>1 DEF Return
      <3> QED
        BY <1>1, <2>2, <3>1, <3>2
    <2>3. CASE c # current
      <3>1. result'[c] = result[c]
        BY <2>1, <2>3 DEF Return
      <3> QED
        BY <1>1, <1>3, <2>3, <3>1 DEF AnswerInv
    <2> QED
      BY <2>2, <2>3
  <1> QED
    BY <1>1, <1>2, <1>3 DEF AnswerInv

LEMMA QuietStep ==
  ASSUME TypeOK, IInv, [Next]_vars
  PROVE  IInv'
  <1> USE ClientAssumption DEF IInv
  <1>1. CASE UNCHANGED vars
    BY <1>1 DEF vars, StopInv, WaitInv, ServeInv, AnswerInv, InBacklog, Busy
  <1>2. CASE Start \/ StartThrows \/ Stop \/ StopJoin
    <2>1. /\ UNCHANGED <<current, backlog, input, result, executed>>
          /\ server' = server \/ (server' = "bind" /\ server = "none")
      BY <1>2 DEF Start, StartThrows, Stop, StopJoin, clients, StopInv
    <2>2. StopInv'
      BY <1>2, <2>1 DEF Start, StartThrows, Stop, StopJoin, Joinable, StopInv
    <2> QED
      BY <2>1, <2>2 DEF WaitInv, ServeInv, AnswerInv, InBacklog, Busy
  <1>3. CASE Bind \/ LoopTest
    <2>1. /\ UNCHANGED <<running, owner, current, backlog, input, result, executed>>
          /\ server \in {"bind", "test"} /\ server' \in {"test", "accept"}
      BY <1>3 DEF Bind, LoopTest, clients
    <2> QED
      BY <2>1 DEF StopInv, WaitInv, ServeInv, AnswerInv, InBacklog, Busy
  <1>4. CASE BindFails \/ LoopEnds \/ AcceptThrows \/ ReadThrows \/ HandleThrows \/ WriteThrows
    BY <1>4, ReturnIsQuiet DEF BindFails, LoopEnds, AcceptThrows, ReadThrows, HandleThrows, WriteThrows
  <1>5. CASE Accept
    <2>1. /\ Len(backlog) \in Nat \ {0} /\ Len(backlog') = Len(backlog) - 1
          /\ current' = backlog[1] /\ current' \in Clients
          /\ \A i \in 1..Len(backlog') : backlog'[i] = backlog[i + 1]
      BY <1>5, Accepted DEF Accept, TypeOK
    <2>2. /\ server = "accept" /\ server' = "read"
          /\ UNCHANGED <<running, owner, input, result, executed>>
      BY <1>5 DEF Accept, clients
    <2>3. InBacklog(current')
      BY <2>1 DEF InBacklog
    <2>4. \A i \in 1..Len(backlog') : i + 1 \in 1..Len(backlog) /\ i + 1 # 1
      BY <2>1
    <2>5. \A c \in Clients : InBacklog(c)' => InBacklog(c) /\ c # current'
      BY <2>1, <2>4 DEF InBacklog, WaitInv
    <2>6. \A i, j \in 1..Len(backlog') : backlog'[i] = backlog'[j] => i = j
      <3> SUFFICES ASSUME NEW i \in 1..Len(backlog'), NEW j \in 1..Len(backlog'),
                          backlog'[i] = backlog'[j]
                   PROVE  i = j
        OBVIOUS
      <3>1. i + 1 = j + 1
        BY <2>1, <2>4 DEF WaitInv
      <3> QED
        BY <3>1
    <2>7. WaitInv'
      BY <2>2, <2>5, <2>6 DEF WaitInv
    <2>8. ServeInv'
      BY <2>1, <2>2, <2>3 DEF WaitInv, ServeInv, Busy
    <2>9. AnswerInv'
      BY <2>2 DEF AnswerInv
    <2> QED
      BY <2>2, <2>7, <2>8, <2>9 DEF StopInv
  <1>6. CASE Read
    <2>1. /\ UNCHANGED <<running, owner, current, backlog, input, result, executed>>
          /\ server = "read" /\ server' = "handle" /\ input[current] # "nothing"
      BY <1>6 DEF Read, clients
    <2> QED
      BY <2>1 DEF StopInv, WaitInv, ServeInv, AnswerInv, InBacklog, Busy
  <1>7. CASE Handle
    <2>1. /\ UNCHANGED <<running, owner, current, backlog, input, result>>
          /\ server = "handle" /\ server' = "write"
          /\ executed' = executed \cup {current} /\ current \in Clients
      BY <1>7 DEF Handle, clients, ServeInv, Busy
    <2>2. WaitInv'
      BY <2>1 DEF WaitInv, InBacklog
    <2>3. AnswerInv'
      BY <2>1 DEF AnswerInv, ServeInv
    <2> QED
      BY <2>1, <2>2, <2>3 DEF StopInv, ServeInv, Busy
  <1>8. CASE Write
    <2>1. /\ UNCHANGED <<running, owner, backlog, input, executed>>
          /\ server = "write" /\ server' = "test" /\ current' = NoClient
          /\ current \in Clients
      BY <1>8 DEF Write, AfterWrite, ServeInv, Busy
    <2>2. /\ result'[current] = IF input[current] = "gone" THEN "reset" ELSE "answered"
          /\ \A c \in Clients : c # current => result'[c] = result[c]
      BY <1>8, <2>1 DEF Write, TypeOK
    <2>3. WaitInv'
      BY <2>1, <2>2 DEF WaitInv, InBacklog
    <2>4. AnswerInv'
      BY <2>1, <2>2 DEF AnswerInv, TypeOK
    <2> QED
      BY <2>1, <2>3, <2>4 DEF StopInv, ServeInv, Busy
  <1>9. ASSUME NEW c \in Clients, Connect(c)
        PROVE  IInv'
    <2>1. /\ Len(backlog) \in Nat /\ Len(backlog') = Len(backlog) + 1
          /\ \A i \in 1..Len(backlog) : backlog'[i] = backlog[i]
          /\ backlog'[Len(backlog) + 1] = c
      BY <1>9, Joined DEF Connect, TypeOK
    <2>2. /\ server \notin {"none", "bind"} /\ result[c] = "open" /\ c # current /\ ~InBacklog(c)
          /\ UNCHANGED <<running, owner, server, current, input, result, executed>>
      BY <1>9 DEF Connect, Listening, Connected, clients
    <2>3. 1..Len(backlog') = 1..Len(backlog) \cup {Len(backlog) + 1}
      BY <2>1
    <2>4. \A d \in Clients : InBacklog(d)' => InBacklog(d) \/ d = c
      BY <2>1, <2>3 DEF InBacklog
    <2>5. \A i, j \in 1..Len(backlog') : backlog'[i] = backlog'[j] => i = j
      BY <2>1, <2>2, <2>3 DEF InBacklog, WaitInv
    <2>6. c \notin executed
      BY <2>2 DEF AnswerInv
    <2>7. WaitInv'
      BY <2>2, <2>4, <2>5, <2>6 DEF WaitInv
    <2> QED
      BY <2>2, <2>7 DEF StopInv, ServeInv, AnswerInv, Busy
  <1>10. ASSUME NEW c \in Clients, NEW what \in {"request", "garbled", "broken"}, Send(c, what)
         PROVE  IInv'
    <2>1. /\ UNCHANGED <<running, owner, server, current, backlog, result, executed>>
          /\ input[c] = "nothing" /\ input' = [input EXCEPT ![c] = what]
      BY <1>10 DEF Send
    <2>2. \A d \in Clients : d # c => input'[d] = input[d]
      BY <2>1 DEF TypeOK
    <2>3. input'[c] # "nothing"
      BY <2>1 DEF TypeOK
    <2>4. c \notin executed
      BY <2>1 DEF AnswerInv
    <2>5. AnswerInv'
      BY <2>1, <2>2, <2>4 DEF AnswerInv, TypeOK
    <2>6. ServeInv'
      BY <2>1, <2>2, <2>3 DEF ServeInv, Busy
    <2> QED
      BY <2>1, <2>5, <2>6 DEF StopInv, WaitInv, InBacklog
  <1>11. ASSUME NEW c \in Clients, HangUp(c)
         PROVE  IInv'
    <2>1. /\ UNCHANGED <<running, owner, server, current, backlog, result, executed>>
          /\ input' = [input EXCEPT ![c] = "gone"]
      BY <1>11 DEF HangUp
    <2>2. /\ \A d \in Clients : d # c => input'[d] = input[d]
          /\ input'[c] = "gone"
      BY <2>1 DEF TypeOK
    <2>3. AnswerInv'
      BY <2>1, <2>2 DEF AnswerInv, TypeOK
    <2>4. ServeInv'
      BY <2>1, <2>2 DEF ServeInv, Busy
    <2> QED
      BY <2>1, <2>3, <2>4 DEF StopInv, WaitInv, InBacklog
  <1> QED
    BY <1>1, <1>2, <1>3, <1>4, <1>5, <1>6, <1>7, <1>8, <1>9, <1>10, <1>11
       DEF Next, ServerStep, ClientStep

LEMMA Inductive == Spec => []IInv
  <1>1. Init => IInv
    <2> SUFFICES ASSUME Init
                 PROVE  IInv
      OBVIOUS
    <2>1. Len(backlog) = 0
      BY DEF Init
    <2> QED
      BY <2>1 DEF Init, IInv, StopInv, WaitInv, ServeInv, AnswerInv, InBacklog, Busy
  <1>2. TypeOK /\ IInv /\ [Next]_vars => IInv'
    BY QuietStep
  <1> QED
    BY <1>1, <1>2, TypeCorrect, PTL DEF Spec

(* After stop() the thread is gone, no connection is held, and no request  *)
(* that was carried out is left unanswered.                                *)
THEOREM QuietAfterStopHolds == Spec => []QuietAfterStop
  <1>1. IInv => QuietAfterStop
    BY DEF IInv, StopInv, AnswerInv, QuietAfterStop
  <1> QED
    BY <1>1, Inductive, PTL

-----------------------------------------------------------------------------
(* The promise of StoppableThread.                                         *)

\* All that the promise looks at.
Kept == UNCHANGED <<running, server, owner>>

(* stop() waits for the thread, which takes at most one connection more.   *)
THEOREM ServerIsStoppable == Spec => ImplementsStoppableThread
  <1>1. Init => Part!Init
    BY DEF Init, Part!Init
  <1>2. IInv /\ [Next]_vars => [Part!Next]_(Part!vars)
    <2> SUFFICES ASSUME IInv, [Next]_vars
                 PROVE  [Part!Next]_(Part!vars)
      OBVIOUS
    <2> USE DEF Part!Next, Part!vars
    <2>1. CASE UNCHANGED vars \/ ClientStep
      <3>1. Kept
        BY <2>1 DEF vars, ClientStep, Connect, Send, HangUp, Kept
      <3> QED
        BY <3>1 DEF Kept
    <2>2. CASE Start \/ StartThrows
      <3>1. Part!Start
        BY <2>2 DEF Start, StartThrows, Part!Start, IInv, StopInv
      <3> QED
        BY <3>1
    <2>3. CASE Stop
      <3>1. Part!Clear
        BY <2>3 DEF Stop, Part!Clear
      <3> QED
        BY <3>1
    <2>4. CASE StopJoin
      <3>1. Part!Return
        BY <2>4 DEF StopJoin, Joinable, Part!Return
      <3> QED
        BY <3>1
    <2>5. CASE BindFails \/ LoopEnds \/ AcceptThrows \/ ReadThrows \/ HandleThrows \/ WriteThrows
      <3>1. server # "none" /\ server' = "none" /\ UNCHANGED <<running, owner>>
        BY <2>5 DEF BindFails, LoopEnds, AcceptThrows, ReadThrows, HandleThrows, WriteThrows, Return
      <3>2. Part!Leave
        BY <3>1 DEF Part!Leave
      <3> QED
        BY <3>2
    <2>6. CASE Bind \/ LoopTest \/ Read \/ Handle
      BY <2>6 DEF Bind, LoopTest, KeepRunning, Read, Handle
    <2>7. CASE Accept
      <3>1. Part!Begin
        BY <2>7 DEF Accept, Part!Begin
      <3> QED
        BY <3>1
    <2>8. CASE Write
      <3>1. Part!End
        BY <2>8 DEF Write, AfterWrite, Part!End
      <3> QED
        BY <3>1
    <2> QED
      BY <2>1, <2>2, <2>3, <2>4, <2>5, <2>6, <2>7, <2>8 DEF Next, ServerStep
  <1> QED
    BY <1>1, <1>2, Inductive, PTL DEF Spec, ImplementsStoppableThread, Part!Spec

-----------------------------------------------------------------------------
(* Where the thread stands, for the proofs of what has to happen.          *)

\* "unasked": in read(), and the client has not sent anything.
Phase == IF server = "read" /\ input[current] = "nothing" THEN "unasked" ELSE server
Phases == ServerStates \cup {"unasked"}

LEMMA PhaseMeans ==
  ASSUME TypeOK
  PROVE  /\ Phase = "unasked" => server = "read" /\ input[current] = "nothing"
         /\ Phase = "read" => server = "read" /\ input[current] # "nothing"
         /\ \A place \in ServerStates : Phase = place => server = place
  BY DEF Phase, TypeOK, ServerStates

(* What a client does moves the thread at most to where it can read.       *)
LEMMA ClientsAside ==
  ASSUME TypeOK, ClientStep
  PROVE  /\ UNCHANGED <<running, owner, server, current, result>>
         /\ backlog' = backlog \/ \E c \in Clients : backlog' = Append(backlog, c)
         /\ Phase' = Phase \/ (Phase = "unasked" /\ Phase' = "read")
  <1>1. ASSUME NEW c \in Clients, Connect(c)
        PROVE  /\ UNCHANGED <<running, owner, server, current, result, input>>
               /\ backlog' = Append(backlog, c)
    BY <1>1 DEF Connect, clients
  <1>2. ASSUME NEW c \in Clients, NEW what \in {"request", "garbled", "broken"}, Send(c, what)
        PROVE  /\ UNCHANGED <<running, owner, server, current, result, backlog>>
               /\ input' = [input EXCEPT ![c] = what] /\ what # "nothing"
    BY <1>2 DEF Send
  <1>3. ASSUME NEW c \in Clients, HangUp(c)
        PROVE  /\ UNCHANGED <<running, owner, server, current, result, backlog>>
               /\ input' = [input EXCEPT ![c] = "gone"] /\ input[c] # "nothing"
    BY <1>3 DEF HangUp
  <1>4. server = "read" => current \in Clients
    BY DEF TypeOK
  <1> QED
    BY <1>1, <1>2, <1>3, <1>4 DEF ClientStep, Phase, TypeOK

(* The client that is being served is heard when it sends.                 *)
LEMMA AskIsHeard ==
  ASSUME TypeOK, Ask
  PROVE  Phase = "unasked" => Phase' = "read"
  <1>1. /\ current \in Clients /\ UNCHANGED <<server, current>>
        /\ input' = [input EXCEPT ![current] = "request"]
    BY DEF Ask, Send
  <1>2. input'[current'] = "request"
    BY <1>1 DEF TypeOK
  <1>3. Phase = "unasked" => server' = "read"
    BY <1>1 DEF Phase, TypeOK, ServerStates
  <1> QED
    BY <1>2, <1>3 DEF Phase

(* The thread that takes a step goes somewhere else.                       *)
LEMMA ServerLeaves ==
  ASSUME TypeOK, ServerStep
  PROVE  /\ Phase # "unasked" /\ Phase' # Phase
         /\ server' # server /\ UNCHANGED <<running, owner>>
  <1>1. server' # server /\ UNCHANGED <<running, owner>>
    BY DEF ServerStep, Bind, BindFails, LoopTest, LoopEnds, Accept, AcceptThrows, Read, ReadThrows, Handle, HandleThrows,
       Write, AfterWrite, WriteThrows, Return
  <1>2. server = "read" => input[current] # "nothing"
    BY DEF ServerStep, Bind, BindFails, LoopTest, LoopEnds, Accept, AcceptThrows, Read, ReadThrows, Handle, HandleThrows,
       Write, WriteThrows
  <1> QED
    BY <1>1, <1>2 DEF Phase, TypeOK, ServerStates

-----------------------------------------------------------------------------
(* The end of a stop.                                                      *)

\* Where the thread goes on to once running_ is clear: accept() comes before
\* the last connection, or not at all.
Homewards == [bind |-> {"test", "none"}, test |-> {"none"}, accept |-> {"unasked", "read", "none"},
              unasked |-> {"read"}, read |-> {"handle", "none"}, handle |-> {"write", "none"},
              write |-> {"test", "none"}, none |-> {}]

Joining(phase) == owner = "join" /\ Phase = phase

(* The thread goes home, whatever the clients send and whoever connects.   *)
LEMMA JoinStep ==
  ASSUME TypeOK, IInv, [Next]_vars, NEW phase \in Phases, Joining(phase)
  PROVE  /\ \/ Joining(phase)' \/ (phase = "none" /\ owner' = "idle")
            \/ \E next \in Homewards[phase] : Joining(next)'
         /\ ServerStep => ~Joining(phase)'
         /\ phase = "unasked" /\ Ask => ~Joining(phase)'
         /\ phase = "accept" /\ backlog # <<>> /\ Joining(phase)' => backlog' # <<>>
  <1> USE DEF Joining
  <1>1. ~running /\ (server = "read" => current \in Clients)
    BY DEF IInv, StopInv, TypeOK
  <1>2. /\ ServerStep => ~Joining(phase)'
        /\ phase = "unasked" /\ Ask => ~Joining(phase)'
    BY ServerLeaves, AskIsHeard
  <1>3. CASE UNCHANGED vars
    BY <1>2, <1>3 DEF vars, Phase
  <1>4. CASE StopJoin
    <2>1. phase = "none" /\ owner' = "idle"
      BY <1>4 DEF StopJoin, Joinable, Phase
    <2> QED
      BY <1>2, <2>1
  <1>5. CASE ClientStep
    <2>1. backlog # <<>> => backlog' # <<>>
      <3>1. ASSUME NEW c \in Clients, backlog' = Append(backlog, c)
            PROVE  backlog' # <<>>
        BY <3>1, Joined, EmptySeq DEF TypeOK
      <3> QED
        BY <1>5, <3>1, ClientsAside
    <2>2. "read" \in Homewards["unasked"]
      BY DEF Homewards
    <2> QED
      BY <1>2, <1>5, <2>1, <2>2, ClientsAside
  <1>6. CASE ServerStep
    <2>1. owner' = "join" /\ Phase' # phase
      BY <1>6, ServerLeaves
    <2>2. Phase' \in Homewards[phase]
      <3>1. CASE BindFails \/ LoopEnds \/ AcceptThrows \/ ReadThrows \/ HandleThrows \/ WriteThrows
        <4>1. server' = "none" /\ server \in {"bind", "test", "accept", "read", "handle", "write"}
          BY <3>1 DEF BindFails, LoopEnds, AcceptThrows, ReadThrows, HandleThrows, WriteThrows, Return
        <4>2. phase \in {"bind", "test", "accept", "read", "handle", "write"} /\ Phase' = "none"
          BY <1>6, <4>1, ServerLeaves DEF Phase
        <4> QED
          BY <4>2 DEF Homewards
      <3>2. CASE Accept
        <4>1. phase = "accept" /\ Phase' \in {"unasked", "read"}
          BY <3>2 DEF Accept, Phase
        <4> QED
          BY <4>1 DEF Homewards
      <3>3. CASE Bind \/ Read \/ Handle \/ Write
        <4>1. \/ phase = "bind" /\ Phase' = "test"
              \/ phase = "read" /\ Phase' = "handle"
              \/ phase = "handle" /\ Phase' = "write"
              \/ phase = "write" /\ Phase' = "test"
          BY <3>3 DEF Bind, Read, Handle, Write, AfterWrite, Phase
        <4> QED
          BY <4>1 DEF Homewards
      <3>4. ~LoopTest
        BY <1>1 DEF LoopTest, KeepRunning
      <3> QED
        BY <1>6, <3>1, <3>2, <3>3, <3>4 DEF ServerStep
    <2> QED
      BY <1>2, <2>1, <2>2
  <1>7. ~Start /\ ~StartThrows /\ ~Stop
    BY DEF Start, StartThrows, Stop
  <1> QED
    BY <1>3, <1>4, <1>5, <1>6, <1>7 DEF Next

(* stop() returns if somebody connects to a server that waits for it in    *)
(* accept(), whatever anybody sends, and at once if it waits elsewhere.    *)
THEOREM StopReturnsOnceMetHolds == FairSpec /\ []NeverStuck => StopReturnsOnceMet
  <1> DEFINE Idle == owner = "idle"
             Waited == backlog # <<>>
  <1>1. TypeOK /\ IInv /\ [Next]_vars =>
          /\ Joining("bind") => (Joining("bind") \/ Joining("test") \/ Joining("none"))'
          /\ Joining("accept") => (Joining("accept") \/ Joining("unasked") \/ Joining("read") \/ Joining("none"))'
          /\ Joining("unasked") => (Joining("unasked") \/ Joining("read"))'
          /\ Joining("read") => (Joining("read") \/ Joining("handle") \/ Joining("none"))'
          /\ Joining("handle") => (Joining("handle") \/ Joining("write") \/ Joining("none"))'
          /\ Joining("write") => (Joining("write") \/ Joining("test") \/ Joining("none"))'
          /\ Joining("test") => (Joining("test") \/ Joining("none"))'
          /\ Joining("none") => (Joining("none") \/ Idle)'
          /\ Joining("accept") /\ Waited /\ Joining("accept")' => Waited'
    BY JoinStep DEF Homewards, Phases, ServerStates
  <1>2. TypeOK /\ IInv /\ [Next]_vars /\ <<ServerStep>>_vars =>
          /\ Joining("bind") => ~Joining("bind")'
          /\ Joining("accept") => ~Joining("accept")'
          /\ Joining("read") => ~Joining("read")'
          /\ Joining("handle") => ~Joining("handle")'
          /\ Joining("write") => ~Joining("write")'
          /\ Joining("test") => ~Joining("test")'
    BY JoinStep DEF Phases, ServerStates
  <1>3. TypeOK /\ IInv /\ [Next]_vars /\ <<Ask>>_vars => (Joining("unasked") => ~Joining("unasked")')
    BY JoinStep DEF Phases
  <1>4. <<StopJoin>>_vars => Idle'
    BY DEF StopJoin
  <1>5. TypeOK /\ NeverStuck =>
          /\ Joining("bind") \/ Joining("read") \/ Joining("handle") \/ Joining("write") \/ Joining("test")
               => ENABLED <<ServerStep>>_vars
          /\ Joining("accept") /\ Waited => ENABLED <<ServerStep>>_vars
          /\ Joining("unasked") => ENABLED <<Ask>>_vars
          /\ Joining("none") => ENABLED <<StopJoin>>_vars
    BY PhaseMeans DEF NeverStuck, Joining, ServerStates
  <1>6. TypeOK => (~Idle => Joining("bind") \/ Joining("accept") \/ Joining("unasked") \/ Joining("read")
                         \/ Joining("handle") \/ Joining("write") \/ Joining("test") \/ Joining("none"))
    BY DEF TypeOK, OwnerStates, ServerStates, Joining, Phase
  <1>7. /\ owner = "join" /\ server = "accept" <=> Joining("accept")
        /\ owner = "join" => ~Idle
    BY DEF Joining, Phase
  <1>8. ((Joining("accept") ~> Waited) => (~Idle ~> Idle)) => StopReturnsOnceMet
    BY <1>7, PTL DEF StopReturnsOnceMet
  <1> HIDE DEF Idle, Waited
  <1> QED
    BY <1>1, <1>2, <1>3, <1>4, <1>5, <1>6, <1>8, TypeCorrect, Inductive, PTL DEF FairSpec, Spec

-----------------------------------------------------------------------------
(* What Served rests on, but for the induction over the length of the      *)
(* backlog: the line moves on, and every turn ends with an answer.         *)

\* Client c is the i-th in the backlog.
Waits(c, i) == i \in 1..Len(backlog) /\ backlog[i] = c

\* It has moved on: to the place before, or from the front to its turn.
MovedOn(c, i) == IF i = 1 THEN Busy /\ current = c ELSE Waits(c, i - 1)

\* The premise of Served.
Tended == running /\ WellBehaved

\* Where the thread goes on to while the server runs and the clients behave.
Onwards == [unasked |-> "read", read |-> "handle", handle |-> "write", write |-> "test",
            test |-> "accept"]

InLine(c, i, phase) == Waits(c, i) /\ Phase = phase
Turn(c, phase) == Busy /\ current = c /\ Phase = phase

(* While the server runs and the clients behave, a step is one of the      *)
(* clients or the next one of the loop, which nothing throws out of.       *)
LEMMA TendedStep ==
  ASSUME TypeOK, IInv, Tended, Tended', [Next]_vars, server \notin {"none", "bind"}
  PROVE  \/ /\ UNCHANGED <<server, current, result>>
            /\ backlog' = backlog \/ \E c \in Clients : backlog' = Append(backlog, c)
            /\ Phase' = Phase \/ (Phase = "unasked" /\ Phase' = "read")
         \/ /\ Phase \in DOMAIN Onwards \ {"unasked"} /\ Phase' = Onwards[Phase]
            /\ UNCHANGED backlog
            /\ \/ UNCHANGED <<current, result>> /\ (Busy => Busy')
               \/ Phase = "write" /\ result'[current] = "answered"
         \/ Accept
  <1>1. CASE UNCHANGED vars
    BY <1>1 DEF vars, Phase
  <1>2. CASE ClientStep
    BY <1>2, ClientsAside
  <1>3. CASE ServerStep
    <2>1. /\ Busy => current \in Clients /\ input[current] \in {"nothing", "request"}
          /\ ServerStep => Phase # "unasked"
      BY ServerLeaves DEF IInv, ServeInv, Tended, WellBehaved
    <2>2. CASE LoopTest \/ Read \/ Handle
      <3>1. /\ UNCHANGED <<backlog, current, result>> /\ (Busy => Busy')
            /\ \/ Phase = "test" /\ Phase' = "accept"
               \/ Phase = "read" /\ Phase' = "handle"
               \/ Phase = "handle" /\ Phase' = "write"
        BY <1>3, <2>1, <2>2 DEF LoopTest, Read, Handle, clients, Busy, Phase
      <3> QED
        BY <3>1 DEF Onwards
    <2>3. CASE Write
      <3>1. /\ Phase = "write" /\ Phase' = "test" /\ UNCHANGED backlog
            /\ result'[current] = "answered"
        BY <2>1, <2>3 DEF Write, AfterWrite, Busy, Phase, TypeOK
      <3> QED
        BY <3>1 DEF Onwards
    <2>4. /\ ~Bind /\ ~BindFails
          /\ ~LoopEnds /\ ~AcceptThrows /\ ~ReadThrows /\ ~HandleThrows /\ ~WriteThrows
      <3>1. ~AcceptThrows
        <4>1. backlog # <<>> => Head(backlog) \in Clients
          BY HeadTailProperties DEF TypeOK
        <4> QED
          BY <4>1 DEF AcceptThrows, Tended, WellBehaved
      <3> QED
        BY <2>1, <3>1 DEF Bind, BindFails, LoopEnds, KeepRunning, ReadThrows, HandleThrows, WriteThrows, Tended, Busy
    <2> QED
      BY <1>3, <2>2, <2>3, <2>4 DEF ServerStep
  <1>4. ~Start /\ ~StartThrows /\ ~Stop /\ ~StopJoin
    BY DEF Start, StartThrows, Stop, StopJoin, Tended, IInv, StopInv
  <1> QED
    BY <1>1, <1>2, <1>3, <1>4 DEF Next

(* A waiting client keeps its place, whoever connects, until the next one  *)
(* is accepted and everybody moves on by one.                              *)
LEMMA LineStep ==
  ASSUME TypeOK, IInv, Tended, Tended', [Next]_vars,
         NEW c \in Clients, NEW i \in Nat \ {0}, NEW phase \in Phases, InLine(c, i, phase)
  PROVE  /\ phase \in DOMAIN Onwards \cup {"accept"}
         /\ \/ InLine(c, i, phase)' \/ MovedOn(c, i)'
            \/ phase # "accept" /\ InLine(c, i, Onwards[phase])'
         /\ ServerStep => ~InLine(c, i, phase)'
         /\ phase = "unasked" /\ Ask => ~InLine(c, i, phase)'
  <1>1. backlog \in Seq(Clients) /\ backlog # <<>> /\ Len(backlog) \in Nat /\ i \in 1..Len(backlog)
    <2>1. backlog \in Seq(Clients) /\ i \in 1..Len(backlog)
      BY DEF TypeOK, InLine, Waits
    <2> QED
      BY <2>1, EmptySeq, LenProperties
  <1>2. server \notin {"none", "bind"} /\ Phase = phase
    BY <1>1 DEF IInv, StopInv, InLine
  <1>3. phase \in DOMAIN Onwards \cup {"accept"}
    BY <1>2 DEF Phase, TypeOK, ServerStates, Onwards
  <1>4. /\ ServerStep => ~InLine(c, i, phase)'
        /\ phase = "unasked" /\ Ask => ~InLine(c, i, phase)'
    BY <1>2, ServerLeaves, AskIsHeard DEF InLine
  <1>5. backlog' = backlog \/ (\E d \in Clients : backlog' = Append(backlog, d)) => Waits(c, i)'
    <2>1. ASSUME NEW d \in Clients, backlog' = Append(backlog, d)
          PROVE  Waits(c, i)'
      BY <1>1, <2>1, Joined DEF InLine, Waits
    <2> QED
      BY <2>1 DEF InLine, Waits
  <1>6. Phase = "unasked" /\ Phase' = "read" => Phase' = Onwards[phase]
    BY <1>2 DEF Onwards
  <1>7. CASE Accept
    <2>1. /\ Head(backlog) = backlog[1]
          /\ Len(backlog') = Len(backlog) - 1
          /\ \A j \in 1..Len(backlog') : backlog'[j] = backlog[j + 1]
      BY <1>1, <1>7, Accepted DEF Accept
    <2>2. CASE i = 1
      BY <1>3, <1>4, <1>7, <2>1, <2>2 DEF Accept, MovedOn, InLine, Waits, Busy
    <2>3. CASE i # 1
      <3>1. i - 1 \in 1..Len(backlog') /\ backlog'[i - 1] = backlog[i]
        BY <1>1, <2>1, <2>3
      <3> QED
        BY <1>3, <1>4, <2>3, <3>1 DEF MovedOn, InLine, Waits
    <2> QED
      BY <2>2, <2>3
  <1>8. CASE ~Accept
    <2>1. /\ Waits(c, i)'
          /\ Phase' = phase \/ (phase # "accept" /\ Phase' = Onwards[phase])
      <3>1. "accept" \notin DOMAIN Onwards
        BY DEF Onwards
      <3> QED
        BY <1>2, <1>5, <1>6, <1>8, <3>1, TendedStep
    <2> QED
      BY <1>3, <1>4, <2>1 DEF InLine
  <1> QED
    BY <1>7, <1>8

(* While the server runs and the clients behave, every connection that     *)
(* waits moves on: the first gets its turn, and every other one gets to    *)
(* the place before its own, whoever connects meanwhile.                   *)
THEOREM BacklogMovesOn ==
  FairSpec /\ []NeverStuck =>
    \A c \in Clients : \A i \in Nat \ {0} : []((Waits(c, i) /\ []Tended) => <>MovedOn(c, i))
  <1> SUFFICES ASSUME NEW c \in Clients, NEW i \in Nat \ {0}
               PROVE  FairSpec /\ []NeverStuck => []((Waits(c, i) /\ []Tended) => <>MovedOn(c, i))
    OBVIOUS
  <1> DEFINE In(phase) == InLine(c, i, phase)
             Goal == MovedOn(c, i)
             Waiting == Waits(c, i)
  <1>1. TypeOK /\ IInv /\ Tended /\ Tended' /\ [Next]_vars =>
          /\ In("unasked") => (In("unasked") \/ In("read") \/ Goal)'
          /\ In("read") => (In("read") \/ In("handle") \/ Goal)'
          /\ In("handle") => (In("handle") \/ In("write") \/ Goal)'
          /\ In("write") => (In("write") \/ In("test") \/ Goal)'
          /\ In("test") => (In("test") \/ In("accept") \/ Goal)'
          /\ In("accept") => (In("accept") \/ Goal)'
    BY LineStep DEF Onwards, Phases, ServerStates
  <1>2. TypeOK /\ IInv /\ Tended /\ Tended' /\ [Next]_vars /\ <<ServerStep>>_vars =>
          /\ In("read") => ~In("read")'
          /\ In("handle") => ~In("handle")'
          /\ In("write") => ~In("write")'
          /\ In("test") => ~In("test")'
          /\ In("accept") => ~In("accept")'
    BY LineStep DEF Phases, ServerStates
  <1>3. TypeOK /\ IInv /\ Tended /\ Tended' /\ [Next]_vars /\ <<Ask>>_vars => (In("unasked") => ~In("unasked")')
    BY LineStep DEF Phases
  <1>4. TypeOK /\ NeverStuck =>
          /\ In("read") \/ In("handle") \/ In("write") \/ In("test") \/ In("accept") => ENABLED <<ServerStep>>_vars
          /\ In("unasked") => ENABLED <<Ask>>_vars
    <2>1. TypeOK /\ In("accept") => backlog # <<>>
      BY EmptySeq, LenProperties DEF TypeOK, InLine, Waits
    <2> QED
      BY <2>1, PhaseMeans DEF NeverStuck, InLine, ServerStates
  <1>5. TypeOK /\ IInv =>
          (Waiting => In("unasked") \/ In("read") \/ In("handle") \/ In("write") \/ In("test") \/ In("accept"))
    <2> SUFFICES ASSUME TypeOK, IInv, Waiting
                 PROVE  Phase \in {"unasked", "read", "handle", "write", "test", "accept"}
      BY DEF InLine
    <2>1. backlog # <<>>
      BY EmptySeq, LenProperties DEF TypeOK, Waits
    <2> QED
      BY <2>1 DEF TypeOK, ServerStates, IInv, StopInv, Phase
  <1> HIDE DEF In, Goal, Waiting
  <1>6. FairSpec /\ []NeverStuck => []((Waiting /\ []Tended) => <>Goal)
    BY <1>1, <1>2, <1>3, <1>4, <1>5, TypeCorrect, Inductive, PTL DEF FairSpec, Spec
  <1> QED
    BY <1>6, PTL DEF Waiting, Goal

(* The client being served keeps its turn until it has its answer.         *)
LEMMA TurnStep ==
  ASSUME TypeOK, IInv, Tended, Tended', [Next]_vars,
         NEW c \in Clients, NEW phase \in {"unasked", "read", "handle", "write"}, Turn(c, phase)
  PROVE  /\ \/ Turn(c, phase)' \/ (phase = "write" /\ result'[c] = "answered")
            \/ phase # "write" /\ Turn(c, Onwards[phase])'
         /\ ServerStep => ~Turn(c, phase)'
         /\ phase = "unasked" /\ Ask => ~Turn(c, phase)'
  <1>1. server \notin {"none", "bind"} /\ ~Accept /\ Phase = phase /\ current = c
    BY DEF Turn, Busy, Accept
  <1>2. UNCHANGED server /\ Busy => Busy'
    BY DEF Busy
  <1>3. /\ ServerStep => ~Turn(c, phase)'
        /\ phase = "unasked" /\ Ask => ~Turn(c, phase)'
    BY <1>1, ServerLeaves, AskIsHeard DEF Turn
  <1>4. Onwards["unasked"] = "read" /\ Onwards["write"] = "test"
    BY DEF Onwards
  <1>5. CASE phase = "write" /\ result'[current] = "answered"
    BY <1>1, <1>3, <1>5
  <1>6. CASE ~(phase = "write" /\ result'[current] = "answered")
    <2>1. current' = c /\ Busy' /\ (Phase' = phase \/ Phase' = Onwards[phase])
      BY <1>1, <1>2, <1>4, <1>6, TendedStep DEF Turn
    <2>2. phase = "write" => Phase' = phase
      BY <2>1, <1>4 DEF Busy, Phase
    <2> QED
      BY <1>3, <2>1, <2>2 DEF Turn
  <1> QED
    BY <1>5, <1>6

(* While the server runs and the clients behave, whoever is served gets an *)
(* answer.                                                                 *)
THEOREM TurnsEnd ==
  FairSpec /\ []NeverStuck =>
    \A c \in Clients : []((Busy /\ current = c /\ []Tended) => <>(result[c] = "answered"))
  <1> SUFFICES ASSUME NEW c \in Clients
               PROVE  FairSpec /\ []NeverStuck =>
                        []((Busy /\ current = c /\ []Tended) => <>(result[c] = "answered"))
    OBVIOUS
  <1> DEFINE At(phase) == Turn(c, phase)
             Answered == result[c] = "answered"
             OnTurn == Busy /\ current = c
  <1>1. TypeOK /\ IInv /\ Tended /\ Tended' /\ [Next]_vars =>
          /\ At("unasked") => (At("unasked") \/ At("read"))'
          /\ At("read") => (At("read") \/ At("handle"))'
          /\ At("handle") => (At("handle") \/ At("write"))'
          /\ At("write") => (At("write") \/ Answered)'
    BY TurnStep DEF Onwards
  <1>2. TypeOK /\ IInv /\ Tended /\ Tended' /\ [Next]_vars /\ <<ServerStep>>_vars =>
          /\ At("read") => ~At("read")'
          /\ At("handle") => ~At("handle")'
          /\ At("write") => ~At("write")'
    BY TurnStep
  <1>3. TypeOK /\ IInv /\ Tended /\ Tended' /\ [Next]_vars /\ <<Ask>>_vars => (At("unasked") => ~At("unasked")')
    BY TurnStep
  <1>4. TypeOK /\ NeverStuck =>
          /\ At("read") \/ At("handle") \/ At("write") => ENABLED <<ServerStep>>_vars
          /\ At("unasked") => ENABLED <<Ask>>_vars
    BY PhaseMeans DEF NeverStuck, Turn, ServerStates
  <1>5. OnTurn => At("unasked") \/ At("read") \/ At("handle") \/ At("write")
    BY DEF Turn, Busy, Phase
  <1> HIDE DEF At, Answered, OnTurn
  <1>6. FairSpec /\ []NeverStuck => []((OnTurn /\ []Tended) => <>Answered)
    BY <1>1, <1>2, <1>3, <1>4, <1>5, TypeCorrect, Inductive, PTL DEF FairSpec, Spec
  <1> QED
    BY <1>6, PTL DEF OnTurn, Answered
=============================================================================
