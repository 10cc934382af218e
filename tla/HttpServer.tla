----------------------------- MODULE HttpServer -----------------------------
(***************************************************************************)
(* The server thread of src/src/HttpServer.cpp (start, stop, run), its     *)
(* owner, and the clients that connect to it.  run() serves one connection *)
(* at a time with blocking calls: accept, read a request, handle it, write *)
(* the response, test running_ again.  Any exception ends the function     *)
(* and leaves running_ as it is.                                           *)
(*                                                                         *)
(* What handleRequest() does with a request is not looked into: it answers, *)
(* or an exception leaves its own catch block.                             *)
(***************************************************************************)
EXTENDS Integers, Sequences

CONSTANTS
    Clients,        \* each connects at most once
    NoClient,       \* nobody is being served
    MayMisbehave,   \* may clients hang up, or send what is not a request?
    StartMayFail,   \* may there be no thread to be had, or no free port?
    MaxStarts       \* bound on the calls of start() (for TLC; not in the code)

ASSUME ClientAssumption == NoClient \notin Clients
ASSUME SwitchAssumption ==
    MayMisbehave \in BOOLEAN /\ StartMayFail \in BOOLEAN /\ MaxStarts \in Nat

VARIABLES
    running,        \* running_
    owner,          \* where the owner's call of stop() is
    server,         \* where the server thread is
    current,        \* the connection in socket
    backlog,        \* connections accept() has not returned yet (operating system)
    input,          \* client -> what it has sent
    result,         \* client -> how its connection ended
    starts,         \* calls of start() that were made (bounded)
    executed,       \* history: clients whose request handleRequest() carried out
    late            \* history: connections accepted since running_ was cleared

vars == <<running, owner, server, current, backlog, input, result, starts, executed, late>>
clients == <<input, result>>

OwnerStates == {"idle", "join"}

ServerStates ==
    {"none",        \* no thread, or run() has returned
     "bind",        \* about to open the acceptor
     "test",        \* about to test running_
     "accept", "read", "handle", "write"}

\* "garbled": a request whose body is neither JSON nor UTF-8; "broken": what is
\* not HTTP; "gone": a request whose sender has left.
Inputs == {"nothing", "request", "garbled", "broken", "gone"}
Results == {"open", "answered", "reset"}

TypeOK ==
    /\ running \in BOOLEAN
    /\ owner \in OwnerStates
    /\ server \in ServerStates
    /\ current \in Clients \cup {NoClient}
    /\ server \in {"read", "handle", "write"} => current \in Clients
    /\ backlog \in Seq(Clients)
    /\ input \in [Clients -> Inputs]
    /\ result \in [Clients -> Results]
    /\ starts \in Nat
    /\ executed \subseteq Clients
    /\ late \in Nat

Init ==
    /\ running = FALSE
    /\ owner = "idle"
    /\ server = "none"
    /\ current = NoClient
    /\ backlog = <<>>
    /\ input = [c \in Clients |-> "nothing"]
    /\ result = [c \in Clients |-> "open"]
    /\ starts = 0
    /\ executed = {}
    /\ late = 0

-----------------------------------------------------------------------------
(* The owner.  start() while running_ is set, and stop() while it is not,  *)
(* return at once.                                                         *)

Start ==
    /\ owner = "idle" /\ ~running /\ starts < MaxStarts
    /\ running' = TRUE
    /\ server' = "bind"
    /\ starts' = starts + 1
    /\ late' = 0
    /\ UNCHANGED <<owner, current, backlog, clients, executed>>

\* The constructor of the thread throws out of start(), which has set running_.
StartThrows ==
    /\ StartMayFail
    /\ owner = "idle" /\ ~running /\ starts < MaxStarts
    /\ running' = TRUE
    /\ starts' = starts + 1
    /\ late' = 0
    /\ UNCHANGED <<owner, server, current, backlog, clients, executed>>

Stop ==
    /\ owner = "idle" /\ running
    /\ running' = FALSE
    /\ owner' = "join"
    /\ UNCHANGED <<server, current, backlog, clients, starts, executed, late>>

JoinForgotten == TRUE                       \* a mutation of Joinable
Joinable == server = "none"

\* Nothing interrupts an accept() or a read() that is blocked.
StopJoin ==
    /\ owner = "join" /\ Joinable
    /\ owner' = "idle"
    /\ UNCHANGED <<running, server, current, backlog, clients, starts, executed, late>>

-----------------------------------------------------------------------------
(* The server thread.                                                      *)

InBacklog(c) == \E i \in 1..Len(backlog) : backlog[i] = c

\* run() returns: its acceptor and its socket are closed, and with them every
\* connection in the backlog and the one being served, unless it is answered.
Return(served) ==
    /\ server' = "none"
    /\ result' = [c \in Clients |-> IF InBacklog(c) \/ c \in served THEN "reset" ELSE result[c]]
    /\ backlog' = <<>>
    /\ current' = NoClient
    /\ UNCHANGED <<running, owner, input, starts, late>>

Bind ==
    /\ server = "bind"
    /\ server' = "test"
    /\ UNCHANGED <<running, owner, current, backlog, clients, starts, executed, late>>

BindFails ==
    /\ StartMayFail
    /\ server = "bind"
    /\ Return({})
    /\ UNCHANGED executed

EndlessLoop == TRUE                         \* a mutation of KeepRunning
KeepRunning == running

LoopTest ==
    /\ server = "test" /\ KeepRunning
    /\ server' = "accept"
    /\ UNCHANGED <<running, owner, current, backlog, clients, starts, executed, late>>

LoopEnds ==
    /\ server = "test" /\ ~KeepRunning
    /\ Return({})
    /\ UNCHANGED executed

Accept ==
    /\ server = "accept" /\ backlog # <<>>
    /\ current' = Head(backlog)
    /\ backlog' = Tail(backlog)
    /\ server' = "read"
    /\ late' = IF running THEN late ELSE late + 1
    /\ UNCHANGED <<running, owner, clients, starts, executed>>

\* The next connection was reset before it could be accepted.  (An accept() that
\* fails of itself, for want of memory or sockets, is left out.)
AcceptThrows ==
    /\ server = "accept" /\ backlog # <<>> /\ input[Head(backlog)] = "gone"
    /\ Return({})
    /\ UNCHANGED executed

\* http::read returns with a whole request, also when its sender has left.
Read ==
    /\ server = "read" /\ input[current] \in {"request", "garbled", "gone"}
    /\ server' = "handle"
    /\ UNCHANGED <<running, owner, current, backlog, clients, starts, executed, late>>

\* A mutation of ReadThrows: only an end of the connection is an error.
BrokenIgnored == server = "read" /\ input[current] = "gone" /\ Return({current}) /\ UNCHANGED executed

\* ... or throws: not HTTP, longer than the parser's limit, or cut off.
ReadThrows ==
    /\ server = "read" /\ input[current] \in {"broken", "gone"}
    /\ Return({current})
    /\ UNCHANGED executed

Handle ==
    /\ server = "handle" /\ input[current] # "garbled"
    /\ server' = "write"
    /\ executed' = executed \cup {current}
    /\ UNCHANGED <<running, owner, current, backlog, clients, starts, late>>

\* The 500 response quotes the body it could not parse, and does not serialise.
HandleThrows ==
    /\ server = "handle" /\ input[current] = "garbled"
    /\ Return({current})
    /\ UNCHANGED executed

OnceOnly == "none"                          \* a mutation of AfterWrite
AfterWrite == "test"

\* keep_alive(false): the socket is closed at the end of the loop's body.
Write ==
    /\ server = "write"
    /\ server' = AfterWrite
    /\ result' = [result EXCEPT ![current] = IF input[current] = "gone" THEN "reset" ELSE "answered"]
    /\ current' = NoClient
    /\ UNCHANGED <<running, owner, backlog, input, starts, executed, late>>

WriteThrows ==
    /\ server = "write" /\ input[current] = "gone"
    /\ Return({current})
    /\ UNCHANGED executed

-----------------------------------------------------------------------------
(* The clients.                                                            *)

Listening == server \notin {"none", "bind"}
Connected(c) == result[c] = "open" /\ (c = current \/ InBacklog(c))

Connect(c) ==
    /\ Listening /\ result[c] = "open" /\ ~Connected(c)
    /\ backlog' = Append(backlog, c)
    /\ UNCHANGED <<running, owner, server, current, clients, starts, executed, late>>

Send(c, what) ==
    /\ Connected(c) /\ input[c] = "nothing"
    /\ input' = [input EXCEPT ![c] = what]
    /\ UNCHANGED <<running, owner, server, current, backlog, result, starts, executed, late>>

\* Sends a request and leaves without waiting for the answer.
HangUp(c) ==
    /\ MayMisbehave
    /\ Connected(c) /\ input[c] = "request"
    /\ input' = [input EXCEPT ![c] = "gone"]
    /\ UNCHANGED <<running, owner, server, current, backlog, result, starts, executed, late>>

-----------------------------------------------------------------------------
ServerStep ==
    \/ Bind \/ BindFails \/ LoopTest \/ LoopEnds \/ Accept \/ AcceptThrows
    \/ Read \/ ReadThrows \/ Handle \/ HandleThrows \/ Write \/ WriteThrows

ClientStep ==
    \E c \in Clients :
        \/ Connect(c)
        \/ Send(c, "request")
        \/ MayMisbehave /\ Send(c, "garbled")
        \/ MayMisbehave /\ Send(c, "broken")
        \/ HangUp(c)

Next == Start \/ StartThrows \/ Stop \/ StopJoin \/ ServerStep \/ ClientStep

Spec == Init /\ [][Next]_vars

\* The client that is being served sends its request.
Ask == \E c \in Clients : c = current /\ Send(c, "request")

\* The server thread runs whenever it is not blocked, and a client that the
\* server reads from sends its request sooner or later.  Nobody has to connect.
FairSpec == Spec /\ WF_vars(ServerStep) /\ WF_vars(StopJoin) /\ WF_vars(Ask)

-----------------------------------------------------------------------------
(* Properties.                                                             *)

(* stop() cannot wake accept(): one connection is still served after       *)
(* running_ was cleared, and never a second one: what                      *)
(* ImplementsStoppableThread rests on.                                     *)
AtMostOneLate == late <= 1

(* Once stop() has returned no request is in progress, no connection is    *)
(* held, and every request that was carried out for a client that waited   *)
(* for it was answered.                                                    *)
QuietAfterStop ==
    owner = "idle" /\ ~running =>
        /\ server = "none" /\ backlog = <<>>
        /\ \A c \in executed : input[c] = "request" => result[c] = "answered"

(* Whoever is waited for can go on: the thread, but where it waits for      *)
(* somebody to connect or to send; that client; and stop(), but for its    *)
(* join.  Whatever a client has sent or left, read() returns or throws.    *)
NeverStuck ==
    /\ server \in {"bind", "test", "handle", "write"} => ENABLED <<ServerStep>>_vars
    /\ server = "accept" /\ backlog # <<>> => ENABLED <<ServerStep>>_vars
    /\ server = "read" => IF input[current] = "nothing" THEN ENABLED <<Ask>>_vars
                                                       ELSE ENABLED <<ServerStep>>_vars
    /\ owner = "join" /\ server = "none" => ENABLED <<StopJoin>>_vars

\* So far nobody has hung up or sent what is not a request.
WellBehaved == \A c \in Clients : input[c] \in {"nothing", "request"}

(* As long as all clients behave well, a connection made while the server  *)
(* runs is answered: the loop neither ends nor passes a waiting client     *)
(* over.                                                                   *)
Served ==
    \A c \in Clients :
        []((Connected(c) /\ [](running /\ WellBehaved)) => <>(result[c] = "answered"))

(* stop() returns when somebody connects to a server that waits in          *)
(* accept() meanwhile, whatever that client and the others send.           *)
StopReturnsOnceMet ==
    (owner = "join" /\ server = "accept" ~> backlog # <<>>) => (owner = "join" ~> owner = "idle")

(* The server keeps the promise of StoppableThread: stop() returns when    *)
(* the thread has gone, and a thread that has passed the condition of its  *)
(* loop takes one more connection, whether run() ends by it or throws.     *)
Part == INSTANCE StoppableThread WITH
    flag <- running, thread <- server # "none", stopping <- owner = "join",
    working <- server \in {"read", "handle", "write"},
    last <- ~running /\ server = "accept"

ImplementsStoppableThread == Part!Spec
=============================================================================
