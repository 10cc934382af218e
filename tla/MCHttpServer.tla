---------------------------- MODULE MCHttpServer ----------------------------
(* HttpServer on small instances, and what the documents say of it.        *)
EXTENDS HttpServer

(* OPERATIONS.md:244-248: after pending requests (10 seconds at most) the  *)
(* shutdown goes on, so stop() returns.                                    *)
StopReturns == owner = "join" ~> owner = "idle"

(* ARCHITECTURE.md:144 and :462: a client's error is answered, the server  *)
(* goes on: while running_ is set its thread is there.                     *)
ServesWhileRunning == running => server # "none"
=============================================================================
