------------------------ MODULE MCIndexMaintenance ------------------------
(* IndexMaintenance on small instances, and what its log says of it.       *)
EXTENDS IndexMaintenance

(* The log line of IndexMaintenance.cpp:107 says the worker waits when a   *)
(* task is there and the window is closed.                                 *)
OutsideWindowWaits ==
    []([](running /\ worker # "absent" /\ queue # <<>> /\ ~windowOpen) => <>(worker = "waiting"))
=============================================================================
