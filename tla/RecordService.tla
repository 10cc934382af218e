--------------------------- MODULE RecordService ---------------------------
(***************************************************************************)
(* What a client of the HTTP API may rely on while ExpressD works on the   *)
(* same tables, with no driver, file, route or row loop in it.  A request  *)
(* takes effect at one moment between its arrival and its answer or, when   *)
(* it is answered with an error, never.  A write touches the rows it       *)
(* selects and no other row.  Nothing is done or read for a request without *)
(* the key.  A record in an answer is one that was asked for and was in    *)
(* the table it is attributed to at some moment since the request arrived; *)
(* and a record that was asked for and could be read at every moment since *)
(* then is in the answer, if the answer promises all of them: an export's,  *)
(* and a search's for a document, "not found" included.                    *)
(*                                                                         *)
(* Two of these promises are smaller than what the documents say.  A       *)
(* document is searched for in the tables whose names are Known; one that  *)
(* is in another table is not found (API.md:274: "all DBF files").  And of *)
(* a request that has a Quoted value in it little is promised: it may      *)
(* touch and answer other rows of the table it names (README.md:327:       *)
(* "Parameterized queries").                                               *)
(***************************************************************************)
EXTENDS Naturals

CONSTANTS Tables, Slots, Docnums, All, Requests, NoRequest, NoRow,
    Known,      \* the tables that are searched for a document
    Quoted      \* the docnums with an apostrophe in them

VARIABLES
    table,      \* table -> slot -> the row in it
    request,    \* the request being served
    verdict,    \* "none" until it is decided; "absent": nothing was found
    rows,       \* the records of the answer: <<table, docnum>>
    effects,    \* writes carried out for the request
    seen,       \* what has been in the tables since the request arrived
    lasting     \* what could be read in them at every moment since

vars == <<table, request, verdict, rows, effects, seen, lasting>>

Row == [docnum: Docnums, deleted: BOOLEAN]
Contents == [Tables -> [Slots -> Row \cup {NoRow}]]

\* The records of some contents of the tables.
Records(contents) ==
    {p \in Tables \X Docnums :
        \E s \in Slots : contents[p[1]][s] # NoRow /\ contents[p[1]][s].docnum = p[2]}

Init ==
    /\ table \in Contents
    /\ request = NoRequest
    /\ verdict = "none"
    /\ rows = {}
    /\ effects = 0
    /\ seen = {}
    /\ lasting = {}

Submit ==
    /\ request = NoRequest
    /\ request' \in Requests
    /\ seen' = Records(table)
    /\ lasting' \in SUBSET Records(table)
    /\ UNCHANGED <<table, verdict, rows, effects>>

\* Whether its values mean to the driver what they mean to the client.
Meant(r) == r.where \notin Quoted /\ r.value \notin Quoted

Concerns(r, row) == row # NoRow /\ (r.where = All \/ row.docnum = r.where)

\* What a write may do to the table it names: no row is ever erased, and only
\* one that is added takes a slot.
Written(r, before, after) ==
    \/ /\ r.op = "add"
       /\ \E s \in Slots, row \in Row :
            /\ before[s] = NoRow
            /\ after = [before EXCEPT ![s] = row]
            /\ Meant(r) => row = [docnum |-> r.value, deleted |-> FALSE]
    \/ /\ r.op \in {"update", "delete", "undelete"}
       /\ \A s \in Slots :
            /\ after[s] = NoRow <=> before[s] = NoRow
            /\ Meant(r) =>
                 after[s] = IF ~Concerns(r, before[s]) THEN before[s]
                            ELSE [docnum  |-> IF r.op = "update" THEN r.value ELSE before[s].docnum,
                                  deleted |-> IF r.op = "update" THEN before[s].deleted
                                                                 ELSE r.op = "delete"]

Write ==
    /\ request # NoRequest /\ verdict = "none" /\ request.form = "good"
    /\ \E after \in [Slots -> Row \cup {NoRow}] :
        /\ Written(request, table[request.table], after)
        /\ table' = [table EXCEPT ![request.table] = after]
    /\ verdict' = "success"
    /\ effects' = effects + 1
    /\ seen' = seen \cup Records(table')
    /\ lasting' \in SUBSET (lasting \cap Records(table'))
    /\ UNCHANGED <<request, rows>>

Reads == {"json", "csv", "search", "view", "find"}

Consulted(r) == IF r.op = "find" THEN Known ELSE {r.table}

\* "search" and "view" end after some rows.
AskedFor(r, records) ==
    {p \in records : /\ r.op \in Reads
                     /\ r.where = All \/ p[2] = r.where
                     /\ p[1] \in Consulted(r)}

Complete(r) == r.op \in {"json", "csv", "find"} /\ Meant(r)

\* The records that may be answered.
Answerable(r, records) ==
    IF Meant(r) THEN AskedFor(r, records)
    ELSE {p \in Tables \X Docnums : r.op \in Reads /\ p[1] \in Consulted(r)}

\* A read fails on some tables and says so, or does not count them.
Read ==
    /\ request # NoRequest /\ verdict = "none"
    /\ request.op \notin {"add", "update", "delete", "undelete"}
    /\ request.op = "health" \/ request.form # "unauthorised"
    /\ rows' \in SUBSET Answerable(request, seen)
    /\ lasting' \in SUBSET lasting
    /\ Complete(request) => AskedFor(request, lasting') \subseteq rows'
    /\ verdict' = IF request.op = "find" /\ rows' = {} THEN "absent" ELSE "success"
    /\ UNCHANGED <<table, request, effects, seen>>

Refuse ==
    /\ request # NoRequest /\ verdict = "none"
    /\ verdict' = "error"
    /\ lasting' \in SUBSET lasting
    /\ UNCHANGED <<table, request, rows, effects, seen>>

Respond ==
    /\ verdict # "none"
    /\ request' = NoRequest
    /\ verdict' = "none"
    /\ rows' = {}
    /\ effects' = 0
    /\ seen' = {} /\ lasting' = {}
    /\ UNCHANGED table

\* ExpressD changes the tables at any time, locks and unlocks them; a driver
\* fails to read one to its end.
Foreign ==
    /\ table' \in Contents
    /\ seen' = IF request = NoRequest THEN {} ELSE seen \cup Records(table')
    /\ lasting' \in SUBSET (lasting \cap Records(table'))
    /\ UNCHANGED <<request, verdict, rows, effects>>

Next == Submit \/ Write \/ Read \/ Refuse \/ Respond \/ Foreign

Spec == Init /\ [][Next]_vars

-----------------------------------------------------------------------------
(* What follows for the client that holds an answer.                       *)

(* An error has changed nothing.  A write that succeeded was carried out   *)
(* once, one that did not was not, and nothing is carried out or read for  *)
(* a request without the key.  Unless it has a Quoted value, what is        *)
(* answered was asked for and was there; a complete answer has all that    *)
(* was there throughout, and what is said to be absent was not throughout  *)
(* in a table that is searched.                                            *)
AnswerIsRight ==
    IF verdict = "none" THEN effects = 0 /\ rows = {}
    ELSE /\ request # NoRequest
         /\ verdict = "error" => effects = 0 /\ rows = {}
         /\ effects = IF /\ verdict # "error"
                        /\ request.op \in {"add", "update", "delete", "undelete"} THEN 1 ELSE 0
         /\ request.form = "unauthorised" => effects = 0 /\ rows = {}
         /\ rows \subseteq Answerable(request, seen)
         /\ verdict # "error" /\ Complete(request) => AskedFor(request, lasting) \subseteq rows
         /\ verdict = "absent" /\ Meant(request) => AskedFor(request, lasting) = {}
=============================================================================
