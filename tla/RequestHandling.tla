-------------------------- MODULE RequestHandling --------------------------
(***************************************************************************)
(* What the server thread does with one request: handleRequest() and the   *)
(* handlers of src/src/HttpServer.cpp, and the operations of               *)
(* src/src/DatabaseManager.cpp they call, while ExpressD works on the same *)
(* DBF files.  Requests are served one at a time; every access to the      *)
(* database folder (a file test, an SQL statement) is a step of its own.   *)
(*                                                                         *)
(* A table is a file of the folder; the first ones have the six names that *)
(* findByDocnum() knows, in the order in which it searches them.  A row is *)
(* its docnum and its "deleted" column.  A statement is atomic: the driver *)
(* carries it out or fails it.  It is put together from the values of the  *)
(* request as they are, so that one with an apostrophe in a value is not   *)
(* the statement that was meant: it fails, or does anything that one       *)
(* statement of its kind can do to the table it names.                     *)
(***************************************************************************)
EXTENDS Naturals

CONSTANTS
    NumTables,      \* the DBF files
    NumKnown,       \* the first ones, whose names findByDocnum() knows
    Named,          \* those that requests name: some of them or all
    Slots,          \* where the rows of a table are
    NoRow,          \* an empty slot
    Docnums,
    Quoted,         \* those with an apostrophe in them
    All,            \* a where clause that is {} or null: every row
    Nothing,        \* a field the request does not have
    NoRequest,
    FetchMayFail,   \* may SQLFetch() fail before the last row?
    MaxForeign      \* bound on the steps of ExpressD (for TLC)

Tables == 1..NumTables

Known == 1..NumKnown

ASSUME TablesAssumption ==
    NumTables \in Nat \ {0} /\ NumKnown \in 0..NumTables /\ Named \subseteq Tables
ASSUME NamesAssumption ==
    /\ Quoted \subseteq Docnums
    /\ All \notin Docnums /\ Nothing \notin Docnums \cup {All}
    /\ NoRow \notin [docnum: Docnums, deleted: BOOLEAN]
    /\ FetchMayFail \in BOOLEAN /\ MaxForeign \in Nat

VARIABLES
    table,          \* table -> slot -> row
    present,        \* the tables whose DBF file exists
    indexed,        \* the tables whose CDX file exists
    locked,         \* the tables the driver cannot work on: locked by ExpressD
    foreign,        \* steps of ExpressD (bounded)
    pc,             \* where the server thread is
    request,        \* the request it serves
    next,           \* findByDocnum(): the table to read next
    rows,           \* the records it has read: <<table, docnum>>
    answer,         \* the response
    effects,        \* history: writes carried out for the request
    seen,           \* history: records that were in a table since it arrived
    lasting         \* history: records that could be read in a table ever since

folder == <<table, present, indexed, locked, foreign>>
local == <<request, next, rows>>
history == <<effects, seen, lasting>>
vars == <<folder, pc, local, answer, history>>

-----------------------------------------------------------------------------
(* Requests and responses.                                                 *)

Row == [docnum: Docnums, deleted: BOOLEAN]

Reads == {"json", "csv", "search", "view"}
Marks == {"delete", "undelete"}
Writes == {"add", "update"} \cup Marks
Ops == Reads \cup Writes \cup {"health", "find", "pack", "reindex", "status", "unrouted"}

\* "badname": a file name that sanitizeFilename() throws on.
Forms == {"good", "unauthorised", "unparsable", "badname"}

AllRequests == [op: Ops, form: Forms, table: Tables,
                where: Docnums \cup {All, Nothing}, value: Docnums \cup {Nothing}]

ASSUME RequestAssumption == NoRequest \notin AllRequests

\* The fields an operation has no use for are not told apart.
Requests ==
    {r \in AllRequests :
        /\ IF r.op \in {"health", "unrouted", "find", "pack", "reindex"} \/ r.form # "good"
           THEN r.table = 1 ELSE r.table \in Named
        /\ r.form # "good" => /\ r.value = Nothing
                              /\ r.where \in Docnums => r.op \in {"find", "search"}
        /\ IF r.op \in {"json", "csv", "search"} THEN r.where # Nothing
           ELSE IF r.op = "find" THEN r.where \in Docnums
           ELSE IF r.op = "view" THEN r.where = All
           ELSE r.op \in Marks \cup {"update"} \/ r.where = Nothing
        /\ r.op \in {"add", "update"} \/ r.value = Nothing
        /\ r.op \in {"health", "unrouted", "find"} => r.form # "badname"}

Statuses == {"success", "error"}
IndexFields == {"ok", "pending", "failed", "none"}
Answers == [code: {200, 401, 404, 500}, status: Statuses, index: IndexFields]
NoAnswer == [code |-> 200, status |-> "none", index |-> "none"]

Places == {"idle", "route", "execute", "scan", "respond"}

TypeOK ==
    /\ table \in [Tables -> [Slots -> Row \cup {NoRow}]]
    /\ present \subseteq Tables /\ indexed \subseteq Tables /\ locked \subseteq Tables
    /\ foreign \in Nat
    /\ pc \in Places
    /\ request \in AllRequests \cup {NoRequest}
    /\ pc # "idle" => request \in AllRequests
    /\ next \in 1..NumKnown + 1
    /\ rows \subseteq Tables \X Docnums
    /\ answer \in Answers \cup {NoAnswer}
    /\ (pc = "respond") = (answer # NoAnswer)
    /\ effects \in Nat
    /\ seen \subseteq Tables \X Docnums
    /\ lasting \subseteq Tables \X Docnums

\* A folder with every file in it, empty, and nobody at work.  startApplication()
\* gives up without a connection, so the handlers always have one.
Init ==
    /\ table = [t \in Tables |-> [s \in Slots |-> NoRow]]
    /\ present = Tables /\ indexed = Tables /\ locked = {}
    /\ foreign = 0
    /\ pc = "idle"
    /\ request = NoRequest
    /\ next = 1
    /\ rows = {}
    /\ answer = NoAnswer
    /\ effects = 0
    /\ seen = {}
    /\ lasting = {}
-----------------------------------------------------------------------------
(* The history variables follow the tables while a request is served.      *)

Records(contents) ==
    {p \in Tables \X Docnums :
        \E s \in Slots : contents[p[1]][s] # NoRow /\ contents[p[1]][s].docnum = p[2]}

Readable(contents, tables) == {p \in Records(contents) : p[1] \in tables}

Observe ==
    /\ seen' = IF pc = "idle" THEN {} ELSE seen \cup Records(table')
    /\ lasting' = lasting \cap Readable(table', present' \ locked')

\* A table is not read to its end.
ReadOf(t, found, all) ==
    lasting' = IF found = all THEN lasting ELSE {p \in lasting : p[1] # t}

-----------------------------------------------------------------------------
(* handleRequest(): the routes that need no table.                         *)

Receive ==
    /\ pc = "idle"
    /\ pc' = "route"
    /\ request' \in Requests
    /\ next' = 1
    /\ seen' = Records(table)
    /\ lasting' = Readable(table, present \ locked)
    /\ UNCHANGED <<folder, rows, answer, effects>>

Answer(code, status, index) ==
    /\ pc' = "respond"
    /\ answer' = [code |-> code, status |-> status, index |-> index]

Is(ops) == pc = "route" /\ request.form = "good" /\ request.op \in ops

NoAccess == UNCHANGED <<folder, local, history>>

\* /health is answered before the key is looked at, and before the body is.
Health ==
    /\ pc = "route" /\ request.op = "health"
    /\ Answer(200, "success", "ok")
    /\ NoAccess

Unauthorised ==
    /\ pc = "route" /\ request.op # "health" /\ request.form = "unauthorised"
    /\ Answer(401, "error", "ok")
    /\ NoAccess

\* json::parse() throws inside the try block that also guards the handlers.
Unparsable ==
    /\ pc = "route" /\ request.op # "health" /\ request.form = "unparsable"
    /\ Answer(500, "error", "ok")
    /\ NoAccess

\* What the catch blocks of DatabaseManager and the handlers make of a result
\* that is not a success: the undelete handler says "ok" whatever happened,
\* and reindex() leaves its field uninitialised.
FailedAnswer(r, index) ==
    IF r.op = "view" THEN Answer(200, "error", "none")
    ELSE IF r.op = "reindex" THEN \E any \in {"ok", "pending", "failed"} : Answer(200, "error", any)
    ELSE Answer(IF r.op = "csv" THEN 500 ELSE 200, "error",
                IF r.op \in Writes \cup {"pack"} /\ r.op # "undelete" THEN index ELSE "ok")

\* The pattern of the search route ends with the file name and regex_match()
\* wants the whole target to match: a search with a query matches no route.
Routed(r) == r.op # "unrouted" /\ (r.op = "search" => r.where = All)

\* Unless the query ends in ".dbf" as well: then it is taken for a part of the
\* name, of a file that does not exist.
QueryIsName ==
    /\ pc = "route" /\ request.form \in {"good", "badname"}
    /\ request.op = "search" /\ ~Routed(request)
    /\ FailedAnswer(request, "ok")
    /\ NoAccess

NotFound ==
    /\ pc = "route" /\ request.op # "health" /\ request.form \in {"good", "badname"}
    /\ ~Routed(request)
    /\ Answer(404, "error", "ok")
    /\ NoAccess

Incomplete(r) == r.op \in Marks \cup {"update"} /\ r.where = Nothing

MissingClause ==
    /\ pc = "route" /\ request.form \in {"good", "badname"} /\ Incomplete(request)
    /\ Answer(200, "error", "ok")
    /\ NoAccess

BadName ==
    /\ pc = "route" /\ request.form = "badname"
    /\ request.op \in Reads \cup Writes \cup {"pack", "reindex"}
    /\ Routed(request) /\ ~Incomplete(request)
    /\ FailedAnswer(request, "failed")
    /\ NoAccess

\* checkIndexHealth() only looks for the CDX file.
IndexHealth(r) == IF r.form = "badname" THEN "failed"
                  ELSE IF r.table \in indexed THEN "ok" ELSE "pending"

\* The handler says "success" whatever it finds.
Status ==
    /\ pc = "route" /\ request.op = "status" /\ request.form \in {"good", "badname"}
    /\ Answer(200, "success", IndexHealth(request))
    /\ NoAccess

\* pack() and reindex() refuse, whether the file exists or not.
NeedsExclusive ==
    /\ Is({"pack", "reindex"})
    /\ FailedAnswer(request, "ok")
    /\ NoAccess

FileMissing ==
    /\ Is(Reads \cup Writes) /\ Routed(request) /\ ~Incomplete(request)
    /\ request.table \notin present
    /\ FailedAnswer(request, "ok")
    /\ NoAccess

FileExists ==
    /\ Is(Reads \cup Writes) /\ Routed(request) /\ ~Incomplete(request)
    /\ request.table \in present
    /\ pc' = "execute"
    /\ UNCHANGED <<folder, local, answer, history>>

-----------------------------------------------------------------------------
(* executeSQL(): the one statement of an operation on a table.             *)

Workable(t) == t \in present \ locked

\* The statement is not the one that was meant.
Misquoted(r) == r.where \in Quoted \/ r.value \in Quoted

FilterForgotten(row, where) == row # NoRow      \* a mutation of Matches

\* buildWhereClause() makes no clause of an empty object.
Matches(row, where) == row # NoRow /\ (where = All \/ row.docnum = where)

\* A mutation of Changed: the mark is turned over.
Toggled(r, row) ==
    IF r.op = "update" THEN [row EXCEPT !.docnum = r.value]
    ELSE [row EXCEPT !.deleted = ~row.deleted]

\* The columns an UPDATE sets, and the soft delete with its reverse.
Changed(r, row) ==
    IF r.op = "update" THEN [row EXCEPT !.docnum = r.value]
    ELSE [row EXCEPT !.deleted = (r.op = "delete")]

\* What is left of a table's rows.
Edited(r, contents) ==
    [s \in Slots |-> IF Matches(contents[s], r.where) THEN Changed(r, contents[s])
                                                      ELSE contents[s]]

\* What an UPDATE may leave of them.
Left(r, contents) ==
    IF Misquoted(r)
    THEN {after \in [Slots -> Row \cup {NoRow}] :
            \A s \in Slots : after[s] = NoRow <=> contents[s] = NoRow}
    ELSE {Edited(r, contents)}

\* The rows an INSERT may add.
Added(r) == IF Misquoted(r) THEN Row ELSE {[docnum |-> r.value, deleted |-> FALSE]}

Edit(contents) ==
    /\ table' = [table EXCEPT ![request.table] = contents]
    /\ effects' = effects + 1
    /\ UNCHANGED <<present, indexed, locked, foreign, local>>
    /\ Observe
    /\ Answer(200, "success", "ok")

Insert ==
    /\ pc = "execute" /\ request.op = "add" /\ request.value # Nothing
    /\ Workable(request.table)
    /\ \E s \in Slots, row \in Added(request) :
        /\ table[request.table][s] = NoRow
        /\ Edit([table[request.table] EXCEPT ![s] = row])

Update ==
    /\ pc = "execute" /\ request.op \in Marks \cup {"update"}
    /\ request.op = "update" => request.value # Nothing
    /\ Workable(request.table)
    /\ \E contents \in Left(request, table[request.table]) : Edit(contents)

\* The rows of one table a SELECT returns.  The loop ends at the first
\* SQLFetch() that is not SQL_SUCCESS, be it the last row or an error.
Selected(t, where) ==
    {p \in {t} \X Docnums :
        \E s \in Slots : Matches(table[t][s], where) /\ table[t][s].docnum = p[2]}

Fetched(t, where) ==
    IF where \in Quoted THEN SUBSET ({t} \X Docnums)
    ELSE IF FetchMayFail THEN SUBSET Selected(t, where) ELSE {Selected(t, where)}

\* A CSV file, an HTML page and what is found for a docnum have no index field.
ReadAnswer(status) ==
    Answer(200, status, IF request.op \in {"csv", "view", "find"} THEN "none" ELSE "ok")

Limited(r) == r.op \in {"search", "view"}       \* SELECT TOP n

\* A page without a row says "Error".
Empty(r, found) == r.op = "view" /\ found = {}

Select ==
    /\ pc = "execute" /\ request.op \in Reads
    /\ Workable(request.table)
    /\ \/ rows' \in Fetched(request.table, request.where)
       \/ Limited(request) /\ rows' \in SUBSET Selected(request.table, request.where)
    /\ ReadOf(request.table, rows', Selected(request.table, request.where))
    /\ ReadAnswer(IF Empty(request, rows') THEN "error" ELSE "success")
    /\ UNCHANGED <<folder, request, next, effects, seen>>

\* Column values come as bytes of the machine's code page: dump() throws on
\* those that are not UTF-8, and the request ends in the outer catch block.
SelectUnprintable ==
    /\ pc = "execute" /\ request.op \in Reads \ {"view"}
    /\ Workable(request.table)
    /\ Misquoted(request) \/ Selected(request.table, request.where) # {}
    /\ Answer(500, "error", "ok")
    /\ NoAccess

\* A statement fails on a table the driver cannot work on, when it is not
\* proper SQL (no columns, an apostrophe in a value; TOP without ORDER BY, which
\* the driver may refuse),
\* when a row does not fit in the file, and when no row matches, where a driver
\* may return SQL_NO_DATA.
Fails(r) ==
    \/ ~Workable(r.table)
    \/ r.op \in {"add", "update"} /\ r.value = Nothing
    \/ r.op = "add" /\ NoRow \notin {table[r.table][s] : s \in Slots}
    \/ Limited(r) \/ Misquoted(r)
    \/ r.op \in Marks \cup {"update"} /\ Selected(r.table, r.where) = {}

StatementFails ==
    /\ pc = "execute" /\ Fails(request)
    /\ FailedAnswer(request, "pending")
    /\ NoAccess

-----------------------------------------------------------------------------
(* findByDocnum(): one SELECT for each of the six names, and what cannot   *)
(* be read is passed over.                                                 *)

Find ==
    /\ Is({"find"})
    /\ pc' = "scan"
    /\ UNCHANGED <<folder, local, answer, history>>

Scan ==
    /\ pc = "scan" /\ next <= NumKnown
    /\ Workable(next)
    /\ \E found \in Fetched(next, request.where) :
        /\ rows' = rows \cup found
        /\ ReadOf(next, found, Selected(next, request.where))
    /\ next' = next + 1
    /\ UNCHANGED <<folder, pc, request, answer, effects, seen>>

ScanPast ==
    /\ pc = "scan" /\ next <= NumKnown
    /\ ~Workable(next) \/ Misquoted(request)
    /\ next' = next + 1
    /\ UNCHANGED <<folder, pc, request, rows, answer, history>>

Found ==
    /\ pc = "scan" /\ next > NumKnown
    /\ ReadAnswer(IF rows = {} THEN "error" ELSE "success")
    /\ NoAccess

FoundUnprintable ==
    /\ pc = "scan" /\ next > NumKnown /\ rows # {}
    /\ Answer(500, "error", "ok")
    /\ NoAccess

-----------------------------------------------------------------------------
(* The response is written, and the next request read.                     *)

RowsKept == rows                            \* a mutation of FreshRows
FreshRows == {}

ResponseKept == answer                      \* a mutation of FreshResponse
FreshResponse == NoAnswer

Respond ==
    /\ pc = "respond"
    /\ pc' = "idle"
    /\ request' = NoRequest
    /\ next' = 1
    /\ rows' = FreshRows
    /\ answer' = FreshResponse
    /\ effects' = 0 /\ seen' = {} /\ lasting' = {}
    /\ UNCHANGED <<folder>>

-----------------------------------------------------------------------------
(* ExpressD, and whoever copies or removes files.                          *)

\* What the steps of ExpressD have in common.
ForeignStep ==
    /\ foreign < MaxForeign
    /\ foreign' = foreign + 1
    /\ Observe
    /\ UNCHANGED <<pc, local, answer, effects>>

ForeignEdit ==
    /\ \E t \in present, s \in Slots, row \in Row \cup {NoRow} :
        table' = [table EXCEPT ![t][s] = row]
    /\ UNCHANGED <<present, indexed, locked>>
    /\ ForeignStep

\* A document moves on: its row leaves one table for another.
ForeignMove ==
    /\ \E t, u \in present, s, free \in Slots :
        /\ t # u /\ table[t][s] # NoRow /\ table[u][free] = NoRow
        /\ table' = [table EXCEPT ![t][s] = NoRow, ![u][free] = table[t][s]]
    /\ UNCHANGED <<present, indexed, locked>>
    /\ ForeignStep

ForeignLock ==
    /\ \E t \in Tables : locked' \in {locked \cup {t}, locked \ {t}}
    /\ UNCHANGED <<table, present, indexed>>
    /\ ForeignStep

ForeignFiles ==
    /\ \E t \in Tables :
        \/ /\ present' = present \ {t}
           /\ table' = [table EXCEPT ![t] = [s \in Slots |-> NoRow]]
           /\ UNCHANGED indexed
        \/ /\ present' = present \cup {t}
           /\ UNCHANGED <<table, indexed>>
        \/ /\ indexed' \in {indexed \cup {t}, indexed \ {t}}
           /\ UNCHANGED <<table, present>>
    /\ UNCHANGED locked
    /\ ForeignStep

-----------------------------------------------------------------------------

Server ==
    \/ Receive \/ Health \/ Unauthorised \/ Unparsable \/ NotFound \/ QueryIsName \/ MissingClause
    \/ BadName \/ Status \/ NeedsExclusive \/ FileMissing \/ FileExists
    \/ Insert \/ Update \/ Select \/ SelectUnprintable \/ StatementFails
    \/ Find \/ Scan \/ ScanPast \/ Found \/ FoundUnprintable \/ Respond

Foreign == ForeignEdit \/ ForeignMove \/ ForeignLock \/ ForeignFiles

Next == Server \/ Foreign

Spec == Init /\ [][Next]_vars

-----------------------------------------------------------------------------
(* Properties.                                                             *)

\* "Document not found" is the only error of a find with code 200.
Verdict ==
    IF answer.status = "error" /\ answer.code = 200 /\ request.op = "find"
    THEN "absent" ELSE answer.status
AnsweredRows == IF answer.status = "success" THEN rows ELSE {}

Served == INSTANCE RecordService WITH verdict <- Verdict, rows <- AnsweredRows

\* However ExpressD works on the tables meanwhile, a request takes effect at one
\* moment between its arrival and its response, or is answered with an error and
\* has changed nothing; no row a write does not select is touched, none is
\* erased; a record is only answered if it was asked for and was in the table it
\* is attributed to while the request was served; and one that was asked for and
\* could be read all the while is not missing from an export, nor is its document
\* said not to be found if it is in one of the tables that are searched.  What is
\* left of that for a request with an apostrophe in a value: it is one statement,
\* on the table it names, that erases no row.
ImplementsRecordService == Served!Spec

\* A client whose response was lost may ask again: an update, delete or undelete
\* that is carried out twice leaves the table as it was after the first time, if its
\* values have no apostrophe in them.
RepeatChangesNothing ==
    pc = "execute" /\ request.op \in Marks \cup {"update"} /\ ~Misquoted(request) =>
        LET once == Edited(request, table[request.table])
        IN  Edited(request, once) = once
=============================================================================
