----------------------- MODULE RequestHandling_proofs -----------------------
(***************************************************************************)
(* Machine-checked proofs about RequestHandling, for every number of       *)
(* tables, rows and document numbers, and whatever ExpressD does.          *)
(***************************************************************************)
EXTENDS RequestHandling, TLAPS

USE DEF Statuses, IndexFields, Places

-----------------------------------------------------------------------------
(* The steps that answer without an effect on anything but the response.   *)

Unaffecting(status) ==
    /\ pc \in {"route", "execute", "scan"}
    /\ pc' = "respond"
    /\ answer' \in Answers /\ answer'.status = status
    /\ NoAccess

Failing ==
    \/ Unauthorised \/ Unparsable \/ NotFound \/ QueryIsName \/ MissingClause \/ BadName
    \/ NeedsExclusive \/ FileMissing \/ SelectUnprintable \/ StatementFails
    \/ FoundUnprintable

LEMMA AnswerTyped ==
  ASSUME NEW code \in {200, 401, 404, 500}, NEW status \in Statuses, NEW index \in IndexFields,
         Answer(code, status, index)
  PROVE  /\ pc' = "respond"
         /\ answer' \in Answers
         /\ answer' = [code |-> code, status |-> status, index |-> index]
         /\ answer'.status = status
         /\ answer' # NoAnswer
  BY DEF Answer, Answers, NoAnswer

LEMMA FailedAnswerTyped ==
  ASSUME NEW index \in {"ok", "pending", "failed"}, FailedAnswer(request, index)
  PROVE  pc' = "respond" /\ answer' \in Answers /\ answer'.status = "error"
  <1>1. CASE request.op = "view"
    BY <1>1, AnswerTyped DEF FailedAnswer
  <1>2. CASE request.op = "reindex"
    <2>1. PICK any \in {"ok", "pending", "failed"} : Answer(200, "error", any)
      BY <1>2 DEF FailedAnswer
    <2> QED
      BY <2>1, AnswerTyped
  <1>3. CASE request.op \notin {"view", "reindex"}
    BY <1>3, AnswerTyped DEF FailedAnswer
  <1> QED
    BY <1>1, <1>2, <1>3

LEMMA FailingUnaffecting == Failing => Unaffecting("error")
  <1>1. Unauthorised \/ Unparsable \/ NotFound \/ MissingClause \/ SelectUnprintable
          \/ FoundUnprintable => Unaffecting("error")
    BY AnswerTyped DEF Unauthorised, Unparsable, NotFound, MissingClause, SelectUnprintable,
                       FoundUnprintable, Unaffecting
  <1>2. QueryIsName \/ BadName \/ NeedsExclusive \/ FileMissing \/ StatementFails
          => Unaffecting("error")
    BY FailedAnswerTyped
       DEF QueryIsName, BadName, NeedsExclusive, FileMissing, StatementFails, Is, Unaffecting
  <1> QED
    BY <1>1, <1>2 DEF Failing

LEMMA SucceedingUnaffecting == Health \/ Status => Unaffecting("success")
  <1>1. Health => Unaffecting("success")
    BY AnswerTyped DEF Health, Unaffecting
  <1>2. Status => Unaffecting("success")
    BY AnswerTyped DEF Status, IndexHealth, Unaffecting
  <1> QED
    BY <1>1, <1>2

LEMMA FoundUnaffecting == Found => Unaffecting(IF rows = {} THEN "error" ELSE "success")
  BY AnswerTyped DEF Found, ReadAnswer, Unaffecting

(* The actions, grouped by what they can change.                           *)
LEMMA NextCases ==
  Next => \/ Receive \/ Failing \/ Health \/ Status \/ Found
          \/ FileExists \/ Find \/ Insert \/ Update \/ Select \/ Scan \/ ScanPast
          \/ Respond \/ Foreign
  BY DEF Next, Server, Failing

-----------------------------------------------------------------------------
(* Type correctness.                                                       *)

LEMMA KnownTables ==
  /\ Known \subseteq Tables
  /\ TypeOK /\ next <= NumKnown => next \in Known /\ next \in Tables
  BY TablesAssumption DEF Known, Tables, TypeOK

LEMMA RecordsTyped == \A contents : Records(contents) \subseteq Tables \X Docnums
  BY DEF Records

LEMMA ObserveTyped ==
  ASSUME TypeOK, Observe
  PROVE  seen' \subseteq Tables \X Docnums /\ lasting' \subseteq Tables \X Docnums
  BY RecordsTyped DEF TypeOK, Observe, Readable

LEMMA ChangedTyped ==
  ASSUME NEW r \in AllRequests, r.op = "update" => r.value # Nothing, NEW row \in Row
  PROVE  Changed(r, row) \in Row
  BY DEF Changed, AllRequests, Row

LEMMA EditedTyped ==
  ASSUME NEW r \in AllRequests, r.op = "update" => r.value # Nothing,
         NEW contents \in [Slots -> Row \cup {NoRow}]
  PROVE  Edited(r, contents) \in [Slots -> Row \cup {NoRow}]
  <1> SUFFICES ASSUME NEW s \in Slots
               PROVE  (IF Matches(contents[s], r.where) THEN Changed(r, contents[s])
                       ELSE contents[s]) \in Row \cup {NoRow}
    BY DEF Edited
  <1>1. CASE Matches(contents[s], r.where)
    BY <1>1, ChangedTyped DEF Matches
  <1> QED
    BY <1>1

LEMMA LeftTyped ==
  ASSUME NEW r \in AllRequests, r.op = "update" => r.value # Nothing,
         NEW contents \in [Slots -> Row \cup {NoRow}], NEW after \in Left(r, contents)
  PROVE  after \in [Slots -> Row \cup {NoRow}]
  <1>1. CASE Misquoted(r)
    BY <1>1 DEF Left
  <1>2. CASE ~Misquoted(r)
    BY <1>2, EditedTyped DEF Left
  <1> QED
    BY <1>1, <1>2

LEMMA AddedTyped ==
  ASSUME NEW r \in AllRequests, r.value # Nothing, NEW row \in Added(r)
  PROVE  row \in Row
  <1>1. r.value \in Docnums
    BY DEF AllRequests
  <1>2. CASE Misquoted(r)
    BY <1>2 DEF Added
  <1>3. CASE ~Misquoted(r)
    <2>1. row = [docnum |-> r.value, deleted |-> FALSE]
      BY <1>3 DEF Added
    <2> QED
      BY <1>1, <2>1 DEF Row
  <1> QED
    BY <1>2, <1>3

(* What a write leaves in the table it names is rows and empty slots.      *)
LEMMA EditTyped ==
  ASSUME TypeOK, Insert \/ Update
  PROVE  /\ table' \in [Tables -> [Slots -> Row \cup {NoRow}]]
         /\ answer' \in Answers /\ answer' # NoAnswer /\ answer'.status = "success"
         /\ pc = "execute" /\ pc' = "respond"
         /\ effects' = effects + 1 /\ Observe
         /\ UNCHANGED <<present, indexed, locked, foreign, local>>
  <1>0. request \in AllRequests /\ request.table \in Tables
    BY DEF TypeOK, Insert, Update, AllRequests
  <1>1. CASE Insert
    <2>1. PICK s \in Slots, row \in Added(request) :
              Edit([table[request.table] EXCEPT ![s] = row])
      BY <1>1 DEF Insert
    <2>2. row \in Row
      BY <1>0, <1>1, AddedTyped DEF Insert
    <2> DEFINE after == [table[request.table] EXCEPT ![s] = row]
    <2>3. after \in [Slots -> Row \cup {NoRow}]
      BY <1>0, <2>2 DEF TypeOK
    <2>4. Edit(after)
      BY <2>1
    <2> HIDE DEF after
    <2> QED
      BY <1>1, <1>0, <2>3, <2>4, AnswerTyped DEF Insert, Edit, TypeOK
  <1>2. CASE Update
    <2>1. table[request.table] \in [Slots -> Row \cup {NoRow}]
      BY <1>0 DEF TypeOK
    <2>2. PICK after \in Left(request, table[request.table]) : Edit(after)
      BY <1>2 DEF Update
    <2>3. after \in [Slots -> Row \cup {NoRow}]
      BY <1>0, <1>2, <2>1, LeftTyped DEF Update
    <2> QED
      BY <1>0, <1>2, <2>2, <2>3, AnswerTyped DEF Update, Edit, TypeOK
  <1> QED
    BY <1>1, <1>2

LEMMA ForeignTyped ==
  ASSUME TypeOK, Foreign
  PROVE  /\ table' \in [Tables -> [Slots -> Row \cup {NoRow}]]
         /\ present' \subseteq Tables /\ indexed' \subseteq Tables /\ locked' \subseteq Tables
         /\ ForeignStep
  <1>1. CASE ForeignEdit
    BY <1>1 DEF ForeignEdit, TypeOK
  <1>2. CASE ForeignMove
    BY <1>2 DEF ForeignMove, TypeOK
  <1>3. CASE ForeignLock
    BY <1>3 DEF ForeignLock, TypeOK
  <1>4. CASE ForeignFiles
    BY <1>4 DEF ForeignFiles, TypeOK
  <1> QED
    BY <1>1, <1>2, <1>3, <1>4 DEF Foreign

LEMMA TypeInit == Init => TypeOK
  BY TablesAssumption DEF Init, TypeOK, Tables

LEMMA TypeStep ==
  ASSUME TypeOK, [Next]_vars
  PROVE  TypeOK'
  <1>1. CASE UNCHANGED vars
    BY <1>1 DEF vars, folder, local, history, TypeOK
  <1>2. CASE Receive
    BY <1>2, RecordsTyped, TablesAssumption
       DEF Receive, folder, TypeOK, Requests, Readable, Tables
  <1>3. ASSUME NEW status, Unaffecting(status), status # "none"
        PROVE  TypeOK'
    <2>1. answer' # NoAnswer
      BY <1>3 DEF Unaffecting, NoAnswer
    <2> QED
      BY <1>3, <2>1 DEF Unaffecting, NoAccess, folder, local, history, TypeOK
  <1>4. CASE FileExists \/ Find
    BY <1>4 DEF FileExists, Find, Is, folder, local, history, TypeOK
  <1>5. CASE Insert \/ Update
    BY <1>5, EditTyped, ObserveTyped DEF TypeOK, local
  <1>6. CASE Select
    <2>1. rows' \subseteq Tables \X Docnums
      BY <1>6 DEF Select, Fetched, Selected, TypeOK, AllRequests
    <2>2. pc' = "respond" /\ answer' \in Answers /\ answer' # NoAnswer
      BY <1>6, AnswerTyped DEF Select, ReadAnswer
    <2> QED
      BY <1>6, <2>1, <2>2 DEF Select, ReadOf, folder, TypeOK
  <1>7. CASE Scan
    <2>1. next \in Tables
      BY <1>7, KnownTables DEF Scan
    <2>2. \A found \in Fetched(next, request.where) : found \subseteq {next} \X Docnums
      BY DEF Fetched, Selected
    <2>3. rows' \subseteq Tables \X Docnums
      BY <1>7, <2>1, <2>2 DEF Scan, TypeOK
    <2>4. next' \in 1..NumKnown + 1
      BY <1>7, TablesAssumption DEF Scan, TypeOK
    <2> QED
      BY <1>7, <2>3, <2>4 DEF Scan, ReadOf, folder, TypeOK
  <1>8. CASE ScanPast
    <2>1. next' \in 1..NumKnown + 1
      BY <1>8, TablesAssumption DEF ScanPast, TypeOK
    <2> QED
      BY <1>8, <2>1 DEF ScanPast, folder, history, TypeOK
  <1>9. CASE Respond
    BY <1>9, TablesAssumption DEF Respond, FreshRows, FreshResponse, folder, TypeOK
  <1>10. CASE Foreign
    BY <1>10, ForeignTyped, ObserveTyped DEF ForeignStep, local, TypeOK
  <1> QED
    BY <1>1, <1>2, <1>3, <1>4, <1>5, <1>6, <1>7, <1>8, <1>9, <1>10, NextCases,
       FailingUnaffecting, SucceedingUnaffecting, FoundUnaffecting

(* Every variable stays in its range; in particular a response exists      *)
(* exactly when the server thread is about to write one.                   *)
THEOREM TypeCorrect == Spec => []TypeOK
  BY TypeInit, TypeStep, PTL DEF Spec

-----------------------------------------------------------------------------
(* What holds between the request and what was read for it.                *)

\* What a where clause selects, of any table.
Wanted(p, where) == where = All \/ p[2] = where

\* The scan has read tables it knows and, if the statement is the one that was
\* meant, what was asked for in those behind it: what could be read there all
\* along is among it.
ScanInv ==
    /\ \A p \in rows : p[1] \in Known
    /\ ~Misquoted(request) =>
         /\ \A p \in rows : Wanted(p, request.where)
         /\ \A p \in lasting : p[1] < next /\ Wanted(p, request.where) => p \in rows

ServeInv ==
    /\ (pc = "idle") = (request = NoRequest)
    /\ pc = "idle" => rows = {} /\ effects = 0 /\ seen = {} /\ lasting = {}
    /\ pc # "idle" => Records(table) \subseteq seen
    /\ pc # "idle" /\ ~Misquoted(request) => rows \subseteq seen
    /\ lasting \subseteq Readable(table, present \ locked)
    /\ pc = "route" => next = 1
    /\ pc \in {"route", "execute"} => rows = {}
    /\ pc = "execute" => request.op \in Reads \cup Writes /\ request.form = "good"
    /\ pc = "scan" => request.op = "find" /\ request.form = "good"
    /\ pc = "scan" => ScanInv

(* The rows a SELECT returns are of the table it reads and, if it is the   *)
(* one that was meant, records of it that were asked for.                  *)
LEMMA FetchedAreRecords ==
  ASSUME NEW t \in Tables, NEW where, NEW found \in Fetched(t, where) \cup SUBSET Selected(t, where)
  PROVE  /\ \A p \in found : p[1] = t
         /\ where \notin Quoted => /\ found \subseteq Records(table)
                                 /\ \A p \in found : Wanted(p, where)
  <1>1. \A p \in Selected(t, where) : p \in Records(table) /\ p[1] = t /\ Wanted(p, where)
    BY DEF Selected, Records, Matches, Wanted
  <1>2. found \subseteq {t} \X Docnums
    BY DEF Fetched, Selected
  <1>3. where \notin Quoted => found \subseteq Selected(t, where)
    BY DEF Fetched
  <1> QED
    BY <1>1, <1>2, <1>3

(* A table that is read to its end gives whatever of it could be read all  *)
(* along; one that is not has nothing that could.                          *)
LEMMA ReadToItsEnd ==
  ASSUME ServeInv, NEW t \in Tables, NEW where, NEW found,
         ReadOf(t, found, Selected(t, where))
  PROVE  /\ lasting' \subseteq lasting
         /\ \A p \in lasting' : p[1] = t /\ Wanted(p, where) => p \in found
  <1>1. lasting' \subseteq lasting
    BY DEF ReadOf
  <1>2. \A p \in lasting : p[1] = t /\ Wanted(p, where) => p \in Selected(t, where)
    BY DEF ServeInv, Readable, Records, Selected, Wanted, Matches
  <1> QED
    BY <1>1, <1>2 DEF ReadOf

LEMMA ServeStep ==
  ASSUME TypeOK, ServeInv, [Next]_vars
  PROVE  ServeInv'
  <1> USE DEF ServeInv
  <1>1. CASE UNCHANGED vars
    BY <1>1 DEF vars, folder, local, history, Records, Readable, ScanInv, Misquoted
  <1>2. CASE Receive
    BY <1>2, RequestAssumption DEF Receive, folder, Requests, Records, Readable
  <1>3. ASSUME NEW status, Unaffecting(status)
        PROVE  ServeInv'
    BY <1>3 DEF Unaffecting, NoAccess, folder, local, history, Records, Readable, Misquoted
  <1>4. CASE FileExists
    BY <1>4 DEF FileExists, Is, folder, local, history, Records, Readable
  <1>5. CASE Find
    <2>1. next = 1 => \A p \in lasting : ~(p[1] < next)
      BY DEF TypeOK, Tables
    <2> QED
      BY <1>5, <2>1 DEF Find, Is, folder, local, history, Records, Readable, ScanInv
  <1>6. CASE Insert \/ Update
    BY <1>6, EditTyped DEF Observe, local, Readable
  <1>7. CASE Select
    <2>1. request.table \in Tables
      BY <1>7 DEF Select, TypeOK, AllRequests
    <2>2. ~Misquoted(request) => rows' \subseteq Records(table)
      <3>1. rows' \in Fetched(request.table, request.where)
                       \cup SUBSET Selected(request.table, request.where)
        BY <1>7 DEF Select
      <3>2. ASSUME NEW found \in Fetched(request.table, request.where)
                                  \cup SUBSET Selected(request.table, request.where)
            PROVE  request.where \notin Quoted => found \subseteq Records(table)
        BY <2>1, FetchedAreRecords
      <3> QED
        BY <3>1, <3>2 DEF Misquoted
    <2>3. lasting' \subseteq lasting
      BY <1>7 DEF Select, ReadOf
    <2>4. /\ Records(table)' = Records(table)
          /\ Readable(table, present \ locked)' = Readable(table, present \ locked)
      BY <1>7 DEF Select, folder, Records, Readable
    <2>5. pc = "execute" /\ pc' = "respond" /\ UNCHANGED <<request, next, effects, seen>>
      BY <1>7 DEF Select, ReadAnswer, Answer
    <2>6. Misquoted(request)' = Misquoted(request)
      BY <2>5 DEF Misquoted
    <2> QED
      BY <2>2, <2>3, <2>4, <2>5, <2>6
  <1>8. CASE Scan
    <2>1. next \in Tables
      BY <1>8, KnownTables DEF Scan
    <2>2. PICK found \in Fetched(next, request.where) :
            /\ rows' = rows \cup found
            /\ ReadOf(next, found, Selected(next, request.where))
      BY <1>8 DEF Scan
    <2>3. /\ \A p \in found : p[1] = next
          /\ ~Misquoted(request) => /\ found \subseteq Records(table)
                                   /\ \A p \in found : Wanted(p, request.where)
      BY <2>1, FetchedAreRecords DEF Misquoted
    <2>4. /\ lasting' \subseteq lasting
          /\ \A p \in lasting' : p[1] = next /\ Wanted(p, request.where) => p \in found
      BY <2>1, <2>2, ReadToItsEnd
    <2>5. /\ Records(table)' = Records(table)
          /\ Readable(table, present \ locked)' = Readable(table, present \ locked)
          /\ UNCHANGED <<pc, request, effects, seen>> /\ pc = "scan" /\ next' = next + 1
      BY <1>8 DEF Scan, folder, Records, Readable
    <2>6. ScanInv'
      <3>1. \A p \in rows' : p[1] \in Known
        BY <1>8, <2>2, <2>3, KnownTables DEF Scan, ScanInv
      <3>2. ASSUME ~Misquoted(request)
            PROVE  /\ \A p \in rows' : Wanted(p, request.where)
                   /\ \A p \in lasting' : p[1] < next' /\ Wanted(p, request.where) => p \in rows'
        <4>1. \A p \in rows' : Wanted(p, request.where)
          BY <2>2, <2>3, <2>5, <3>2 DEF ScanInv
        <4>2. \A p \in lasting' : p[1] < next + 1 => p[1] < next \/ p[1] = next
          BY <2>1, <2>4 DEF TypeOK, Tables
        <4>3. \A p \in lasting' : p[1] < next' /\ Wanted(p, request.where) => p \in rows'
          BY <2>2, <2>4, <2>5, <3>2, <4>2 DEF ScanInv
        <4> QED
          BY <4>1, <4>3
      <3> QED
        BY <2>5, <3>1, <3>2 DEF ScanInv, Wanted, Misquoted
    <2>7. ~Misquoted(request)' => rows' \subseteq seen'
      BY <2>2, <2>3, <2>5 DEF Misquoted
    <2> QED
      BY <2>4, <2>5, <2>6, <2>7
  <1>9. CASE ScanPast
    <2>1. /\ Records(table)' = Records(table)
          /\ Readable(table, present \ locked)' = Readable(table, present \ locked)
          /\ UNCHANGED <<pc, request, rows, effects, seen, lasting>>
          /\ pc = "scan" /\ next' = next + 1
      BY <1>9 DEF ScanPast, folder, history, Records, Readable
    <2>2. ~Misquoted(request) => \A p \in lasting : p[1] # next
      BY <1>9 DEF ScanPast, Workable, Readable
    <2>3. ~Misquoted(request) => \A p \in lasting : p[1] < next + 1 => p[1] < next
      BY <2>2 DEF TypeOK, Tables
    <2>4. ScanInv'
      BY <2>1, <2>3 DEF ScanInv, Wanted, Misquoted
    <2> QED
      BY <2>1, <2>4 DEF Misquoted
  <1>10. CASE Respond
    BY <1>10 DEF Respond, FreshRows
  <1>11. CASE Foreign
    <2>1. /\ seen' = IF pc = "idle" THEN {} ELSE seen \cup Records(table')
          /\ lasting' = lasting \cap Readable(table', present' \ locked')
          /\ UNCHANGED <<pc, request, next, rows, effects>>
      BY <1>11, ForeignTyped DEF ForeignStep, Observe, local
    <2>2. pc = "scan" => ScanInv'
      BY <2>1 DEF ScanInv, Wanted, Misquoted
    <2> QED
      BY <2>1, <2>2 DEF Readable, Misquoted
  <1> QED
    BY <1>1, <1>2, <1>3, <1>4, <1>5, <1>6, <1>7, <1>8, <1>9, <1>10, <1>11, NextCases,
       FailingUnaffecting, SucceedingUnaffecting, FoundUnaffecting

LEMMA ServeHolds == Spec => []ServeInv
  <1>1. Init => ServeInv
    BY DEF Init, ServeInv
  <1> QED
    BY <1>1, ServeStep, TypeCorrect, PTL DEF Spec

-----------------------------------------------------------------------------
(* Refinement.                                                             *)

(* The two modules agree on what a row is and what has been in a table.    *)
LEMMA SameRecords ==
  /\ \A contents : Served!Records(contents) = Records(contents)
  /\ Served!Row = Row
  /\ Served!Contents = [Tables -> [Slots -> Row \cup {NoRow}]]
  BY DEF Served!Records, Records, Served!Row, Row, Served!Contents

(* Until there is a response, no verdict is given and no record answered.  *)
LEMMA Undecided ==
  ASSUME TypeOK, pc # "respond"
  PROVE  Verdict = "none" /\ AnsweredRows = {}
  BY DEF TypeOK, NoAnswer, Verdict, AnsweredRows

LEMMA SuccessVerdict ==
  ASSUME answer'.status = "success"
  PROVE  Verdict' = "success" /\ AnsweredRows' = rows'
  BY DEF Verdict, AnsweredRows

(* A step that fails is never taken for "not found".                       *)
LEMMA FailingVerdict ==
  ASSUME TypeOK, ServeInv, Failing
  PROVE  Verdict' = "error" /\ AnsweredRows' = {} /\ UNCHANGED request
  <1>1. request' = request /\ answer'.status = "error"
    BY FailingUnaffecting DEF Unaffecting, NoAccess, local
  <1>2. answer'.code = 200 => request.op # "find"
    <2>1. CASE Unauthorised \/ Unparsable \/ NotFound \/ FoundUnprintable
      BY <2>1, AnswerTyped DEF Unauthorised, Unparsable, NotFound, FoundUnprintable, Answer
    <2>2. CASE MissingClause \/ BadName \/ QueryIsName
      BY <2>2 DEF MissingClause, BadName, QueryIsName, Incomplete, Marks, Reads, Writes
    <2>3. CASE NeedsExclusive \/ FileMissing
      BY <2>3 DEF NeedsExclusive, FileMissing, Is, Marks, Reads, Writes
    <2>4. CASE SelectUnprintable \/ StatementFails
      BY <2>4 DEF SelectUnprintable, StatementFails, ServeInv, Marks, Reads, Writes
    <2> QED
      BY <2>1, <2>2, <2>3, <2>4 DEF Failing
  <1> QED
    BY <1>1, <1>2 DEF Verdict, AnsweredRows

(* A write decides the request at the moment it is carried out.            *)
LEMMA WriteDecides ==
  ASSUME TypeOK, ServeInv, Insert \/ Update
  PROVE  /\ request # NoRequest /\ request.form = "good"
         /\ Verdict = "none" /\ Verdict' = "success"
         /\ UNCHANGED <<request, AnsweredRows>>
         /\ effects' = effects + 1
         /\ seen' = seen \cup Served!Records(table')
         /\ lasting' \in SUBSET (lasting \cap Served!Records(table'))
  <1>1. /\ pc = "execute" /\ Observe /\ effects' = effects + 1
        /\ UNCHANGED <<request, rows>>
        /\ answer'.status = "success"
    BY EditTyped DEF local
  <1>2. rows = {} /\ request # NoRequest /\ request.form = "good"
    BY <1>1 DEF ServeInv
  <1>3. Verdict = "none" /\ AnsweredRows = {} /\ Verdict' = "success" /\ AnsweredRows' = {}
    BY <1>1, <1>2, Undecided, SuccessVerdict
  <1>4. /\ seen' = seen \cup Served!Records(table')
        /\ lasting' \in SUBSET (lasting \cap Served!Records(table'))
    BY <1>1, SameRecords DEF Observe, Readable
  <1> QED
    BY <1>1, <1>2, <1>3, <1>4

LEMMA InsertRefines ==
  ASSUME TypeOK, ServeInv, Insert
  PROVE  Served!Write
  <1>0. request \in AllRequests /\ request.table \in Tables /\ request.value \in Docnums
    BY DEF TypeOK, Insert, AllRequests
  <1>1. PICK s \in Slots, row \in Added(request) :
          /\ table[request.table][s] = NoRow
          /\ Edit([table[request.table] EXCEPT ![s] = row])
    BY DEF Insert
  <1> DEFINE after == [table[request.table] EXCEPT ![s] = row]
  <1>2. row \in Row /\ after \in [Slots -> Row \cup {NoRow}]
    BY <1>0, AddedTyped DEF TypeOK, Insert
  <1>3. Served!Written(request, table[request.table], after)
    <2>1. Served!Meant(request) => row = [docnum |-> request.value, deleted |-> FALSE]
      BY DEF Served!Meant, Misquoted, Added
    <2> QED
      BY <1>1, <1>2, <2>1, SameRecords DEF Served!Written, Insert
  <1>4. table' = [table EXCEPT ![request.table] = after]
    BY <1>1 DEF Edit
  <1> HIDE DEF after
  <1>5. \E a \in [Slots -> Served!Row \cup {NoRow}] :
           /\ Served!Written(request, table[request.table], a)
           /\ table' = [table EXCEPT ![request.table] = a]
    BY <1>2, <1>3, <1>4, SameRecords
  <1> QED
    BY <1>5, WriteDecides DEF Served!Write

LEMMA EditedRows ==
  ASSUME NEW r \in AllRequests, r.op \in Marks \cup {"update"},
         r.op = "update" => r.value # Nothing,
         NEW before \in [Slots -> Row \cup {NoRow}]
  PROVE  \A s \in Slots :
           /\ Edited(r, before)[s] = NoRow <=> before[s] = NoRow
           /\ Edited(r, before)[s] =
                IF ~Served!Concerns(r, before[s]) THEN before[s]
                ELSE [docnum  |-> IF r.op = "update" THEN r.value ELSE before[s].docnum,
                      deleted |-> IF r.op = "update" THEN before[s].deleted
                                  ELSE r.op = "delete"]
  <1> SUFFICES ASSUME NEW s \in Slots
               PROVE  /\ Edited(r, before)[s] = NoRow <=> before[s] = NoRow
                      /\ Edited(r, before)[s] =
                           IF ~Served!Concerns(r, before[s]) THEN before[s]
                           ELSE [docnum  |-> IF r.op = "update" THEN r.value ELSE before[s].docnum,
                                 deleted |-> IF r.op = "update" THEN before[s].deleted
                                             ELSE r.op = "delete"]
    OBVIOUS
  <1>1. Served!Concerns(r, before[s]) <=> Matches(before[s], r.where)
    BY DEF Served!Concerns, Matches
  <1>2. Edited(r, before)[s] = IF Matches(before[s], r.where) THEN Changed(r, before[s])
                               ELSE before[s]
    BY DEF Edited
  <1>3. CASE Matches(before[s], r.where)
    <2>1. before[s] \in Row /\ before[s] # NoRow
      BY <1>3 DEF Matches
    <2>2. Changed(r, before[s]) \in Row
      BY <2>1, ChangedTyped
    <2>3. Changed(r, before[s]) # NoRow
      BY <2>2, NamesAssumption DEF Row
    <2>4. Changed(r, before[s]) =
            [docnum  |-> IF r.op = "update" THEN r.value ELSE before[s].docnum,
             deleted |-> IF r.op = "update" THEN before[s].deleted ELSE r.op = "delete"]
      BY <2>1 DEF Changed, Row
    <2> QED
      BY <1>1, <1>2, <1>3, <2>1, <2>3, <2>4
  <1> QED
    BY <1>1, <1>2, <1>3

LEMMA UpdateRefines ==
  ASSUME TypeOK, ServeInv, Update
  PROVE  Served!Write
  <1>0. /\ request \in AllRequests /\ request.table \in Tables
        /\ request.op \in Marks \cup {"update"}
        /\ request.op = "update" => request.value # Nothing
    BY DEF TypeOK, Update, AllRequests
  <1> DEFINE before == table[request.table]
  <1>1. before \in [Slots -> Row \cup {NoRow}]
    BY <1>0 DEF TypeOK
  <1>2. PICK after \in Left(request, before) : Edit(after)
    BY DEF Update
  <1>3. after \in [Slots -> Row \cup {NoRow}]
    BY <1>0, <1>1, <1>2, LeftTyped
  <1>4. Served!Written(request, before, after)
    <2>1. request.op \in {"update", "delete", "undelete"}
      BY <1>0 DEF Marks
    <2>2. CASE Misquoted(request)
      <3>1. ~Served!Meant(request)
        BY <2>2 DEF Misquoted, Served!Meant
      <3>2. \A s \in Slots : after[s] = NoRow <=> before[s] = NoRow
        BY <1>2, <2>2 DEF Left
      <3> HIDE DEF before
      <3> QED
        BY <2>1, <3>1, <3>2 DEF Served!Written
    <2>3. CASE ~Misquoted(request)
      <3>1. after = Edited(request, before)
        BY <1>2, <2>3 DEF Left
      <3>2. \A s \in Slots :
              /\ after[s] = NoRow <=> before[s] = NoRow
              /\ after[s] =
                   IF ~Served!Concerns(request, before[s]) THEN before[s]
                   ELSE [docnum  |-> IF request.op = "update" THEN request.value
                                     ELSE before[s].docnum,
                         deleted |-> IF request.op = "update" THEN before[s].deleted
                                     ELSE request.op = "delete"]
        BY <1>0, <1>1, <3>1, EditedRows
      <3> HIDE DEF before
      <3> QED
        BY <2>1, <3>2 DEF Served!Written
    <2> QED
      BY <2>2, <2>3
  <1>5. table' = [table EXCEPT ![request.table] = after]
    BY <1>2 DEF Edit
  <1>6. \E a \in [Slots -> Served!Row \cup {NoRow}] :
           /\ Served!Written(request, table[request.table], a)
           /\ table' = [table EXCEPT ![request.table] = a]
    BY <1>3, <1>4, <1>5, SameRecords
  <1> QED
    BY <1>6, WriteDecides DEF Served!Write

(* A SELECT on one table, and the rows of it.                              *)
LEMMA SelectRefines ==
  ASSUME TypeOK, ServeInv, Select
  PROVE  Served!Read \/ Served!Refuse
  <1>1. /\ pc = "execute" /\ request.op \in Reads /\ request.form = "good"
        /\ request # NoRequest /\ request.table \in Tables
    BY DEF Select, ServeInv, TypeOK, AllRequests
  <1>2. answer' = [code |-> 200, status |-> IF Empty(request, rows') THEN "error" ELSE "success",
                   index |-> IF request.op \in {"csv", "view", "find"} THEN "none" ELSE "ok"]
    BY DEF Select, ReadAnswer, Answer
  <1>3. /\ rows' \in Fetched(request.table, request.where)
                      \cup SUBSET Selected(request.table, request.where)
        /\ ReadOf(request.table, rows', Selected(request.table, request.where))
        /\ UNCHANGED <<folder, request, next, effects, seen>>
    BY DEF Select
  <1>4. /\ \A p \in rows' : p[1] = request.table
        /\ Served!Meant(request) => /\ rows' \subseteq Records(table)
                                   /\ \A p \in rows' : Wanted(p, request.where)
    BY <1>1, <1>3, FetchedAreRecords DEF Served!Meant
  <1>5. rows' \in SUBSET Served!Answerable(request, seen)
    <2>1. rows' \subseteq Tables \X Docnums
      BY <1>1, <1>3 DEF Fetched, Selected
    <2>2. Served!Consulted(request) = {request.table}
      BY <1>1 DEF Served!Consulted, Reads
    <2>3. request.op \in Served!Reads
      BY <1>1 DEF Reads, Served!Reads
    <2>4. CASE Served!Meant(request)
      <3>1. rows' \subseteq seen
        BY <1>1, <1>4, <2>4 DEF ServeInv
      <3>2. rows' \subseteq Served!AskedFor(request, seen)
        BY <1>4, <2>2, <2>3, <2>4, <3>1 DEF Served!AskedFor, Wanted
      <3> QED
        BY <2>4, <3>2 DEF Served!Answerable
    <2>5. CASE ~Served!Meant(request)
      BY <1>4, <2>1, <2>2, <2>3, <2>5 DEF Served!Answerable
    <2> QED
      BY <2>4, <2>5
  <1>6. /\ lasting' \subseteq lasting
        /\ \A p \in lasting' : p[1] = request.table /\ Wanted(p, request.where) => p \in rows'
    BY <1>1, <1>3, ReadToItsEnd
  <1>7. Served!AskedFor(request, lasting') \subseteq rows'
    BY <1>1, <1>6 DEF Served!AskedFor, Served!Consulted, Wanted, Reads
  <1>8. Verdict = "none" /\ AnsweredRows = {}
    BY <1>1, Undecided
  <1>9. request.op \notin {"add", "update", "delete", "undelete", "find"}
    BY <1>1 DEF Reads
  <1>10. CASE Empty(request, rows')
    <2>1. answer'.status = "error" /\ answer'.code = 200 /\ request' = request
      BY <1>2, <1>3, <1>10
    <2>2. Verdict' = "error" /\ AnsweredRows' = {}
      BY <1>9, <2>1 DEF Verdict, AnsweredRows
    <2> QED
      BY <1>1, <1>3, <1>6, <1>8, <2>2 DEF Served!Refuse, folder
  <1>11. CASE ~Empty(request, rows')
    <2>1. Verdict' = "success" /\ AnsweredRows' = rows'
      BY <1>2, <1>11, SuccessVerdict
    <2> QED
      BY <1>1, <1>3, <1>5, <1>6, <1>7, <1>8, <1>9, <2>1 DEF Served!Read, folder
  <1> QED
    BY <1>10, <1>11

(* The end of a search for a document, found or not.                       *)
LEMMA FoundRefines ==
  ASSUME TypeOK, ServeInv, Found
  PROVE  Served!Read
  <1>1. /\ pc = "scan" /\ next > NumKnown /\ request.op = "find" /\ request.form = "good"
        /\ request # NoRequest
        /\ answer' = [code |-> 200, status |-> IF rows = {} THEN "error" ELSE "success",
                      index |-> "none"]
        /\ UNCHANGED <<table, request, rows, effects, seen, lasting>>
    BY DEF Found, ReadAnswer, Answer, NoAccess, folder, local, history, ServeInv
  <1>2. /\ Verdict = "none" /\ AnsweredRows = {}
        /\ AnsweredRows' = rows
        /\ Verdict' = IF rows = {} THEN "absent" ELSE "success"
    BY <1>1, Undecided DEF Verdict, AnsweredRows
  <1>3. /\ Served!Consulted(request) = Known /\ request.op \in Served!Reads
        /\ Served!Meant(request) => ~Misquoted(request)
    BY <1>1 DEF Served!Consulted, Served!Reads, Served!Meant, Misquoted
  <1>4. rows \in SUBSET Served!Answerable(request, seen)
    <2>1. CASE Served!Meant(request)
      BY <1>1, <1>3, <2>1
         DEF ServeInv, ScanInv, Wanted, Served!AskedFor, Served!Answerable
    <2>2. CASE ~Served!Meant(request)
      BY <1>1, <1>3, <2>2 DEF ServeInv, ScanInv, Served!Answerable, TypeOK
    <2> QED
      BY <2>1, <2>2
  <1>5. \A p \in lasting : p[1] \in Known => p[1] < next
    BY <1>1, TablesAssumption DEF TypeOK, Known
  <1>6. Served!Meant(request) => Served!AskedFor(request, lasting) \subseteq rows
    BY <1>1, <1>3, <1>5 DEF ServeInv, ScanInv, Wanted, Served!AskedFor
  <1> QED
    BY <1>1, <1>2, <1>4, <1>6 DEF Served!Read, Served!Complete

LEMMA RefinementStep ==
  ASSUME TypeOK, ServeInv, ServeInv', [Next]_vars
  PROVE  [Served!Next]_(Served!vars)
  <1>1. CASE UNCHANGED vars
    BY <1>1 DEF vars, folder, local, history, Served!vars, Verdict, AnsweredRows
  <1>2. CASE Receive
    <2>1. Verdict = "none" /\ AnsweredRows = {} /\ Verdict' = "none" /\ AnsweredRows' = {}
      BY <1>2, Undecided DEF Receive, TypeOK, NoAnswer, Verdict, AnsweredRows
    <2> QED
      BY <1>2, <2>1, SameRecords
         DEF Receive, Readable, folder, ServeInv, Served!Submit, Served!Next
  <1>3. CASE Failing
    <2>1. /\ request # NoRequest /\ Verdict = "none" /\ AnsweredRows = {}
      BY <1>3, FailingUnaffecting, Undecided DEF Unaffecting, ServeInv
    <2>2. UNCHANGED <<table, effects, seen, lasting>>
      BY <1>3, FailingUnaffecting DEF Unaffecting, NoAccess, folder, history
    <2>3. Served!Refuse
      BY <1>3, <2>1, <2>2, FailingVerdict DEF Served!Refuse
    <2> QED
      BY <2>3 DEF Served!Next
  <1>4. CASE Health \/ Status
    <2>1. Unaffecting("success")
      BY <1>4, SucceedingUnaffecting
    <2>2. /\ request.op \in {"health", "status"} /\ pc = "route"
          /\ request.op = "health" \/ request.form # "unauthorised"
      BY <1>4 DEF Health, Status
    <2>3. /\ rows = {} /\ request # NoRequest
          /\ UNCHANGED <<table, request, rows, effects, seen, lasting>>
      BY <2>1, <2>2 DEF Unaffecting, NoAccess, folder, local, history, ServeInv
    <2>4. /\ Verdict = "none" /\ AnsweredRows = {}
          /\ Verdict' = "success" /\ AnsweredRows' = {}
      BY <2>1, <2>2, <2>3, Undecided, SuccessVerdict DEF Unaffecting
    <2>5. Served!Read
      BY <2>2, <2>3, <2>4 DEF Served!Read, Served!Complete
    <2> QED
      BY <2>5 DEF Served!Next
  <1>5. CASE FileExists \/ Find \/ ScanPast
    BY <1>5 DEF FileExists, Find, Is, ScanPast, folder, local, history, Served!vars,
                Verdict, AnsweredRows
  <1>6. CASE Scan
    <2>1. /\ UNCHANGED <<table, request, effects, seen>> /\ lasting' \subseteq lasting
          /\ request # NoRequest
          /\ Records(table) \subseteq seen /\ lasting \subseteq Records(table)
      BY <1>6 DEF Scan, ReadOf, folder, ServeInv, Readable
    <2>2. Verdict' = Verdict /\ AnsweredRows' = AnsweredRows
      BY <1>6 DEF Scan, TypeOK, NoAnswer, Verdict, AnsweredRows
    <2>3. table' \in Served!Contents
      BY <2>1, SameRecords DEF TypeOK
    <2>4. /\ seen' = seen \cup Served!Records(table')
          /\ lasting' \in SUBSET (lasting \cap Served!Records(table'))
      BY <2>1, SameRecords
    <2>5. Served!Foreign
      BY <2>1, <2>2, <2>3, <2>4 DEF Served!Foreign
    <2> QED
      BY <2>5 DEF Served!Next
  <1>7. CASE Insert \/ Update
    BY <1>7, InsertRefines, UpdateRefines DEF Served!Next
  <1>8. CASE Select \/ Found
    BY <1>8, SelectRefines, FoundRefines DEF Served!Next
  <1>9. CASE Respond
    <2>1. Verdict # "none"
      BY <1>9 DEF Respond, TypeOK, Answers, Verdict
    <2>2. Verdict' = "none" /\ AnsweredRows' = {}
      BY <1>9 DEF Respond, FreshRows, FreshResponse, NoAnswer, Verdict, AnsweredRows
    <2> QED
      BY <1>9, <2>1, <2>2 DEF Respond, folder, Served!Respond, Served!Next
  <1>10. CASE Foreign
    <2>1. /\ Observe /\ UNCHANGED <<pc, request, next, rows, answer, effects>>
      BY <1>10, ForeignTyped DEF ForeignStep, local
    <2>2. Verdict' = Verdict /\ AnsweredRows' = AnsweredRows
      BY <2>1 DEF Verdict, AnsweredRows
    <2>3. /\ table' \in Served!Contents
          /\ seen' = IF request = NoRequest THEN {} ELSE seen \cup Served!Records(table')
          /\ lasting' \in SUBSET (lasting \cap Served!Records(table'))
      BY <1>10, <2>1, ForeignTyped, SameRecords DEF Observe, ServeInv, Readable
    <2>4. Served!Foreign
      BY <2>1, <2>2, <2>3 DEF Served!Foreign
    <2> QED
      BY <2>4 DEF Served!Next
  <1> QED
    BY <1>1, <1>2, <1>3, <1>4, <1>5, <1>6, <1>7, <1>8, <1>9, <1>10, NextCases

(* Each request served against tables that ExpressD keeps changing is a    *)
(* request of RecordService: one effect or none, on the rows it selects,   *)
(* and answers with records that were there, all of those that could be    *)
(* read throughout if the request is an export or a search for a document, *)
(* which looks in the tables it knows.  With an apostrophe in a value only *)
(* the one effect or none on the table it names is left of that.           *)
THEOREM HandlingImplementsRecordService == Spec => ImplementsRecordService
  <1>1. Init => Served!Init
    <2>1. Init => table \in Served!Contents
      BY SameRecords, TypeInit DEF TypeOK
    <2> QED
      BY <2>1 DEF Init, Served!Init, NoAnswer, Verdict, AnsweredRows
  <1>2. TypeOK /\ ServeInv /\ ServeInv' /\ [Next]_vars => [Served!Next]_(Served!vars)
    BY RefinementStep
  <1> QED
    BY <1>1, <1>2, TypeCorrect, ServeHolds, PTL DEF Spec, ImplementsRecordService, Served!Spec

-----------------------------------------------------------------------------
(* What the promise says of an answer.                                     *)

LEMMA AskedForMore ==
  ASSUME NEW r, NEW some, NEW more, some \subseteq more
  PROVE  /\ Served!AskedFor(r, some) \subseteq Served!AskedFor(r, more)
         /\ Served!Answerable(r, some) \subseteq Served!Answerable(r, more)
  BY DEF Served!AskedFor, Served!Answerable

(* Whoever takes a step of the service, an answer stays right.             *)
LEMMA AnswerStep ==
  ASSUME Served!AnswerIsRight, [Served!Next]_(Served!vars)
  PROVE  Served!AnswerIsRight'
  <1> DEFINE Changing == {"add", "update", "delete", "undelete"}
  <1>1. CASE UNCHANGED Served!vars
    BY <1>1 DEF Served!vars, Served!AnswerIsRight, Served!AskedFor, Served!Answerable,
                Served!Complete, Served!Meant, Served!Consulted
  <1>2. CASE Served!Submit
    BY <1>2 DEF Served!Submit, Served!AnswerIsRight
  <1>3. CASE Served!Write
    <2>1. request.op \in Changing /\ request.form = "good"
      BY <1>3 DEF Served!Write, Served!Written
    <2>2. /\ request # NoRequest /\ request' = request
          /\ Verdict = "none" /\ Verdict' = "success"
          /\ effects' = effects + 1 /\ AnsweredRows' = AnsweredRows
      BY <1>3 DEF Served!Write
    <2>3. effects = 0 /\ AnsweredRows = {}
      BY <2>2 DEF Served!AnswerIsRight
    <2>4. ~Served!Complete(request)
      BY <2>1 DEF Served!Complete
    <2> QED
      BY <2>1, <2>2, <2>3, <2>4 DEF Served!AnswerIsRight, Served!Complete
  <1>4. CASE Served!Read
    <2>1. /\ request # NoRequest /\ request' = request
          /\ request.op \notin Changing
          /\ request.op = "health" \/ request.form # "unauthorised"
          /\ Verdict = "none" /\ effects' = effects /\ seen' = seen
          /\ AnsweredRows' \subseteq Served!Answerable(request, seen)
          /\ Served!Complete(request) => Served!AskedFor(request, lasting') \subseteq AnsweredRows'
          /\ Verdict' = IF request.op = "find" /\ AnsweredRows' = {} THEN "absent" ELSE "success"
      BY <1>4 DEF Served!Read
    <2>2. effects = 0
      BY <2>1 DEF Served!AnswerIsRight
    <2>3. request.op = "health" => Served!Answerable(request, seen) = {}
      BY DEF Served!AskedFor, Served!Answerable, Served!Reads
    <2>4. Verdict' = "absent" /\ Served!Meant(request) => Served!AskedFor(request, lasting') = {}
      BY <2>1 DEF Served!Complete
    <2>5. Served!Answerable(request, seen)' = Served!Answerable(request, seen)
      BY <2>1 DEF Served!AskedFor, Served!Answerable, Served!Meant, Served!Consulted
    <2>6. /\ Served!AskedFor(request, lasting)' = Served!AskedFor(request, lasting')
          /\ Served!Complete(request)' = Served!Complete(request)
          /\ Served!Meant(request)' = Served!Meant(request)
      BY <2>1 DEF Served!AskedFor, Served!Complete, Served!Meant, Served!Consulted
    <2>7. Verdict' \in {"absent", "success"}
      BY <2>1
    <2> QED
      BY <2>1, <2>2, <2>3, <2>4, <2>5, <2>6, <2>7 DEF Served!AnswerIsRight
  <1>5. CASE Served!Refuse
    <2>1. /\ request # NoRequest /\ request' = request
          /\ Verdict = "none" /\ Verdict' = "error"
          /\ effects' = effects /\ AnsweredRows' = AnsweredRows
      BY <1>5 DEF Served!Refuse
    <2>2. effects = 0 /\ AnsweredRows = {}
      BY <2>1 DEF Served!AnswerIsRight
    <2> QED
      BY <2>1, <2>2 DEF Served!AnswerIsRight
  <1>6. CASE Served!Respond
    BY <1>6 DEF Served!Respond, Served!AnswerIsRight
  <1>7. CASE Served!Foreign
    <2>1. /\ request' = request /\ Verdict' = Verdict
          /\ AnsweredRows' = AnsweredRows /\ effects' = effects
          /\ lasting' \subseteq lasting
          /\ request # NoRequest => seen \subseteq seen'
      BY <1>7 DEF Served!Foreign
    <2>2. request # NoRequest =>
            Served!Answerable(request, seen) \subseteq Served!Answerable(request, seen')
      BY <2>1, AskedForMore
    <2>3. Served!AskedFor(request, lasting') \subseteq Served!AskedFor(request, lasting)
      BY <2>1, AskedForMore
    <2>4. /\ Served!Answerable(request, seen)' = Served!Answerable(request, seen')
          /\ Served!AskedFor(request, lasting)' = Served!AskedFor(request, lasting')
          /\ Served!Complete(request)' = Served!Complete(request)
          /\ Served!Meant(request)' = Served!Meant(request)
      BY <2>1 DEF Served!AskedFor, Served!Answerable, Served!Complete, Served!Meant,
                  Served!Consulted
    <2> QED
      BY <2>1, <2>2, <2>3, <2>4 DEF Served!AnswerIsRight
  <1> QED
    BY <1>1, <1>2, <1>3, <1>4, <1>5, <1>6, <1>7 DEF Served!Next

(* Whatever answer a client holds, and whatever ExpressD does meanwhile:   *)
(* an error has changed nothing, a success of a write has changed what was *)
(* asked for, once; the records of an answer were there, and those that    *)
(* stayed are in it if it is to have them all.  (What is said of records   *)
(* holds if no value has an apostrophe in it.)                             *)
THEOREM AnswersAreRight == Spec => []Served!AnswerIsRight
  <1>1. Served!Init => Served!AnswerIsRight
    BY DEF Served!Init, Served!AnswerIsRight
  <1>2. Served!AnswerIsRight /\ [Served!Next]_(Served!vars) => Served!AnswerIsRight'
    BY AnswerStep
  <1>3. Spec => Served!Spec
    BY HandlingImplementsRecordService DEF ImplementsRecordService
  <1> QED
    BY <1>1, <1>2, <1>3, PTL DEF Served!Spec

-----------------------------------------------------------------------------
(* Repetition.                                                             *)

(* An update, delete or undelete that is carried out again leaves the      *)
(* table as it was after the first time, whatever it selects.              *)
LEMMA EditedTwice ==
  ASSUME NEW r \in AllRequests, NEW contents \in [Slots -> Row \cup {NoRow}]
  PROVE  Edited(r, Edited(r, contents)) = Edited(r, contents)
  <1> DEFINE once == Edited(r, contents)
  <1>1. \A s \in Slots :
           once[s] = IF Matches(contents[s], r.where) THEN Changed(r, contents[s])
                     ELSE contents[s]
    BY DEF Edited
  <1>2. \A row \in Row : Changed(r, Changed(r, row)) = Changed(r, row)
    BY DEF Changed, Row
  <1>3. \A s \in Slots : (IF Matches(once[s], r.where) THEN Changed(r, once[s]) ELSE once[s])
                          = once[s]
    BY <1>1, <1>2 DEF Matches
  <1>4. Edited(r, once) = [s \in Slots |-> once[s]]
    BY <1>3 DEF Edited
  <1>5. once = [s \in Slots |-> once[s]]
    BY DEF Edited
  <1> QED
    BY <1>4, <1>5

(* A client that asks again for a write whose response was lost changes    *)
(* nothing by it, unless the write adds a record or has an apostrophe in a *)
(* value.                                                                  *)
THEOREM RepeatChangesNothingHolds == Spec => []RepeatChangesNothing
  <1>1. TypeOK => RepeatChangesNothing
    BY EditedTwice DEF TypeOK, RepeatChangesNothing, AllRequests
  <1> QED
    BY <1>1, TypeCorrect, PTL
=============================================================================
