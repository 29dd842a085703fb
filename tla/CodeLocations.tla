---------------------------- MODULE CodeLocations ----------------------------
(***************************************************************************)
(* The table code_location_definitions and everybody who writes it: the    *)
(* REST endpoints (dagster_webserver/api/agent.py with agent_queries.py),  *)
(* the admin portal (admin/views.py with auth/db_backend.py), the loader   *)
(* of workspace.yaml at startup (api/workspace_loader.py), and agents that *)
(* report what they have loaded.                                           *)
(*                                                                         *)
(* Every writer reads the row by its name, awaits, and commits.  The ORM   *)
(* then sends the columns that differ from what was read, for the id that  *)
(* was read; nothing compares the rest of the row.                         *)
(***************************************************************************)
EXTENDS Naturals, Sequences, FiniteSets

CONSTANTS
  Requests,    \* slots for requests being handled at the same time
  Names,       \* location names
  Ids,         \* bound: row ids
  Metas,       \* values of deploy_metadata
  Labels,      \* values of labels, besides None
  Manifests,   \* values of loaded_manifest, besides None
  Errors,      \* values of load_error, besides None
  Yaml,        \* workspace.yaml: a sequence of [name, meta, labels]
  Databases,   \* for each that may be used, whether its ids are never reused
  MaxAsks,     \* bound: requests ever begun
  Keep,        \* a column a request does not assign
  None

\* what workspace.yaml says of a location
Entries == [name : Names, meta : Metas, labels : Labels \cup {None}]

ASSUME LocationsAssumption ==
  /\ Ids \subseteq Nat
  /\ Yaml \in Seq(Entries) /\ 1..Len(Yaml) \subseteq Ids
  /\ \A i, j \in 1..Len(Yaml) : Yaml[i].name = Yaml[j].name => i = j
  /\ Databases \subseteq BOOLEAN
  /\ MaxAsks \in Nat
  /\ {Keep, None} \cap (Names \cup Ids \cup Metas \cup Labels \cup Manifests \cup Errors) = {}
  /\ {Keep, None} \cap {"active", "paused"} = {}
  /\ Keep # None

VARIABLES
  sequence,   \* whether the database never gives an id again
  rows,       \* the table by id
  used,       \* ids ever given
  req,        \* the requests being handled
  reports,    \* history: what was last reported for each location
  asks,       \* history: requests begun
  orderly     \* history: nobody began while somebody else was at work

vars == <<sequence, rows, used, req, reports, asks, orderly>>

Columns   == {"meta", "labels", "status", "manifest", "error"}
Values    == Metas \cup Labels \cup Manifests \cup Errors \cup {None, "active", "paused"}
NoRow     == [name |-> None, meta |-> None, labels |-> None, status |-> None,
              manifest |-> None, error |-> None]
Nothing   == [c \in Columns |-> Keep]

Idle == [kind |-> "idle", at |-> "idle", name |-> None, id |-> None, read |-> NoRow,
         sets |-> Nothing, rest |-> <<>>]

IsRow(id) == rows[id] # NoRow
Find(n)   == {id \in Ids : rows[id].name = n}

\* the table is empty, or earlier runs have loaded some of the file's entries
Init ==
  /\ sequence \in Databases
  /\ \E k \in 0..Len(Yaml) :
       /\ rows = [id \in Ids |->
            IF id \in 1..k
            THEN [NoRow EXCEPT !.name = Yaml[id].name, !.meta = Yaml[id].meta,
                               !.labels = Yaml[id].labels, !.status = "active"]
            ELSE NoRow]
       /\ used = 1..k
  /\ req = [r \in Requests |-> Idle]
  /\ reports = [n \in Names |-> "none"]
  /\ asks = 0
  /\ orderly = TRUE

-----------------------------------------------------------------------------
(* The requests.                                                           *)

Begin(r, ask) ==
  /\ req[r].kind = "idle"
  /\ asks < MaxAsks
  /\ asks' = asks + 1
  /\ orderly' = (orderly /\ \A q \in Requests : req[q].kind = "idle")
  /\ req' = [req EXCEPT ![r] = [ask EXCEPT !.at = "read"]]
  /\ UNCHANGED <<sequence, rows, used, reports>>

Finish(r) == req' = [req EXCEPT ![r] = Idle]

\* upsert_code_location assigns every column an administrator has, also labels
\* that were not given and a status nobody mentioned
Upsert(n, meta, labels) ==
  [Idle EXCEPT !.kind = "upsert", !.name = n,
               !.sets = [Nothing EXCEPT !["meta"] = meta, !["labels"] = labels,
                                        !["status"] = "active"]]

\* POST of /api/agent/code-locations
AskUpsert(r) ==
  \E n \in Names, meta \in Metas, labels \in Labels \cup {None} :
    Begin(r, Upsert(n, meta, labels))

\* the webserver's startup
Entry(entries) ==
  [Upsert(Head(entries).name, Head(entries).meta, Head(entries).labels)
     EXCEPT !.rest = Tail(entries)]

AskYaml(r) ==
  /\ Yaml # <<>>
  /\ Begin(r, Entry(Yaml))

\* CodeLocationView.create: nothing is assigned to a row that is there
AskCreate(r) ==
  \E n \in Names, meta \in Metas :
    Begin(r, [Upsert(n, meta, None) EXCEPT !.kind = "create"])

\* PUT of a code location, with any of the three; CodeLocationView.edit, which
\* has no field for the labels
AskUpdate(r) ==
  \E n \in Names, meta \in Metas \cup {Keep}, labels \in Labels \cup {None, Keep},
     status \in {"active", "paused", Keep} :
       Begin(r, [Idle EXCEPT !.kind = "update", !.name = n,
                   !.sets = [Nothing EXCEPT !["meta"] = meta, !["labels"] = labels,
                                            !["status"] = status]])

AskDelete(r) ==
  \E n \in Names : Begin(r, [Idle EXCEPT !.kind = "delete", !.name = n])

\* Slip: a location that loads keeps the error of the last time
LoadedOnly(manifest) == [Nothing EXCEPT !["manifest"] = manifest]

\* _upload_code_location_data: an error leaves the manifest of the last success
Loaded(manifest) == [Nothing EXCEPT !["manifest"] = manifest, !["error"] = None]

Failed(error) == [Nothing EXCEPT !["error"] = error]

AskReport(r) ==
  \E n \in Names :
  \E sets \in {Loaded(m) : m \in Manifests \cup {None}} \cup {Failed(e) : e \in Errors} :
    Begin(r, [Idle EXCEPT !.kind = "report", !.name = n, !.sets = sets])

\* SELECT by name: location_name is unique
Read(r) ==
  /\ req[r].at = "read"
  /\ \/ \E id \in Find(req[r].name) :
          /\ req[r].kind # "create"
          /\ req' = [req EXCEPT ![r].at = "write", ![r].id = id, ![r].read = rows[id]]
     \/ \* "already exists"
        Find(req[r].name) # {} /\ req[r].kind = "create" /\ Finish(r)
     \/ /\ Find(req[r].name) = {} /\ req[r].kind \in {"upsert", "create"}
        /\ req' = [req EXCEPT ![r].at = "insert"]
     \/ \* 404, or nothing to report to
        Find(req[r].name) = {} /\ req[r].kind \notin {"upsert", "create"} /\ Finish(r)
  /\ UNCHANGED <<sequence, rows, used, reports, asks, orderly>>

\* A commit is over; the loader of workspace.yaml goes on with its next entry
Done(r) ==
  req' = [req EXCEPT ![r] =
            IF req[r].rest = <<>> THEN Idle ELSE [Entry(req[r].rest) EXCEPT !.at = "read"]]

Reported(r) ==
  reports' = IF req[r].kind = "report"
             THEN [reports EXCEPT ![req[r].name] =
                     IF req[r].sets["error"] = None THEN "loaded" ELSE "failed"]
             ELSE reports

\* Slip: the row is written as it was read
WholeRow(read, sets, row) ==
  [c \in Columns \cup {"name"} |->
     IF c \in Columns /\ sets[c] # Keep THEN sets[c] ELSE read[c]]

\* the columns that were assigned another value than was read; the others are
\* whatever they are by now
Flushed(read, sets, row) ==
  [c \in Columns \cup {"name"} |->
     IF c \in Columns /\ sets[c] # Keep /\ sets[c] # read[c] THEN sets[c] ELSE row[c]]

\* The UPDATE; no row of that id is an error, and a loader ends with it
Write(r) ==
  /\ req[r].at = "write"
  /\ req[r].kind # "delete"
  /\ LET id == req[r].id
     IN \/ /\ IsRow(id)
           /\ rows' = [rows EXCEPT ![id] = Flushed(req[r].read, req[r].sets, rows[id])]
           /\ Reported(r)
           /\ Done(r)
        \/ ~IsRow(id) /\ Finish(r) /\ UNCHANGED <<rows, reports>>
  /\ UNCHANGED <<sequence, used, asks, orderly>>

Follows(id, taken) ==
  /\ \A i \in taken : i < id
  /\ \A i \in Ids : i < id => \E j \in taken : i <= j

\* Slip: every database counts like SQLite
AfterTheGreatest(id) == Follows(id, {i \in Ids : IsRow(i)})

\* SQLite goes on after the greatest id there is, a sequence after the greatest
\* there was
IsNextId(id) == Follows(id, IF sequence THEN used ELSE {i \in Ids : IsRow(i)})

\* Slip: the name was free when it was read
WasFree(n) == TRUE

\* location_name is unique
IsFree(n) == Find(n) = {}

\* The INSERT, unless somebody has inserted the name meanwhile
Insert(r) ==
  /\ req[r].at = "insert"
  /\ LET sets == req[r].sets
         new == [name |-> req[r].name, meta |-> sets["meta"], labels |-> sets["labels"],
                 status |-> sets["status"], manifest |-> None, error |-> None]
     IN \/ /\ IsFree(req[r].name)
           /\ \E id \in Ids :
                /\ IsNextId(id)
                /\ rows' = [rows EXCEPT ![id] = new]
                /\ used' = used \cup {id}
           /\ reports' = [reports EXCEPT ![req[r].name] = "none"]
           /\ Done(r)
        \/ ~IsFree(req[r].name) /\ Finish(r) /\ UNCHANGED <<rows, used, reports>>
  /\ UNCHANGED <<sequence, asks, orderly>>

\* The DELETE by id, which may find nothing any more
Delete(r) ==
  /\ req[r].at = "write"
  /\ req[r].kind = "delete"
  /\ rows' = [rows EXCEPT ![req[r].id] = NoRow]
  /\ Finish(r)
  /\ UNCHANGED <<sequence, used, reports, asks, orderly>>

\* An error before the commit, or the webserver goes down: committed entries stay
Abort(r) ==
  /\ req[r].kind # "idle"
  /\ Finish(r)
  /\ UNCHANGED <<sequence, rows, used, reports, asks, orderly>>

-----------------------------------------------------------------------------
Next ==
  \E r \in Requests :
    \/ AskUpsert(r) \/ AskYaml(r) \/ AskCreate(r) \/ AskUpdate(r) \/ AskDelete(r)
    \/ AskReport(r)
    \/ Read(r) \/ Write(r) \/ Insert(r) \/ Delete(r) \/ Abort(r)

Spec == Init /\ [][Next]_vars

-----------------------------------------------------------------------------
(* Requirements.                                                           *)

Row == [name : Names, meta : Metas, labels : Labels \cup {None},
        status : {"active", "paused"}, manifest : Manifests \cup {None},
        error : Errors \cup {None}]

Request ==
  [kind : {"idle", "upsert", "create", "update", "delete", "report"},
   at : {"idle", "read", "write", "insert"}, name : Names \cup {None},
   id : Ids \cup {None}, read : Row \cup {NoRow}, sets : [Columns -> Values \cup {Keep}],
   rest : Seq(Entries)]

\* Every variable has a value of its kind, and a location has one row.
TypeOK ==
  /\ sequence \in BOOLEAN
  /\ rows \in [Ids -> Row \cup {NoRow}]
  /\ used \subseteq Ids
  /\ req \in [Requests -> Request]
  /\ reports \in [Names -> {"none", "loaded", "failed"}]
  /\ asks \in Nat
  /\ orderly \in BOOLEAN
  /\ \A n \in Names : Cardinality(Find(n)) <= 1

\* A column of a row changes to what the committing request was given for it:
\* no request brings back an older value of a column it only read, so a report
\* that was under way never resumes a location that was paused meanwhile.
ColumnsChangeToWhatWasGiven ==
  [][\A id \in Ids, c \in Columns :
       IsRow(id) /\ rows'[id] # NoRow /\ rows'[id][c] # rows[id][c] =>
         \E r \in Requests :
           req[r].at = "write" /\ req'[r] # req[r] /\ rows'[id][c] = req[r].sets[c]]_vars

\* A request changes and deletes rows of its own location only, where ids are
\* not given again or requests come in turn; elsewhere what was read as one
\* location may be another one when it is written.
RowsChangeUnderTheirName ==
  [][sequence \/ orderly =>
       \A id \in Ids :
         IsRow(id) /\ rows'[id] # rows[id] =>
           \E r \in Requests : req[r].name = rows[id].name /\ req'[r] # req[r]]_vars

\* In turn, a location has an error exactly if the last report said so; when
\* reports overlap, a success that read no error does not clear one that came
\* in between.
ErrorIsOfTheLastReport ==
  orderly =>
    \A id \in Ids : IsRow(id) => (rows[id].error # None <=> reports[rows[id].name] = "failed")

=============================================================================
