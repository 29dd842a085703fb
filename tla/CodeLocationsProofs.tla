------------------------- MODULE CodeLocationsProofs -------------------------
(***************************************************************************)
(* Theorems about CodeLocations for any requests, names, columns' values,  *)
(* workspace.yaml and databases: type correctness, which columns and rows  *)
(* a commit may change, and what the error of a location says.             *)
(***************************************************************************)
EXTENDS CodeLocations, FiniteSetTheorems, TLAPS

\* What a request may assign, each column within its own values.
IsGiven(sets) ==
  /\ sets \in [Columns -> Values \cup {Keep}]
  /\ sets["meta"] \in Metas \cup {Keep}
  /\ sets["labels"] \in Labels \cup {None, Keep}
  /\ sets["status"] \in {"active", "paused", Keep}
  /\ sets["manifest"] \in Manifests \cup {None, Keep}
  /\ sets["error"] \in Errors \cup {None, Keep}

IsSound(q) ==
  /\ q \in Request
  /\ IsGiven(q.sets)
  /\ q.kind = "idle" <=> q.at = "idle"
  /\ q.at # "idle" => q.name \in Names
  /\ q.at = "write" => q.id \in Ids /\ q.read \in Row
  /\ q.at = "insert" => q.kind \in {"upsert", "create"}
  /\ q.kind \in {"upsert", "create"} =>
       q.sets["meta"] # Keep /\ q.sets["labels"] # Keep /\ q.sets["status"] # Keep
  /\ q.kind = "report" <=> q.sets["error"] # Keep

\* A request fills in what its kind calls for.
RequestsAreSound == \A r \in Requests : IsSound(req[r])

NamesAreUnique == \A n \in Names : \A i, j \in Find(n) : i = j

\* Rows, and the rows requests have read, have ids that were given.
IdsAreUsed ==
  /\ \A id \in Ids : IsRow(id) => id \in used
  /\ \A r \in Requests : req[r].at = "write" => req[r].id \in used

\* The id a request has read still stands for its location, or for none.
NameWasRead ==
  sequence \/ orderly =>
    \A r \in Requests :
      req[r].at = "write" /\ IsRow(req[r].id) => rows[req[r].id].name = req[r].name

\* In turn, one request is at work and what it has read is still so.
ReadIsCurrent ==
  orderly =>
    /\ \A q, r \in Requests : req[q].at # "idle" /\ req[r].at # "idle" => q = r
    /\ \A r \in Requests :
         req[r].at = "write" => IsRow(req[r].id) /\ req[r].read = rows[req[r].id]

LocationsInv ==
  /\ TypeOK
  /\ RequestsAreSound
  /\ NamesAreUnique
  /\ IdsAreUsed
  /\ NameWasRead
  /\ ReadIsCurrent
  /\ ErrorIsOfTheLastReport

-----------------------------------------------------------------------------
(* Facts about the operators.                                              *)

\* A set whose elements are all the same has at most one.
LEMMA AtMostOne ==
  ASSUME NEW S, \A x, y \in S : x = y
  PROVE  Cardinality(S) \in Nat /\ Cardinality(S) <= 1
<1>1. CASE S = {}
  BY <1>1, FS_EmptySet
<1>2. CASE S # {}
  <2>1. PICK x : x \in S
    BY <1>2
  <2>2. S = {x}
    BY <2>1
  <2>3. QED
    BY <2>2, FS_Singleton
<1>3. QED
  BY <1>1, <1>2

LEMMA NoRowIsNone == NoRow \notin Row
BY LocationsAssumption DEF NoRow, Row

\* What a flush makes of each column; a flushed row has the columns of a row,
\* and keeps its name.
LEMMA FlushedColumns ==
  \A read, sets, row : \A c \in Columns :
    Flushed(read, sets, row)[c] =
      IF sets[c] # Keep /\ sets[c] # read[c] THEN sets[c] ELSE row[c]
BY DEF Flushed

LEMMA FlushedRow ==
  ASSUME NEW read, NEW sets, IsGiven(sets), NEW row \in Row
  PROVE  Flushed(read, sets, row) \in Row /\ Flushed(read, sets, row).name = row.name
<1> DEFINE new == Flushed(read, sets, row)
<1>1. new["name"] = row.name
  BY DEF Flushed, Columns
<1>2. /\ new["meta"] \in Metas
      /\ new["labels"] \in Labels \cup {None}
      /\ new["status"] \in {"active", "paused"}
      /\ new["manifest"] \in Manifests \cup {None}
      /\ new["error"] \in Errors \cup {None}
  BY FlushedColumns DEF IsGiven, Columns, Row
<1>3. new \in Row
  BY <1>1, <1>2 DEF Flushed, Row, Columns
<1>4. QED
  BY <1>1, <1>3

\* A row from workspace.yaml or from an INSERT is a row.
LEMMA NewRow ==
  ASSUME NEW n \in Names, NEW meta \in Metas, NEW labels \in Labels \cup {None},
         NEW status \in {"active", "paused"}
  PROVE  [name |-> n, meta |-> meta, labels |-> labels, status |-> status,
          manifest |-> None, error |-> None] \in Row
BY DEF Row

-----------------------------------------------------------------------------
(* What requests are when they begin.                                      *)

LEMMA NothingIsGiven == IsGiven(Nothing)
BY DEF IsGiven, Nothing, Columns

LEMMA IdleIsSound == IsSound(Idle)
<1>1. Idle \in Request /\ Idle.sets = Nothing /\ Idle.kind = "idle" /\ Idle.at = "idle"
  BY NothingIsGiven DEF Idle, Request, IsGiven
<1>2. Nothing["error"] = Keep
  BY DEF Nothing, Columns
<1>3. QED
  BY <1>1, <1>2, NothingIsGiven DEF IsSound

\* What is asked of the table, before it has read anything.
IsAsk(ask) ==
  /\ ask \in Request
  /\ ask.kind # "idle" /\ ask.name \in Names
  /\ IsGiven(ask.sets)
  /\ ask.kind \in {"upsert", "create"} =>
       ask.sets["meta"] # Keep /\ ask.sets["labels"] # Keep /\ ask.sets["status"] # Keep
  /\ ask.kind = "report" <=> ask.sets["error"] # Keep

LEMMA AskIsSound ==
  ASSUME NEW ask, IsAsk(ask)
  PROVE  IsSound([ask EXCEPT !.at = "read"]) /\ [ask EXCEPT !.at = "read"].at = "read"
<1> DEFINE q == [ask EXCEPT !.at = "read"]
<1>1. ask \in Request
  BY DEF IsAsk
<1>2. q \in Request
  BY <1>1 DEF Request
<1>3. q.kind = ask.kind /\ q.at = "read" /\ q.name = ask.name /\ q.sets = ask.sets
  BY <1>1 DEF Request
<1>4. QED
  BY <1>2, <1>3 DEF IsSound, IsAsk

LEMMA IdleRequest == Idle \in Request
BY IdleIsSound DEF IsSound

LEMMA UpsertIsAsk ==
  ASSUME NEW n \in Names, NEW meta \in Metas, NEW labels \in Labels \cup {None}
  PROVE  IsAsk(Upsert(n, meta, labels)) /\ Upsert(n, meta, labels).kind = "upsert"
<1> DEFINE sets == [Nothing EXCEPT !["meta"] = meta, !["labels"] = labels,
                                   !["status"] = "active"]
           ask  == [Idle EXCEPT !.kind = "upsert", !.name = n, !.sets = sets]
<1>1. /\ sets \in [Columns -> Values \cup {Keep}]
      /\ sets["meta"] = meta /\ sets["labels"] = labels /\ sets["status"] = "active"
      /\ sets["manifest"] = Keep /\ sets["error"] = Keep
  BY DEF Nothing, Columns, Values
<1>2. IsGiven(sets)
  BY <1>1 DEF IsGiven
<1>3. ask \in Request /\ ask.kind = "upsert" /\ ask.name = n /\ ask.sets = sets
  <2> HIDE DEF sets
  <2>1. QED
    BY <1>2, IdleRequest DEF Request, IsGiven
<1>4. IsAsk(ask)
  BY <1>1, <1>2, <1>3, LocationsAssumption DEF IsAsk
<1>5. QED
  BY <1>3, <1>4 DEF Upsert

LEMMA EntryIsAsk ==
  ASSUME NEW entries \in Seq(Entries), entries # <<>>
  PROVE  IsAsk(Entry(entries))
<1> DEFINE e   == Head(entries)
           ask == Upsert(e.name, e.meta, e.labels)
<1>1. e \in Entries /\ Tail(entries) \in Seq(Entries)
  OBVIOUS
<1>2. e.name \in Names /\ e.meta \in Metas /\ e.labels \in Labels \cup {None}
  BY <1>1 DEF Entries
<1>3. IsAsk(ask)
  BY <1>2, UpsertIsAsk
<1>4. Entry(entries) = [ask EXCEPT !.rest = Tail(entries)]
  BY DEF Entry
<1> HIDE DEF ask
<1>5. /\ Entry(entries) \in Request /\ Entry(entries).kind = ask.kind
      /\ Entry(entries).name = ask.name /\ Entry(entries).sets = ask.sets
  BY <1>1, <1>3, <1>4 DEF IsAsk, Request
<1>6. QED
  BY <1>3, <1>5 DEF IsAsk

-----------------------------------------------------------------------------
(* The invariant holds at first.                                           *)

LEMMA InitInv == Init => LocationsInv
<1> SUFFICES ASSUME Init PROVE LocationsInv
  OBVIOUS
<1>1. PICK k \in 0..Len(Yaml) :
        /\ rows = [id \in Ids |->
             IF id \in 1..k
             THEN [NoRow EXCEPT !.name = Yaml[id].name, !.meta = Yaml[id].meta,
                                !.labels = Yaml[id].labels, !.status = "active"]
             ELSE NoRow]
        /\ used = 1..k
  BY DEF Init
<1>2. ASSUME NEW id \in Ids
      PROVE  /\ id \in 1..k =>
                  rows[id] \in Row /\ rows[id].name = Yaml[id].name /\ rows[id].error = None
             /\ id \notin 1..k => rows[id] = NoRow
  <2>1. CASE id \in 1..k
    <3>1. Yaml[id] \in Entries
      BY <2>1, LocationsAssumption
    <3>2. rows[id] = [name |-> Yaml[id].name, meta |-> Yaml[id].meta,
                      labels |-> Yaml[id].labels, status |-> "active",
                      manifest |-> None, error |-> None]
      BY <1>1, <2>1 DEF NoRow
    <3>3. /\ Yaml[id].name \in Names
          /\ Yaml[id].meta \in Metas
          /\ Yaml[id].labels \in Labels \cup {None}
      BY <3>1 DEF Entries
    <3>4. rows[id] \in Row
      BY <3>2, <3>3, NewRow
    <3>5. QED
      BY <2>1, <3>2, <3>4
  <2>2. CASE id \notin 1..k
    BY <1>1, <2>2
  <2>3. QED
    BY <2>1, <2>2
<1>3. rows \in [Ids -> Row \cup {NoRow}] /\ used \subseteq Ids
  <2>1. rows = [id \in Ids |-> rows[id]]
    BY <1>1
  <2>2. 1..k \subseteq Ids
    BY LocationsAssumption
  <2>3. QED
    BY <1>1, <1>2, <2>1, <2>2
<1>4. NamesAreUnique
  <2>1. SUFFICES ASSUME NEW n \in Names, NEW i \in Find(n), NEW j \in Find(n) PROVE i = j
    BY DEF NamesAreUnique
  <2>2. NoRow.name \notin Names
    BY LocationsAssumption DEF NoRow
  <2>3. i \in 1..Len(Yaml) /\ j \in 1..Len(Yaml) /\ Yaml[i].name = Yaml[j].name
    BY <1>2, <2>1, <2>2 DEF Find
  <2>4. QED
    BY <2>3, LocationsAssumption
<1>5. \A r \in Requests : req[r] = Idle
  BY DEF Init
<1>6. \A r \in Requests : IsSound(req[r]) /\ req[r].at = "idle"
  BY <1>5, IdleIsSound DEF Idle
<1>7. TypeOK
  <2>1. \A n \in Names : Cardinality(Find(n)) <= 1
    BY <1>4, AtMostOne DEF NamesAreUnique
  <2>2. req \in [Requests -> Request]
    BY <1>5, IdleIsSound DEF Init, IsSound
  <2>3. QED
    BY <1>3, <2>1, <2>2, LocationsAssumption DEF Init, TypeOK
<1>8. ErrorIsOfTheLastReport
  <2>1. SUFFICES ASSUME NEW id \in Ids, IsRow(id)
                 PROVE  rows[id].error = None /\ reports[rows[id].name] = "none"
    BY DEF ErrorIsOfTheLastReport
  <2>2. rows[id] \in Row /\ rows[id].error = None
    BY <1>2, <2>1 DEF IsRow
  <2>3. QED
    BY <2>2 DEF Init, Row
<1>9. IdsAreUsed
  BY <1>1, <1>2, <1>6 DEF IdsAreUsed, IsRow
<1>10. QED
  BY <1>4, <1>6, <1>7, <1>8, <1>9
     DEF LocationsInv, RequestsAreSound, NameWasRead, ReadIsCurrent

-----------------------------------------------------------------------------
(* Steps that leave the table alone.                                       *)

\* One request goes on, or is over; at a write, it has just read a row.
LEMMA StepInv ==
  ASSUME LocationsInv, NEW r \in Requests, NEW q, IsSound(q),
         req' = [req EXCEPT ![r] = q],
         UNCHANGED <<sequence, rows, used, reports>>, asks' \in Nat,
         \/ orderly' = orderly /\ (req[r].at # "idle" \/ q.at = "idle")
         \/ orderly' = (orderly /\ \A s \in Requests : req[s].at = "idle"),
         q.at = "write" => IsRow(q.id) /\ q.read = rows[q.id] /\ rows[q.id].name = q.name
  PROVE  LocationsInv'
<1>1. /\ req'[r] = q
      /\ \A s \in Requests \ {r} : req'[s] = req[s]
      /\ req' \in [Requests -> Request]
  BY DEF LocationsInv, TypeOK, IsSound
<1>2. orderly' \in BOOLEAN /\ (orderly' => orderly)
  <2>1. orderly \in BOOLEAN
    BY DEF LocationsInv, TypeOK
  <2>2. CASE orderly' = orderly
    BY <2>1, <2>2
  <2>3. CASE orderly' = (orderly /\ \A s \in Requests : req[s].at = "idle")
    <3> HIDE <2>3
    <3>1. orderly' \in BOOLEAN
      BY <2>3, Zenon
    <3>2. QED
      BY <2>3, <3>1
  <2>4. QED
    BY <2>2, <2>3
<1>3. TypeOK'
  BY <1>1, <1>2 DEF LocationsInv, TypeOK, Find
<1>4. RequestsAreSound'
  BY <1>1 DEF LocationsInv, RequestsAreSound, IsSound, IsGiven, Request, Row
<1>5. NamesAreUnique'
  BY DEF LocationsInv, NamesAreUnique, Find
<1>6. IdsAreUsed'
  BY <1>1 DEF LocationsInv, IdsAreUsed, IsRow, IsSound
<1>7. NameWasRead'
  BY <1>1, <1>2 DEF LocationsInv, NameWasRead, IsRow
<1>8. ReadIsCurrent'
  BY <1>1, <1>2 DEF LocationsInv, ReadIsCurrent, IsRow
<1>9. ErrorIsOfTheLastReport'
  BY <1>2 DEF LocationsInv, ErrorIsOfTheLastReport, IsRow
<1>10. QED
  BY <1>3, <1>4, <1>5, <1>6, <1>7, <1>8, <1>9 DEF LocationsInv

LEMMA BeginInv ==
  ASSUME LocationsInv, NEW r \in Requests, NEW ask, Begin(r, ask), IsAsk(ask)
  PROVE  LocationsInv'
<1> DEFINE q == [ask EXCEPT !.at = "read"]
<1>1. asks' \in Nat
  BY DEF Begin, LocationsInv, TypeOK
<1>2. \A s \in Requests : req[s].kind = "idle" <=> req[s].at = "idle"
  BY DEF LocationsInv, RequestsAreSound, IsSound
<1>3. orderly' = (orderly /\ \A s \in Requests : req[s].kind = "idle")
  BY DEF Begin
<1>4. orderly' = (orderly /\ \A s \in Requests : req[s].at = "idle")
  BY <1>2, <1>3, Zenon
<1>5. /\ req' = [req EXCEPT ![r] = q]
      /\ UNCHANGED <<sequence, rows, used, reports>>
      /\ IsSound(q) /\ q.at = "read"
  BY AskIsSound DEF Begin
<1> HIDE DEF q
<1>6. QED
  BY <1>1, <1>4, <1>5, StepInv

\* Whatever request begins.
LEMMA AsksInv ==
  ASSUME LocationsInv, NEW r \in Requests,
         \/ AskUpsert(r) \/ AskYaml(r) \/ AskCreate(r) \/ AskUpdate(r) \/ AskDelete(r)
         \/ AskReport(r)
  PROVE  LocationsInv'
<1>1. CASE AskUpsert(r)
  BY <1>1, UpsertIsAsk, BeginInv DEF AskUpsert
<1>2. CASE AskYaml(r)
  BY <1>2, EntryIsAsk, BeginInv, LocationsAssumption DEF AskYaml
<1>3. CASE AskCreate(r)
  <2>1. PICK n \in Names, meta \in Metas :
          Begin(r, [Upsert(n, meta, None) EXCEPT !.kind = "create"])
    BY <1>3 DEF AskCreate
  <2>2. ASSUME NEW ask, IsAsk(ask), ask.kind = "upsert"
        PROVE  IsAsk([ask EXCEPT !.kind = "create"])
    <3>1. /\ [ask EXCEPT !.kind = "create"] \in Request
          /\ [ask EXCEPT !.kind = "create"].kind = "create"
          /\ [ask EXCEPT !.kind = "create"].name = ask.name
          /\ [ask EXCEPT !.kind = "create"].sets = ask.sets
      BY <2>2 DEF IsAsk, Request
    <3>2. QED
      BY <2>2, <3>1 DEF IsAsk
  <2>3. QED
    BY <2>1, <2>2, UpsertIsAsk, BeginInv
<1>4. CASE AskUpdate(r)
  <2>1. PICK n \in Names, meta \in Metas \cup {Keep}, labels \in Labels \cup {None, Keep},
             status \in {"active", "paused", Keep} :
          Begin(r, [Idle EXCEPT !.kind = "update", !.name = n,
                      !.sets = [Nothing EXCEPT !["meta"] = meta, !["labels"] = labels,
                                               !["status"] = status]])
    BY <1>4 DEF AskUpdate
  <2> DEFINE sets == [Nothing EXCEPT !["meta"] = meta, !["labels"] = labels,
                                     !["status"] = status]
             ask  == [Idle EXCEPT !.kind = "update", !.name = n, !.sets = sets]
  <2>2. IsGiven(sets) /\ sets["error"] = Keep
    BY DEF IsGiven, Nothing, Columns, Values
  <2>3. Begin(r, ask)
    BY <2>1
  <2> HIDE DEF sets
  <2>4. ask \in Request /\ ask.kind = "update" /\ ask.name = n /\ ask.sets = sets
    BY <2>2, IdleRequest DEF Request, IsGiven
  <2> HIDE DEF ask
  <2>5. QED
    BY <2>2, <2>3, <2>4, BeginInv DEF IsAsk
<1>5. CASE AskDelete(r)
  <2>1. PICK n \in Names : Begin(r, [Idle EXCEPT !.kind = "delete", !.name = n])
    BY <1>5 DEF AskDelete
  <2> DEFINE ask == [Idle EXCEPT !.kind = "delete", !.name = n]
  <2>2. ask \in Request /\ ask.kind = "delete" /\ ask.name = n /\ ask.sets = Idle.sets
    BY IdleRequest DEF Request
  <2>3. IsGiven(Idle.sets) /\ Idle.sets["error"] = Keep
    BY NothingIsGiven DEF Idle, Nothing, Columns
  <2>4. Begin(r, ask)
    BY <2>1
  <2> HIDE DEF ask
  <2>5. QED
    BY <2>2, <2>3, <2>4, BeginInv DEF IsAsk
<1>6. CASE AskReport(r)
  <2>1. PICK n \in Names, sets \in
               {Loaded(m) : m \in Manifests \cup {None}} \cup {Failed(e) : e \in Errors} :
          Begin(r, [Idle EXCEPT !.kind = "report", !.name = n, !.sets = sets])
    BY <1>6 DEF AskReport
  <2> DEFINE ask == [Idle EXCEPT !.kind = "report", !.name = n, !.sets = sets]
  <2>2. IsGiven(sets) /\ sets["error"] # Keep
    <3>1. CASE \E m \in Manifests \cup {None} : sets = Loaded(m)
      BY <3>1, LocationsAssumption DEF IsGiven, Loaded, Nothing, Columns, Values
    <3>2. CASE \E e \in Errors : sets = Failed(e)
      BY <3>2, LocationsAssumption DEF IsGiven, Failed, Nothing, Columns, Values
    <3>3. QED
      BY <3>1, <3>2
  <2>3. ask \in Request /\ ask.kind = "report" /\ ask.name = n /\ ask.sets = sets
    BY <2>2, IdleRequest DEF Request, IsGiven
  <2>4. Begin(r, ask)
    BY <2>1
  <2> HIDE DEF ask
  <2>5. QED
    BY <2>2, <2>3, <2>4, BeginInv DEF IsAsk
<1>7. QED
  BY <1>1, <1>2, <1>3, <1>4, <1>5, <1>6

LEMMA FinishInv ==
  ASSUME LocationsInv, NEW r \in Requests, Finish(r),
         UNCHANGED <<sequence, rows, used, reports, asks, orderly>>
  PROVE  LocationsInv'
<1>1. asks' \in Nat
  BY DEF LocationsInv, TypeOK
<1>2. Idle.at = "idle"
  BY DEF Idle
<1>3. QED
  BY <1>1, <1>2, IdleIsSound, StepInv DEF Finish

LEMMA ReadInv ==
  ASSUME LocationsInv, NEW r \in Requests, Read(r)
  PROVE  LocationsInv'
<1>1. /\ UNCHANGED <<sequence, rows, used, reports, asks, orderly>>
      /\ asks' \in Nat
      /\ req[r].at = "read"
      /\ req[r] \in Request /\ IsSound(req[r]) /\ req[r].name \in Names
      /\ req \in [Requests -> Request]
      /\ rows \in [Ids -> Row \cup {NoRow}]
  BY DEF Read, LocationsInv, TypeOK, RequestsAreSound, IsSound
<1>2. ASSUME NEW id \in Find(req[r].name),
             req' = [req EXCEPT ![r].at = "write", ![r].id = id, ![r].read = rows[id]]
      PROVE  LocationsInv'
  <2> DEFINE q == [req[r] EXCEPT !.at = "write", !.id = id, !.read = rows[id]]
  <2>1. req' = [req EXCEPT ![r] = q]
    BY <1>2, Zenon
  <2>2. id \in Ids /\ rows[id].name = req[r].name /\ IsRow(id) /\ rows[id] \in Row
    <3>1. id \in Ids /\ rows[id].name = req[r].name
      BY DEF Find
    <3>2. NoRow.name \notin Names
      BY LocationsAssumption DEF NoRow
    <3>3. QED
      BY <1>1, <3>1, <3>2 DEF IsRow
  <2>3. /\ q \in Request
        /\ q.kind = req[r].kind /\ q.at = "write" /\ q.name = req[r].name
        /\ q.id = id /\ q.read = rows[id] /\ q.sets = req[r].sets
    BY <1>1, <2>2 DEF Request
  <2>4. IsSound(q)
    BY <1>1, <2>2, <2>3 DEF IsSound
  <2> HIDE DEF q
  <2>5. QED
    BY <1>1, <2>1, <2>2, <2>3, <2>4, StepInv
<1>3. ASSUME req' = [req EXCEPT ![r].at = "insert"], req[r].kind \in {"upsert", "create"}
      PROVE  LocationsInv'
  <2> DEFINE q == [req[r] EXCEPT !.at = "insert"]
  <2>1. req' = [req EXCEPT ![r] = q]
    BY <1>3, Zenon
  <2>2. /\ q \in Request
        /\ q.kind = req[r].kind /\ q.at = "insert" /\ q.name = req[r].name
        /\ q.sets = req[r].sets
    BY <1>1 DEF Request
  <2>3. IsSound(q)
    BY <1>1, <1>3, <2>2 DEF IsSound
  <2> HIDE DEF q
  <2>4. QED
    BY <1>1, <2>1, <2>2, <2>3, StepInv
<1>4. CASE Finish(r)
  BY <1>1, <1>4, FinishInv
<1>5. QED
  BY <1>2, <1>3, <1>4 DEF Read

-----------------------------------------------------------------------------
(* Steps that change the table.                                            *)

\* A request that has committed is over, or reads again for its next entry.
LEMMA DoneIsSound ==
  ASSUME LocationsInv, NEW r \in Requests, Done(r)
  PROVE  \E q : IsSound(q) /\ q.at \in {"idle", "read"} /\ req' = [req EXCEPT ![r] = q]
<1>1. CASE req[r].rest = <<>>
  BY <1>1, IdleIsSound DEF Done, Idle
<1>2. CASE req[r].rest # <<>>
  <2>1. req[r].rest \in Seq(Entries)
    BY DEF LocationsInv, TypeOK, Request
  <2>2. req' = [req EXCEPT ![r] = [Entry(req[r].rest) EXCEPT !.at = "read"]]
    BY <1>2 DEF Done
  <2>3. QED
    BY <1>2, <2>1, <2>2, EntryIsAsk, AskIsSound
<1>3. QED
  BY <1>1, <1>2

\* A commit keeps the invariant if the names stay unique, an id that was given
\* stays with its location, and the errors are those of the last reports.
LEMMA TableInv ==
  ASSUME LocationsInv, NEW r \in Requests, req[r].at # "idle",
         NEW q, IsSound(q), q.at \in {"idle", "read"}, req' = [req EXCEPT ![r] = q],
         rows' \in [Ids -> Row \cup {NoRow}], used \subseteq used', used' \subseteq Ids,
         reports' \in [Names -> {"none", "loaded", "failed"}],
         NamesAreUnique', ErrorIsOfTheLastReport',
         \A id \in Ids : rows'[id] # NoRow => id \in used',
         \A id \in used : sequence /\ rows'[id] # NoRow =>
           rows[id] # NoRow /\ rows'[id].name = rows[id].name,
         UNCHANGED <<sequence, asks, orderly>>
  PROVE  LocationsInv'
<1>1. /\ req'[r] = q
      /\ \A s \in Requests \ {r} : req'[s] = req[s]
      /\ req' \in [Requests -> Request]
  BY DEF LocationsInv, TypeOK, IsSound
<1>2. TypeOK'
  <2>1. \A n \in Names : Cardinality(Find(n)') <= 1
    BY AtMostOne DEF NamesAreUnique
  <2>2. QED
    BY <1>1, <2>1 DEF LocationsInv, TypeOK
<1>3. RequestsAreSound'
  BY <1>1 DEF LocationsInv, RequestsAreSound, IsSound, IsGiven, Request, Row
<1>4. IdsAreUsed'
  BY <1>1 DEF LocationsInv, IdsAreUsed, IsRow
<1>5. orderly => \A s \in Requests : req'[s].at # "write"
  BY <1>1 DEF LocationsInv, ReadIsCurrent
<1>6. NameWasRead'
  <2>1. SUFFICES ASSUME sequence, NEW s \in Requests, req'[s].at = "write",
                        rows'[req'[s].id] # NoRow
                 PROVE  rows'[req'[s].id].name = req'[s].name
    BY <1>5 DEF NameWasRead, IsRow
  <2>2. s # r /\ req'[s] = req[s] /\ req[s].id \in used
    BY <1>1, <2>1 DEF LocationsInv, IdsAreUsed
  <2>3. QED
    BY <2>1, <2>2 DEF LocationsInv, NameWasRead, IsRow
<1>7. ReadIsCurrent'
  BY <1>1, <1>5 DEF LocationsInv, ReadIsCurrent
<1>8. QED
  BY <1>2, <1>3, <1>4, <1>6, <1>7 DEF LocationsInv

\* Who is at a write has an id and a row, and it is the row if all come in turn.
LEMMA AtWrite ==
  ASSUME LocationsInv, NEW r \in Requests, req[r].at = "write"
  PROVE  /\ req[r].id \in Ids /\ req[r].id \in used
         /\ req[r].name \in Names /\ IsGiven(req[r].sets)
         /\ req[r].kind = "report" <=> req[r].sets["error"] # Keep
         /\ orderly => rows[req[r].id].name = req[r].name /\ req[r].read = rows[req[r].id]
BY DEF LocationsInv, RequestsAreSound, IsSound, IdsAreUsed, NameWasRead, ReadIsCurrent

LEMMA WriteInv ==
  ASSUME LocationsInv, NEW r \in Requests, Write(r)
  PROVE  LocationsInv'
<1> DEFINE id  == req[r].id
           new == Flushed(req[r].read, req[r].sets, rows[id])
<1>1. req[r].at = "write" /\ req[r].kind # "delete"
  BY DEF Write
<1>2. CASE ~IsRow(id) /\ Finish(r) /\ UNCHANGED <<rows, reports>>
  BY <1>2, FinishInv DEF Write
<1>3. ASSUME IsRow(id), rows' = [rows EXCEPT ![id] = new], Reported(r), Done(r)
      PROVE  LocationsInv'
  <2>1. PICK q : IsSound(q) /\ q.at \in {"idle", "read"} /\ req' = [req EXCEPT ![r] = q]
    BY <1>3, DoneIsSound
  <2>2. id \in Ids /\ id \in used /\ rows[id] \in Row /\ rows \in [Ids -> Row \cup {NoRow}]
    BY <1>1, <1>3, AtWrite DEF LocationsInv, TypeOK, IsRow
  <2>3. /\ new \in Row /\ new.name = rows[id].name
        /\ new["error"] = IF /\ req[r].sets["error"] # Keep
                             /\ req[r].sets["error"] # req[r].read["error"]
                          THEN req[r].sets["error"] ELSE rows[id]["error"]
    <3>1. IsGiven(req[r].sets) /\ "error" \in Columns
      BY <1>1, AtWrite DEF Columns
    <3>2. new \in Row /\ new.name = rows[id].name
      BY <2>2, <3>1, FlushedRow
    <3>3. QED
      BY <3>1, <3>2, FlushedColumns
  <2> HIDE DEF new
  <2>4. /\ rows'[id] = new
        /\ \A i \in Ids \ {id} : rows'[i] = rows[i]
        /\ \A i \in Ids : rows'[i].name = rows[i].name
        /\ \A i \in Ids : IsRow(i)' <=> IsRow(i)
        /\ rows' \in [Ids -> Row \cup {NoRow}]
    BY <1>3, <2>2, <2>3, NoRowIsNone DEF IsRow
  <2>5. NamesAreUnique'
    BY <2>4 DEF LocationsInv, NamesAreUnique, Find
  <2>6. reports' \in [Names -> {"none", "loaded", "failed"}]
    BY <1>3 DEF Reported, LocationsInv, TypeOK
  <2>7. ErrorIsOfTheLastReport'
    <3>1. SUFFICES ASSUME orderly, NEW i \in Ids, IsRow(i)
                   PROVE  rows'[i].error # None <=> reports'[rows[i].name] = "failed"
      BY <2>4 DEF ErrorIsOfTheLastReport, Write
    <3>2. rows[i] \in Row /\ rows[i].name \in Names
      BY <2>2, <3>1 DEF IsRow, Row
    <3>3. rows[i].error # None <=> reports[rows[i].name] = "failed"
      BY <3>1 DEF LocationsInv, ErrorIsOfTheLastReport
    <3>4. rows[id].name = req[r].name /\ req[r].read = rows[id]
      BY <1>1, <3>1, AtWrite
    <3>5. CASE i # id
      <4>1. rows[i].name # req[r].name
        BY <2>2, <3>2, <3>4, <3>5 DEF LocationsInv, NamesAreUnique, Find
      <4>2. reports'[rows[i].name] = reports[rows[i].name]
        BY <1>3, <3>2, <4>1 DEF Reported, LocationsInv, TypeOK
      <4>3. QED
        BY <2>4, <3>3, <3>5, <4>2
    <3>6. CASE i = id /\ req[r].kind = "report"
      <4>1. req[r].sets["error"] # Keep
        BY <1>1, <3>6, AtWrite
      <4>2. rows'[i].error = req[r].sets["error"]
        BY <2>3, <2>4, <3>4, <3>6, <4>1
      <4>3. reports'[rows[i].name] =
              IF req[r].sets["error"] = None THEN "loaded" ELSE "failed"
        BY <1>3, <3>2, <3>4, <3>6 DEF Reported, LocationsInv, TypeOK
      <4>4. QED
        BY <4>2, <4>3
    <3>7. CASE i = id /\ req[r].kind # "report"
      <4>1. req[r].sets["error"] = Keep
        BY <1>1, <3>7, AtWrite
      <4>2. rows'[i].error = rows[i].error /\ reports' = reports
        BY <1>3, <2>3, <2>4, <3>7, <4>1 DEF Reported
      <4>3. QED
        BY <3>3, <4>2
    <3>8. QED
      BY <3>5, <3>6, <3>7
  <2>8. \A i \in Ids : rows'[i] # NoRow => i \in used'
    BY <2>4 DEF LocationsInv, IdsAreUsed, IsRow, Write
  <2>9. /\ UNCHANGED <<sequence, used, asks, orderly>>
        /\ used \subseteq Ids
    BY DEF Write, LocationsInv, TypeOK
  <2>10. QED
    BY <1>1, <2>1, <2>4, <2>5, <2>6, <2>7, <2>8, <2>9, TableInv DEF IsRow
<1>4. QED
  BY <1>2, <1>3 DEF Write

\* The id of a new row was not one of a row, nor, from a sequence, ever given.
LEMMA NextIdIsNew ==
  ASSUME LocationsInv, NEW id \in Ids, IsNextId(id)
  PROVE  ~IsRow(id) /\ (sequence => id \notin used)
<1>1. ASSUME NEW taken \in SUBSET Ids, Follows(id, taken)
      PROVE  id \notin taken
  BY <1>1, LocationsAssumption DEF Follows
<1>2. CASE sequence
  BY <1>1, <1>2 DEF IsNextId, LocationsInv, TypeOK, IdsAreUsed
<1>3. CASE ~sequence
  BY <1>1, <1>3 DEF IsNextId
<1>4. QED
  BY <1>2, <1>3

LEMMA InsertInv ==
  ASSUME LocationsInv, NEW r \in Requests, Insert(r)
  PROVE  LocationsInv'
<1> DEFINE n    == req[r].name
           sets == req[r].sets
           new  == [name |-> n, meta |-> sets["meta"], labels |-> sets["labels"],
                    status |-> sets["status"], manifest |-> None, error |-> None]
<1>1. /\ req[r].at = "insert" /\ n \in Names
      /\ UNCHANGED <<sequence, asks, orderly>>
      /\ rows \in [Ids -> Row \cup {NoRow}] /\ used \subseteq Ids
      /\ reports \in [Names -> {"none", "loaded", "failed"}]
  BY DEF Insert, LocationsInv, TypeOK, RequestsAreSound, IsSound
<1>2. CASE ~IsFree(n) /\ Finish(r) /\ UNCHANGED <<rows, used, reports>>
  BY <1>1, <1>2, FinishInv
<1>3. ASSUME IsFree(n), NEW id \in Ids, IsNextId(id), rows' = [rows EXCEPT ![id] = new],
             used' = used \cup {id}, reports' = [reports EXCEPT ![n] = "none"], Done(r)
      PROVE  LocationsInv'
  <2>1. PICK q : IsSound(q) /\ q.at \in {"idle", "read"} /\ req' = [req EXCEPT ![r] = q]
    BY <1>3, DoneIsSound
  <2>2. ~IsRow(id) /\ (sequence => id \notin used)
    BY <1>3, NextIdIsNew
  <2>3. new \in Row
    <3>1. /\ sets["meta"] \in Metas
          /\ sets["labels"] \in Labels \cup {None}
          /\ sets["status"] \in {"active", "paused"}
      BY <1>1 DEF LocationsInv, RequestsAreSound, IsSound, IsGiven
    <3>2. QED
      BY <1>1, <3>1, NewRow
  <2>4. new.name = n /\ new.error = None
    OBVIOUS
  <2> HIDE DEF new
  <2>5. /\ rows'[id] = new
        /\ \A i \in Ids \ {id} : rows'[i] = rows[i]
        /\ rows' \in [Ids -> Row \cup {NoRow}]
    BY <1>1, <1>3, <2>3
  <2>6. \A i \in Ids \ {id} : rows'[i].name # n
    BY <1>3, <2>5 DEF IsFree, Find
  <2>7. NamesAreUnique'
    <3>1. SUFFICES ASSUME NEW m \in Names, NEW i \in Ids, NEW j \in Ids,
                          rows'[i].name = m, rows'[j].name = m
                   PROVE  i = j
      BY DEF NamesAreUnique, Find
    <3>2. CASE i = id \/ j = id
      BY <2>4, <2>5, <2>6, <3>1, <3>2
    <3>3. CASE i # id /\ j # id
      BY <2>5, <3>1, <3>3 DEF LocationsInv, NamesAreUnique, Find
    <3>4. QED
      BY <3>2, <3>3
  <2>8. ErrorIsOfTheLastReport'
    <3>1. SUFFICES ASSUME orderly, NEW i \in Ids, rows'[i] # NoRow
                   PROVE  rows'[i].error # None <=> reports'[rows'[i].name] = "failed"
      BY <1>1 DEF ErrorIsOfTheLastReport, IsRow
    <3>2. CASE i = id
      BY <1>1, <1>3, <2>4, <2>5, <3>2
    <3>3. CASE i # id
      <4>1. rows'[i] = rows[i] /\ rows[i] \in Row /\ rows[i].name \in Names
        BY <1>1, <2>5, <3>1, <3>3 DEF Row
      <4>2. rows[i].error # None <=> reports[rows[i].name] = "failed"
        BY <3>1, <4>1 DEF LocationsInv, ErrorIsOfTheLastReport, IsRow
      <4>3. reports'[rows[i].name] = reports[rows[i].name]
        BY <1>1, <1>3, <2>6, <3>3, <4>1
      <4>4. QED
        BY <4>1, <4>2, <4>3
    <3>4. QED
      BY <3>2, <3>3
  <2>9. \A i \in Ids : rows'[i] # NoRow => i \in used'
    BY <1>3, <2>5 DEF LocationsInv, IdsAreUsed, IsRow
  <2>10. \A i \in used : sequence /\ rows'[i] # NoRow =>
           rows[i] # NoRow /\ rows'[i].name = rows[i].name
    BY <1>1, <2>2, <2>5
  <2>11. /\ reports' \in [Names -> {"none", "loaded", "failed"}]
         /\ used \subseteq used' /\ used' \subseteq Ids
    BY <1>1, <1>3
  <2>12. QED
    BY <1>1, <2>1, <2>5, <2>7, <2>8, <2>9, <2>10, <2>11, TableInv
<1>4. QED
  BY <1>2, <1>3 DEF Insert

LEMMA DeleteInv ==
  ASSUME LocationsInv, NEW r \in Requests, Delete(r)
  PROVE  LocationsInv'
<1>1. /\ req[r].at = "write" /\ req[r].id \in Ids
      /\ rows' = [rows EXCEPT ![req[r].id] = NoRow]
      /\ req' = [req EXCEPT ![r] = Idle]
      /\ UNCHANGED <<sequence, used, reports, asks, orderly>>
      /\ rows \in [Ids -> Row \cup {NoRow}] /\ used \subseteq Ids
      /\ reports \in [Names -> {"none", "loaded", "failed"}]
  BY AtWrite DEF Delete, Finish, LocationsInv, TypeOK
<1>2. /\ rows' \in [Ids -> Row \cup {NoRow}]
      /\ \A i \in Ids : rows'[i] # NoRow => i # req[r].id /\ rows'[i] = rows[i]
  BY <1>1
<1>3. NamesAreUnique'
  <2>1. NoRow.name \notin Names
    BY LocationsAssumption DEF NoRow
  <2>2. \A m \in Names : Find(m)' \subseteq Find(m)
    BY <1>2, <2>1 DEF Find
  <2>3. QED
    BY <2>2 DEF LocationsInv, NamesAreUnique
<1>4. ErrorIsOfTheLastReport'
  BY <1>1, <1>2 DEF LocationsInv, ErrorIsOfTheLastReport, IsRow
<1>5. \A i \in Ids : rows'[i] # NoRow => i \in used
  BY <1>2 DEF LocationsInv, IdsAreUsed, IsRow
<1>6. \A i \in used : rows'[i] # NoRow => rows[i] # NoRow /\ rows'[i].name = rows[i].name
  BY <1>1, <1>2
<1>7. IsSound(Idle) /\ Idle.at = "idle"
  BY IdleIsSound DEF Idle
<1>8. QED
  BY <1>1, <1>2, <1>3, <1>4, <1>5, <1>6, <1>7, TableInv

-----------------------------------------------------------------------------
(* The theorems.                                                           *)

LEMMA NextInv == LocationsInv /\ [Next]_vars => LocationsInv'
<1> SUFFICES ASSUME LocationsInv, [Next]_vars PROVE LocationsInv'
  OBVIOUS
<1>1. ASSUME NEW r \in Requests,
             \/ AskUpsert(r) \/ AskYaml(r) \/ AskCreate(r) \/ AskUpdate(r) \/ AskDelete(r)
             \/ AskReport(r)
      PROVE  LocationsInv'
  BY <1>1, AsksInv
<1>2. ASSUME NEW r \in Requests, Read(r) PROVE LocationsInv'
  BY <1>2, ReadInv
<1>3. ASSUME NEW r \in Requests, Write(r) PROVE LocationsInv'
  BY <1>3, WriteInv
<1>4. ASSUME NEW r \in Requests, Insert(r) PROVE LocationsInv'
  BY <1>4, InsertInv
<1>5. ASSUME NEW r \in Requests, Delete(r) PROVE LocationsInv'
  BY <1>5, DeleteInv
<1>6. ASSUME NEW r \in Requests, Abort(r) PROVE LocationsInv'
  BY <1>6, FinishInv DEF Abort
<1>7. CASE UNCHANGED vars
  BY <1>7 DEF vars, LocationsInv, TypeOK, RequestsAreSound, NamesAreUnique, Find,
    IdsAreUsed, NameWasRead, ReadIsCurrent, ErrorIsOfTheLastReport, IsRow, IsSound,
    IsGiven, Request, Row
<1>8. QED
  BY <1>1, <1>2, <1>3, <1>4, <1>5, <1>6, <1>7 DEF Next

\* The inductive invariant: what requests at work may have read, and that it is
\* still the row of their location where it has to be.
THEOREM LocationsInvariant == Spec => []LocationsInv
<1>1. QED
  BY InitInv, NextInv, PTL DEF Spec

\* Every variable has a value of its kind, and a location has one row: what the
\* unique location_name of code_location_definitions is there for.
THEOREM LocationsTypeOK == Spec => []TypeOK
<1>1. LocationsInv => TypeOK
  BY DEF LocationsInv
<1>2. QED
  BY <1>1, LocationsInvariant, PTL

\* In turn, load_error is set exactly if the last report of the location was of
\* an error, whatever updates and deletions came in between.
THEOREM ErrorsAreOfTheLastReport == Spec => []ErrorIsOfTheLastReport
<1>1. LocationsInv => ErrorIsOfTheLastReport
  BY DEF LocationsInv
<1>2. QED
  BY <1>1, LocationsInvariant, PTL

\* A row that is there changes in the UPDATE or the DELETE by its id.
LEMMA RowChanges ==
  ASSUME LocationsInv, [Next]_vars, NEW id \in Ids, IsRow(id), rows'[id] # rows[id]
  PROVE  \E r \in Requests :
           /\ req[r].at = "write" /\ req[r].id = id /\ req'[r].at # "write"
           /\ Write(r) \/ rows'[id] = NoRow
<1>1. PICK r \in Requests : Write(r) \/ Insert(r) \/ Delete(r)
  <2>1. ASSUME NEW r \in Requests,
               \/ AskUpsert(r) \/ AskYaml(r) \/ AskCreate(r) \/ AskUpdate(r) \/ AskDelete(r)
               \/ AskReport(r) \/ Read(r) \/ Abort(r)
        PROVE  rows' = rows
    BY <2>1 DEF AskUpsert, AskYaml, AskCreate, AskUpdate, AskDelete, AskReport, Begin,
      Read, Abort
  <2>2. CASE UNCHANGED vars
    BY <2>2 DEF vars
  <2>3. QED
    BY <2>1, <2>2 DEF Next
<1>2. rows \in [Ids -> Row \cup {NoRow}] /\ req \in [Requests -> Request]
  BY DEF LocationsInv, TypeOK
<1>3. ~Insert(r)
  <2>1. SUFFICES ASSUME Insert(r) PROVE FALSE
    OBVIOUS
  <2>2. PICK i \in Ids : IsNextId(i) /\ \A j \in Ids \ {i} : rows'[j] = rows[j]
    BY <1>2, <2>1 DEF Insert
  <2>3. QED
    BY <2>2, NextIdIsNew
<1>4. CASE Write(r)
  <2>1. PICK q : q.at \in {"idle", "read"} /\ req' = [req EXCEPT ![r] = q]
    BY <1>4, DoneIsSound DEF Write
  <2>2. req[r].at = "write" /\ req[r].id = id
    BY <1>2, <1>4 DEF Write
  <2>3. req'[r].at # "write"
    BY <1>2, <2>1
  <2>4. QED
    BY <1>4, <2>2, <2>3
<1>5. CASE Delete(r)
  <2>1. Idle.at = "idle"
    BY DEF Idle
  <2>2. QED
    BY <1>2, <1>5, <2>1 DEF Delete, Finish
<1>6. QED
  BY <1>1, <1>3, <1>4, <1>5

\* A column changes only to what the committing request assigned: the ORM sends
\* nothing of what it only read, so no commit brings back an older value.
THEOREM ColumnsChangeAsGiven == Spec => ColumnsChangeToWhatWasGiven
<1>1. ASSUME LocationsInv, [Next]_vars, NEW id \in Ids, NEW c \in Columns,
             IsRow(id), rows'[id] # NoRow, rows'[id][c] # rows[id][c]
      PROVE  \E r \in Requests :
               req[r].at = "write" /\ req'[r] # req[r] /\ rows'[id][c] = req[r].sets[c]
  <2>1. PICK r \in Requests :
          req[r].at = "write" /\ req[r].id = id /\ req'[r].at # "write" /\ Write(r)
    BY <1>1, RowChanges
  <2>2. rows \in [Ids -> Row \cup {NoRow}] /\ rows[id] \in Row /\ IsGiven(req[r].sets)
    BY <1>1, <2>1, AtWrite DEF LocationsInv, TypeOK, IsRow
  <2>3. rows'[id] = Flushed(req[r].read, req[r].sets, rows[id])
    BY <1>1, <2>1, <2>2 DEF Write
  <2>4. rows'[id][c] = req[r].sets[c]
    BY <1>1, <2>3, FlushedColumns
  <2>5. QED
    BY <2>1, <2>4
<1>2. LocationsInv /\ [Next]_vars =>
        [\A id \in Ids, c \in Columns :
           IsRow(id) /\ rows'[id] # NoRow /\ rows'[id][c] # rows[id][c] =>
             \E r \in Requests :
               req[r].at = "write" /\ req'[r] # req[r] /\ rows'[id][c] = req[r].sets[c]]_vars
  BY <1>1
<1>3. QED
  BY <1>2, LocationsInvariant, PTL DEF Spec, ColumnsChangeToWhatWasGiven

\* Where ids are not given again, or requests come in turn, a request changes
\* and deletes rows of its own location only.
THEOREM RowsChangeByName == Spec => RowsChangeUnderTheirName
<1>1. ASSUME LocationsInv, [Next]_vars, sequence \/ orderly, NEW id \in Ids,
             IsRow(id), rows'[id] # rows[id]
      PROVE  \E r \in Requests : req[r].name = rows[id].name /\ req'[r] # req[r]
  BY <1>1, RowChanges DEF LocationsInv, NameWasRead
<1>2. LocationsInv /\ [Next]_vars =>
        [sequence \/ orderly =>
           \A id \in Ids :
             IsRow(id) /\ rows'[id] # rows[id] =>
               \E r \in Requests : req[r].name = rows[id].name /\ req'[r] # req[r]]_vars
  BY <1>1
<1>3. QED
  BY <1>2, LocationsInvariant, PTL DEF Spec, RowsChangeUnderTheirName

=============================================================================
