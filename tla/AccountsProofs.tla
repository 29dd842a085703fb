--------------------------- MODULE AccountsProofs ---------------------------
(***************************************************************************)
(* Proofs about Accounts, for every number of users, roles, locations,     *)
(* keys, forms and requests being handled at the same time.                *)
(***************************************************************************)
EXTENDS Accounts, TLAPS

USE AccountsAssumption
    DEF BuiltinRoles, RoleNames, Scopes, Permissions, Entries, tables, history,
        Assignment, Flags, At, IsUser, IsNamed

\* What a request at each place has been given or has read
Filled(x) ==
  /\ x.at \in {"create", "insertUser"} => x.name \in Names
  /\ x.at = "insertUser" => x.role \in RoleNames
  /\ x.at \in {"setActive", "replace", "remove", "cliInsert", "insertKey"} => x.uid \in Uids
  /\ x.at \in {"createRole", "editRole", "countRole", "dropRole"} => x.role \in Customs
  /\ x.at = "revoke" => x.key \in Keys

TypesOfTables ==
  /\ users \in [Uids -> Names \cup {None}]
  /\ services \subseteq Uids
  /\ active \subseteq Uids
  /\ stage \in [Customs -> {"unused", "live", "gone"}]
  /\ grant \in [Customs -> SUBSET Permissions]
  /\ rows \subseteq Assignment
  /\ owner \in [Keys -> Uids \cup {None}]
  /\ keyState \in [Keys -> {"unused", "active", "revoked", "gone"}]
  /\ asks \in 0..MaxAsks
  /\ orderly \in BOOLEAN
  /\ unguarded \in BOOLEAN
  /\ \A u \in services : IsUser(u)

Types ==
  /\ TypesOfTables
  /\ req \in [Requests -> RequestRecord]
  /\ \A r \in Requests : Filled(req[r])

\* A step of a request ends with a record that is filled in.
Steps(r) == \E x \in RequestRecord : Filled(x) /\ req' = [req EXCEPT ![r] = x]

LEMMA ListTypes ==
  /\ <<>> \in Lists
  /\ \A e \in Entries : <<e>> \in Lists
  /\ \A form \in Lists : \A i \in DOMAIN form : form[i] \in Entries
<1>1. <<>> \in Lists /\ \A e \in Entries : <<e>> \in Lists
  BY DEF Lists
<1>2. ASSUME NEW form \in Lists, NEW i \in DOMAIN form PROVE form[i] \in Entries
  <2> HIDE DEF Entries
  <2>1. DOMAIN form = 1..Len(form) /\ form \in [1..Len(form) -> Entries]
    BY DEF Lists
  <2>2. QED
    BY <2>1
<1>3. QED
  BY <1>1, <1>2

LEMMA IdleType == Idle \in RequestRecord /\ Filled(Idle)
  BY ListTypes DEF Idle, RequestRecord, Places, Filled

LEMMA InitTypes == Init => Types
<1> SUFFICES ASSUME Init PROVE Types
  OBVIOUS
<1>1. PICK root \in Uids, i \in Ids :
         /\ users = [u \in Uids |-> IF u = root THEN Root ELSE None]
         /\ rows = {[id |-> i, uid |-> root, role |-> "admin", scope |-> Global]}
  BY DEF Init
<1>2. /\ services = {} /\ active \subseteq Uids
      /\ stage = [c \in Customs |-> "unused"] /\ grant = [c \in Customs |-> {}]
      /\ owner = [k \in Keys |-> None] /\ keyState = [k \in Keys |-> "unused"]
      /\ req = [r \in Requests |-> Idle]
      /\ asks = 0 /\ orderly = TRUE /\ unguarded = FALSE
  BY DEF Init
<1>3. users \in [Uids -> Names \cup {None}] /\ rows \subseteq Assignment
  BY <1>1
<1>4. /\ stage \in [Customs -> {"unused", "live", "gone"}]
      /\ grant \in [Customs -> SUBSET Permissions]
      /\ owner \in [Keys -> Uids \cup {None}]
      /\ keyState \in [Keys -> {"unused", "active", "revoked", "gone"}]
  BY <1>2
<1>5. asks \in 0..MaxAsks
  BY <1>2
<1>6. orderly \in BOOLEAN /\ unguarded \in BOOLEAN
  BY <1>2, Zenon
<1>7. TypesOfTables
  BY <1>2, <1>3, <1>4, <1>5, <1>6, Zenon DEF TypesOfTables
<1>8. QED
  BY <1>7, <1>2, IdleType DEF Types

LEMMA StepTypes ==
  ASSUME Types, NEW r \in Requests, Steps(r), TypesOfTables'
  PROVE  Types'
BY DEF Types, TypesOfTables, TypesOfTables, Steps

LEMMA RecordAt ==
  ASSUME Types, NEW r \in Requests, NEW place \in Places, Goto(r, place),
         place \in {"check", "mint", "update", "assign", "dropRole"},
         place = "dropRole" => req[r].role \in Customs
  PROVE  Steps(r)
<1> DEFINE x == [req[r] EXCEPT !.at = place]
<1>1. req[r] \in RequestRecord
  BY DEF Types, TypesOfTables
<1>2. x \in RequestRecord
  BY <1>1 DEF RequestRecord
<1>3. Filled(x)
  BY <1>1 DEF RequestRecord, Filled
<1>4. req' = [req EXCEPT ![r] = x]
  BY DEF Goto
<1>5. QED
  BY <1>2, <1>3, <1>4 DEF Steps

LEMMA RecordIdle == ASSUME NEW r \in Requests, Finish(r) PROVE Steps(r)
  BY IdleType DEF Finish, Steps

\* Rows that are inserted come beside those kept, and are of the user and form.
LEMMA InsertedRows ==
  ASSUME NEW u \in Uids, NEW form \in Lists, NEW kept, Inserted(u, form, kept)
  PROVE  \A a \in rows' :
           \/ a \in kept
           \/ a \in Assignment /\ a.uid = u /\ \E i \in DOMAIN form : a.role = form[i].role
<1>1. PICK ids \in [DOMAIN form -> Ids] : rows' = kept \cup NewRows(u, form, ids)
  BY DEF Inserted
<1>2. \A a \in NewRows(u, form, ids) :
         a \in Assignment /\ a.uid = u /\ \E i \in DOMAIN form : a.role = form[i].role
  BY ListTypes DEF NewRows
<1>3. QED
  BY <1>1, <1>2

LEMMA LookUpSteps ==
  ASSUME Types, NEW r \in Requests, LookUp(r)
  PROVE  Steps(r)
<1>1. req[r] \in RequestRecord /\ req[r].name \in Names
  BY DEF Types, Filled, LookUp
<1>2. ASSUME NEW ro \in RoleNames,
             req' = [req EXCEPT ![r].at = "insertUser", ![r].role = ro]
      PROVE  Steps(r)
  <2> DEFINE x == [req[r] EXCEPT !.at = "insertUser", !.role = ro]
  <2> HIDE AccountsAssumption
  <2>1. x \in RequestRecord /\ Filled(x)
    <3>1. x \in RequestRecord
      BY <1>1, Zenon DEF RequestRecord, Places
    <3>2. Filled(x)
      BY <1>1, Zenon DEF RequestRecord, Filled
    <3>3. QED
      BY <3>1, <3>2
  <2>2. req' = [req EXCEPT ![r] = x]
    BY <1>2
  <2>3. QED
    BY <2>1, <2>2 DEF Steps
<1>3. QED
  BY <1>2, RecordIdle DEF LookUp

LEMMA InsertUserTypes ==
  ASSUME Types, NEW r \in Requests, InsertUser(r)
  PROVE  Types'
<1> DEFINE x == req[r]
           first == <<[role |-> x.role, scope |-> Global]>>
           y == [x EXCEPT !.at = "assign", !.role = None]
<1>1. x \in RequestRecord /\ x.name \in Names /\ x.role \in RoleNames
  BY DEF Types, Filled, InsertUser
<1>2. y \in RequestRecord /\ Filled(y)
  BY <1>1 DEF RequestRecord, Places, Filled
<1>3. Steps(r)
  <2> HIDE AccountsAssumption
  <2>1. req' = [req EXCEPT ![r].at = "assign", ![r].role = None] \/ Finish(r)
    BY Zenon DEF InsertUser
  <2>2. ASSUME req' = [req EXCEPT ![r].at = "assign", ![r].role = None]
        PROVE  req' = [req EXCEPT ![r] = y]
    BY <2>2
  <2>3. QED
    BY <2>1, <2>2, <1>2, RecordIdle DEF Steps
<1>4. first \in Lists
  BY <1>1, ListTypes
<1>5. UNCHANGED <<stage, grant, owner, keyState, history>>
  BY DEF InsertUser
<1>6. CASE UNCHANGED <<users, services, active, rows>>
  <2>1. TypesOfTables'
    BY <1>5, <1>6 DEF TypesOfTables, Types
  <2>2. QED
    BY <2>1, <1>3, StepTypes
<1>7. CASE \E u \in Uids :
             /\ users' = [users EXCEPT ![u] = x.name]
             /\ services' = IF x.service THEN services \cup {u} ELSE services
             /\ active' = active \cup {u}
             /\ Inserted(u, first, rows)
  <2>1. PICK u \in Uids :
          /\ users' = [users EXCEPT ![u] = x.name]
          /\ services' = IF x.service THEN services \cup {u} ELSE services
          /\ active' = active \cup {u}
          /\ Inserted(u, first, rows)
    BY <1>7
  <2>2. /\ users' \in [Uids -> Names \cup {None}]
        /\ services' \subseteq Uids /\ active' \subseteq Uids
    BY <1>1, <2>1 DEF Types, TypesOfTables
  <2>3. \A v \in services' : IsUser(v)'
    BY <1>1, <2>1 DEF Types, TypesOfTables
  <2> HIDE DEF first
  <2>4. rows' \subseteq Assignment
    BY <1>4, <2>1, InsertedRows DEF Types, TypesOfTables
  <2>5. TypesOfTables'
    BY <2>2, <2>3, <2>4, <1>5 DEF TypesOfTables, Types
  <2>6. QED
    BY <2>5, <1>3, StepTypes
<1>8. QED
  BY <1>6, <1>7 DEF InsertUser

LEMMA ReplaceTypes ==
  ASSUME Types, NEW r \in Requests, Replace(r)
  PROVE  Types'
<1> DEFINE x == req[r]
<1>1. x \in RequestRecord /\ x.uid \in Uids
  BY DEF Types, TypesOfTables, Filled, Replace
<1>2. Steps(r)
  BY RecordIdle DEF Replace
<1>3. x.form \in Lists
  BY <1>1 DEF RequestRecord
<1> DEFINE kept == {a \in rows : a.id \notin Replaced(r)}
<1>4. rows' \subseteq Assignment /\ unguarded' \in BOOLEAN
  <2>1. UNCHANGED rows \/ Inserted(x.uid, x.form, kept)
    BY DEF Replace
  <2>2. kept \subseteq Assignment
    BY DEF Types, TypesOfTables
  <2>3. unguarded' \in BOOLEAN
    BY DEF Replace, Types, TypesOfTables
  <2> HIDE DEF x, kept
  <2>4. rows' \subseteq Assignment
    BY <2>1, <2>2, <1>1, <1>3, InsertedRows DEF Types, TypesOfTables
  <2>5. QED
    BY <2>3, <2>4
<1>5. TypesOfTables'
  BY <1>4 DEF Replace, TypesOfTables, Types
<1>6. QED
  BY <1>2, <1>5, StepTypes

LEMMA CliInsertTypes ==
  ASSUME Types, NEW r \in Requests, CliInsert(r)
  PROVE  Types'
<1> DEFINE x == req[r]
<1>1. x \in RequestRecord /\ x.uid \in Uids
  BY DEF Types, TypesOfTables, Filled, CliInsert
<1>2. Steps(r)
  BY RecordIdle DEF CliInsert
<1>3. x.form \in Lists
  BY <1>1 DEF RequestRecord
<1>4. rows' \subseteq Assignment
  <2>1. UNCHANGED rows \/ Inserted(x.uid, x.form, rows)
    BY DEF CliInsert
  <2> HIDE DEF x
  <2>2. QED
    BY <2>1, <1>1, <1>3, InsertedRows DEF Types, TypesOfTables
<1>5. TypesOfTables'
  BY <1>4 DEF CliInsert, TypesOfTables, Types
<1>6. QED
  BY <1>2, <1>5, StepTypes

LEMMA RemoveTypes ==
  ASSUME Types, NEW r \in Requests, Remove(r)
  PROVE  Types'
<1> DEFINE x == req[r]
           rest == x.todo \ {x.name}
           y == [x EXCEPT !.at = "pick", !.todo = rest, !.name = None, !.uid = None,
                          !.old = {}, !.keys = {}]
<1>1. x \in RequestRecord /\ x.uid \in Uids
  BY DEF Types, TypesOfTables, Filled, Remove
<1>2. y \in RequestRecord /\ Filled(y)
  <2>1. y \in RequestRecord
    BY <1>1, Zenon DEF RequestRecord, Places
  <2>2. Filled(y)
    BY <1>1, Zenon DEF RequestRecord, Filled
  <2>3. QED
    BY <2>1, <2>2
<1>3. Steps(r)
  <2>1. req' = [req EXCEPT ![r] = y] \/ Finish(r)
    BY DEF Remove, Finish
  <2>2. QED
    BY <2>1, <1>2, RecordIdle DEF Steps
<1>4. /\ users' \in [Uids -> Names \cup {None}]
      /\ services' \subseteq Uids
      /\ rows' \subseteq Assignment
      /\ keyState' \in [Keys -> {"unused", "active", "revoked", "gone"}]
      /\ \A u \in services' : IsUser(u)'
  BY <1>1 DEF Remove, Uncascaded, Types, TypesOfTables
<1>5. TypesOfTables'
  BY <1>4 DEF Remove, TypesOfTables, Types
<1>6. QED
  BY <1>3, <1>5, StepTypes

\* What a handler that only reads leaves behind
LEMMA ReadTypes ==
  ASSUME Types, NEW r \in Requests, UNCHANGED <<tables, history>>, Steps(r)
  PROVE  Types'
<1>1. TypesOfTables'
  BY DEF TypesOfTables, Types
<1>2. QED
  BY <1>1, StepTypes

LEMMA AssignTypes ==
  ASSUME Types, NEW r \in Requests, Assign(r)
  PROVE  Types'
<1>1. ASSUME NEW u \in Uids,
             req' = [req EXCEPT ![r].at = "replace", ![r].uid = u, ![r].old = IdsOf(u)]
      PROVE  Steps(r)
  <2> DEFINE x == [req[r] EXCEPT !.at = "replace", !.uid = u, !.old = IdsOf(u)]
  <2> HIDE AccountsAssumption
  <2>1. req[r] \in RequestRecord /\ IdsOf(u) \subseteq Ids
    BY DEF Types, TypesOfTables, IdsOf, RowsOf
  <2>2. x \in RequestRecord /\ Filled(x)
    <3>1. x \in RequestRecord
      BY <2>1, Zenon DEF RequestRecord, Places
    <3>2. Filled(x)
      BY <2>1, Zenon DEF RequestRecord, Filled
    <3>3. QED
      BY <3>1, <3>2
  <2>3. req' = [req EXCEPT ![r] = x]
    BY <1>1
  <2>4. QED
    BY <2>2, <2>3 DEF Steps
<1>2. Steps(r)
  BY <1>1, RecordIdle DEF Assign
<1>3. QED
  BY <1>2, ReadTypes DEF Assign

LEMMA ListUsersTypes ==
  ASSUME Types, NEW r \in Requests, List(r)
  PROVE  Types'
<1>1. ASSUME NEW seen \in SUBSET Names,
             req' = [req EXCEPT ![r].at = "pick", ![r].admins = seen]
      PROVE  Steps(r)
  <2> DEFINE x == [req[r] EXCEPT !.at = "pick", !.admins = seen]
  <2> HIDE AccountsAssumption
  <2>1. req[r] \in RequestRecord
    BY DEF Types
  <2>2. x \in RequestRecord /\ Filled(x)
    <3>1. x \in RequestRecord
      BY <2>1, Zenon DEF RequestRecord, Places
    <3>2. Filled(x)
      BY <2>1, Zenon DEF RequestRecord, Filled
    <3>3. QED
      BY <3>1, <3>2
  <2>3. req' = [req EXCEPT ![r] = x]
    BY <1>1, <2>1, <2>2 DEF Types
  <2>4. QED
    BY <2>2, <2>3 DEF Steps
<1>2. Steps(r)
  BY <1>1 DEF List
<1>3. QED
  BY <1>2, ReadTypes DEF List

LEMMA PickTypes ==
  ASSUME Types, NEW r \in Requests, Pick(r)
  PROVE  Types'
<1>1. ASSUME NEW n \in req[r].todo, NEW u \in Uids,
             req' = [req EXCEPT ![r].at = "remove", ![r].name = n, ![r].uid = u,
                                ![r].old = IdsOf(u), ![r].keys = KeysOf(u)]
      PROVE  Steps(r)
  <2> DEFINE x == [req[r] EXCEPT !.at = "remove", !.name = n, !.uid = u,
                                 !.old = IdsOf(u), !.keys = KeysOf(u)]
  <2> HIDE AccountsAssumption
  <2>1. req[r] \in RequestRecord /\ IdsOf(u) \subseteq Ids /\ KeysOf(u) \subseteq Keys
    BY DEF Types, TypesOfTables, IdsOf, RowsOf, KeysOf
  <2>2. x \in RequestRecord /\ Filled(x)
    <3>1. x \in RequestRecord
      BY <2>1, Zenon DEF RequestRecord, Places
    <3>2. Filled(x)
      BY <2>1, Zenon DEF RequestRecord, Filled
    <3>3. QED
      BY <3>1, <3>2
  <2>3. req' = [req EXCEPT ![r] = x]
    BY <1>1
  <2>4. QED
    BY <2>2, <2>3 DEF Steps
<1>2. Steps(r)
  BY <1>1, RecordIdle DEF Pick
<1>3. QED
  BY <1>2, ReadTypes DEF Pick

LEMMA MintTypes ==
  ASSUME Types, NEW r \in Requests, Mint(r)
  PROVE  Types'
<1>1. ASSUME NEW u \in Uids, req' = [req EXCEPT ![r].at = "insertKey", ![r].uid = u]
      PROVE  Steps(r)
  <2> DEFINE x == [req[r] EXCEPT !.at = "insertKey", !.uid = u]
  <2> HIDE AccountsAssumption
  <2>1. req[r] \in RequestRecord
    BY DEF Types, TypesOfTables
  <2>2. x \in RequestRecord /\ Filled(x)
    <3>1. x \in RequestRecord
      BY <2>1, Zenon DEF RequestRecord, Places
    <3>2. Filled(x)
      BY <2>1, Zenon DEF RequestRecord, Filled
    <3>3. QED
      BY <3>1, <3>2
  <2>3. req' = [req EXCEPT ![r] = x]
    BY <1>1
  <2>4. QED
    BY <2>2, <2>3 DEF Steps
<1>2. Steps(r)
  BY <1>1, RecordIdle DEF Mint
<1>3. QED
  BY <1>2, ReadTypes DEF Mint

\* A new request, whoever makes it
LEMMA BeginTypes ==
  ASSUME Types, NEW r \in Requests, NEW x \in RequestRecord, Filled(x), Begin(r, x),
         UNCHANGED tables, orderly' \in BOOLEAN, unguarded' \in BOOLEAN
  PROVE  Types'
<1>1. Steps(r)
  BY DEF Begin, Steps
<1>2. asks' \in 0..MaxAsks
  BY DEF Begin, Types, TypesOfTables
<1>3. TypesOfTables'
  BY <1>2 DEF TypesOfTables, Types
<1>4. QED
  BY <1>1, <1>3, StepTypes

LEMMA StartTypes ==
  ASSUME Types, NEW r \in Requests, NEW x \in RequestRecord, Filled(x),
         NEW by, NEW permission, Start(r, by, permission, x)
  PROVE  Types'
<1>1. orderly' \in BOOLEAN
  BY DEF Start, Types, TypesOfTables
<1>2. unguarded' \in BOOLEAN
  <2>1. PICK u \in Uids : unguarded' = (unguarded \/ u \in services)
    BY DEF Start
  <2>2. QED
    BY <2>1, Zenon
<1>3. Begin(r, x) /\ UNCHANGED tables
  BY DEF Start
<1>4. QED
  BY <1>1, <1>2, <1>3, BeginTypes

\* What the portal starts with, and about whom
Asked(x, by) ==
  /\ x \in RequestRecord /\ Filled(x)
  /\ x.by = by
  /\ x.at \in {"create", "findUser", "findService", "findOwner", "list", "pick", "revoke",
              "createRole", "editRole", "countRole"}
  /\ x.at \in {"findUser", "findService", "findOwner"} => x.name \in Names
  /\ x.at = "findService" => \E u \in services : x.name = users[u]
  /\ x.at = "pick" => x.service /\ x.todo \subseteq {users[u] : u \in services}
  /\ x.at = "list" => ~x.service

LEMMA AskedFor ==
  ASSUME Types, NEW r \in Requests, Ask(r)
  PROVE  \E by \in Names, permission \in Permissions, x \in RequestRecord :
           Asked(x, by) /\ Start(r, by, permission, x)
<1> USE ListTypes DEF Asked, Filled, RequestRecord, Places, Idle
<1>1. PICK by \in Names :
         \/ AskCreate(r, by) \/ AskEdit(r, by) \/ AskEditService(r, by)
         \/ AskDelete(r, by) \/ AskDeleteService(r, by)
         \/ AskMint(r, by) \/ AskRevoke(r, by)
         \/ \E place \in {"createRole", "editRole"} : AskRole(r, by, place)
         \/ AskDropRole(r, by)
  BY DEF Ask
<1>2. \A u \in services : users[u] \in Names
  BY DEF Types, TypesOfTables
<1>3. CASE AskCreate(r, by)
  <2>1. PICK n \in Names, form \in Forms, s \in BOOLEAN :
          Start(r, by, "edit_users",
            [Idle EXCEPT !.at = "create", !.by = by, !.name = n, !.form = form, !.service = s])
    BY <1>3 DEF AskCreate
  <2> DEFINE x == [Idle EXCEPT !.at = "create", !.by = by, !.name = n, !.form = form,
                               !.service = s]
  <2>2. form \in Lists
    OBVIOUS
  <2>3. x \in RequestRecord
    BY <2>2
  <2>4. Asked(x, by)
    BY <2>3
  <2>5. Start(r, by, "edit_users", x)
    BY <2>1
  <2> HIDE DEF x, Asked
  <2>6. QED
    BY <2>3, <2>4, <2>5
<1>4. CASE AskEdit(r, by)
  <2>1. PICK n \in Names, form \in Forms, flag \in Flags :
          Start(r, by, "edit_users",
            [Idle EXCEPT !.at = "findUser", !.by = by, !.name = n, !.form = form,
                         !.flag = flag])
    BY <1>4 DEF AskEdit
  <2> DEFINE x == [Idle EXCEPT !.at = "findUser", !.by = by, !.name = n, !.form = form,
                               !.flag = flag]
  <2>2. form \in Lists
    OBVIOUS
  <2>3. x \in RequestRecord
    BY <2>2
  <2>4. Asked(x, by)
    BY <2>3
  <2>5. Start(r, by, "edit_users", x)
    BY <2>1
  <2> HIDE DEF x, Asked
  <2>6. QED
    BY <2>3, <2>4, <2>5
<1>5. CASE AskEditService(r, by)
  <2>1. PICK u \in services, form \in Forms \ {<<>>} :
          Start(r, by, "edit_users",
            [Idle EXCEPT !.at = "findService", !.by = by, !.name = users[u], !.form = form,
                         !.service = TRUE])
    BY <1>5 DEF AskEditService
  <2> DEFINE x == [Idle EXCEPT !.at = "findService", !.by = by, !.name = users[u], !.form = form,
                               !.service = TRUE]
  <2>2. form \in Lists
    OBVIOUS
  <2>3. x \in RequestRecord
    BY <1>2, <2>2
  <2>4. Asked(x, by)
    BY <1>2, <2>3
  <2>5. Start(r, by, "edit_users", x)
    BY <2>1
  <2> HIDE DEF x, Asked
  <2>6. QED
    BY <2>3, <2>4, <2>5
<1>6. CASE AskDelete(r, by)
  <2>1. PICK ticked \in SUBSET Names :
          Start(r, by, "edit_users", [Idle EXCEPT !.at = "list", !.by = by, !.todo = ticked])
    BY <1>6 DEF AskDelete
  <2> DEFINE x == [Idle EXCEPT !.at = "list", !.by = by, !.todo = ticked]
  <2>2. x \in RequestRecord
    OBVIOUS
  <2>3. Asked(x, by)
    BY <2>2
  <2>4. Start(r, by, "edit_users", x)
    BY <2>1
  <2> HIDE DEF x, Asked
  <2>5. QED
    BY <2>2, <2>3, <2>4
<1>7. CASE AskDeleteService(r, by)
  <2>1. PICK ticked \in SUBSET {users[u] : u \in services} :
          Start(r, by, "edit_users",
            [Idle EXCEPT !.at = "pick", !.by = by, !.todo = ticked, !.service = TRUE])
    BY <1>7 DEF AskDeleteService
  <2> DEFINE x == [Idle EXCEPT !.at = "pick", !.by = by, !.todo = ticked, !.service = TRUE]
  <2>2. ticked \subseteq Names
    BY <1>2
  <2>3. x \in RequestRecord
    BY <2>2
  <2>4. Asked(x, by)
    BY <2>3
  <2>5. Start(r, by, "edit_users", x)
    BY <2>1
  <2> HIDE DEF x, Asked
  <2>6. QED
    BY <2>3, <2>4, <2>5
<1>8. CASE AskMint(r, by)
  <2>1. PICK n \in Names :
          Start(r, by, "edit_users", [Idle EXCEPT !.at = "findOwner", !.by = by, !.name = n])
    BY <1>8 DEF AskMint
  <2> DEFINE x == [Idle EXCEPT !.at = "findOwner", !.by = by, !.name = n]
  <2>2. x \in RequestRecord
    OBVIOUS
  <2>3. Asked(x, by)
    BY <2>2
  <2>4. QED
    BY <2>1, <2>2, <2>3
<1>9. CASE AskRevoke(r, by)
  <2>1. PICK k \in Keys :
          Start(r, by, "edit_users", [Idle EXCEPT !.at = "revoke", !.by = by, !.key = k])
    BY <1>9 DEF AskRevoke
  <2> DEFINE x == [Idle EXCEPT !.at = "revoke", !.by = by, !.key = k]
  <2>2. x \in RequestRecord
    OBVIOUS
  <2>3. Asked(x, by)
    BY <2>2
  <2>4. QED
    BY <2>1, <2>2, <2>3
<1>10. CASE \E place \in {"createRole", "editRole"} : AskRole(r, by, place)
  <2>1. PICK place \in {"createRole", "editRole"}, c \in Customs, g \in Grants :
          Start(r, by, "edit_roles",
            [Idle EXCEPT !.at = place, !.by = by, !.role = c, !.grant = g])
    BY <1>10 DEF AskRole
  <2> DEFINE x == [Idle EXCEPT !.at = place, !.by = by, !.role = c, !.grant = g]
  <2>2. g \in SUBSET Permissions
    OBVIOUS
  <2>3. x \in RequestRecord
    BY <2>2
  <2>4. Asked(x, by)
    BY <2>3
  <2>5. QED
    BY <2>1, <2>3, <2>4
<1>11. CASE AskDropRole(r, by)
  <2>1. PICK c \in Customs :
          Start(r, by, "edit_roles", [Idle EXCEPT !.at = "countRole", !.by = by, !.role = c])
    BY <1>11 DEF AskDropRole
  <2> DEFINE x == [Idle EXCEPT !.at = "countRole", !.by = by, !.role = c]
  <2>2. x \in RequestRecord
    OBVIOUS
  <2>3. Asked(x, by)
    BY <2>2
  <2>4. QED
    BY <2>1, <2>2, <2>3
<1>12. QED
  BY <1>1, <1>3, <1>4, <1>5, <1>6, <1>7, <1>8, <1>9, <1>10, <1>11

LEMMA AskTypes ==
  ASSUME Types, NEW r \in Requests, Ask(r)
  PROVE  Types'
BY AskedFor, StartTypes DEF Asked

LEMMA CliAssignTypes ==
  ASSUME Types, NEW r \in Requests, CliAssign(r)
  PROVE  Types'
<1>1. PICK u \in Uids, e \in Entries :
         Begin(r, [Idle EXCEPT !.at = "cliInsert", !.uid = u, !.form = <<e>>])
  BY DEF CliAssign
<1> DEFINE x == [Idle EXCEPT !.at = "cliInsert", !.uid = u, !.form = <<e>>]
<1>2. x \in RequestRecord /\ Filled(x)
  BY ListTypes DEF RequestRecord, Places, Idle, Filled
<1>3. orderly' \in BOOLEAN /\ unguarded' \in BOOLEAN /\ UNCHANGED tables
  BY DEF CliAssign, Types, TypesOfTables
<1>4. QED
  BY <1>1, <1>2, <1>3, BeginTypes

LEMMA PresentTypes ==
  ASSUME Types, NEW r \in Requests, Present(r)
  PROVE  Types'
<1>1. PICK k \in Keys : Begin(r, [Idle EXCEPT !.at = "use", !.key = k])
  BY DEF Present
<1> DEFINE x == [Idle EXCEPT !.at = "use", !.key = k]
<1>2. x \in RequestRecord /\ Filled(x)
  BY ListTypes DEF RequestRecord, Places, Idle, Filled
<1>3. orderly' \in BOOLEAN /\ unguarded' \in BOOLEAN /\ UNCHANGED tables
  BY DEF Present, Types, TypesOfTables
<1>4. QED
  BY <1>1, <1>2, <1>3, BeginTypes

LEMMA KeyTypes ==
  ASSUME Types, NEW r \in Requests, InsertKey(r) \/ Revoke(r) \/ Use(r)
  PROVE  Types'
<1>1. req[r] \in RequestRecord /\ Filled(req[r])
  BY DEF Types, TypesOfTables
<1>2. Steps(r)
  BY RecordIdle DEF InsertKey, Revoke, Use
<1>3. /\ keyState' \in [Keys -> {"unused", "active", "revoked", "gone"}]
      /\ owner' \in [Keys -> Uids \cup {None}]
  <2>1. CASE InsertKey(r)
    BY <2>1, <1>1 DEF InsertKey, RequestRecord, Types, TypesOfTables
  <2>2. CASE Revoke(r)
    BY <2>2, <1>1 DEF Revoke, Filled, Types, TypesOfTables
  <2>3. CASE Use(r)
    BY <2>3 DEF Use, StateAfterUse, Types, TypesOfTables
  <2>4. QED
    BY <2>1, <2>2, <2>3
<1>4. UNCHANGED <<users, services, active, stage, grant, rows, history>>
  BY DEF InsertKey, Revoke, Use
<1>5. TypesOfTables'
  BY <1>3, <1>4 DEF TypesOfTables, Types
<1>6. QED
  BY <1>2, <1>5, StepTypes

LEMMA RoleTypes ==
  ASSUME Types, NEW r \in Requests, CreateRole(r) \/ EditRole(r) \/ DropRole(r)
  PROVE  Types'
<1>1. req[r] \in RequestRecord /\ Filled(req[r])
  BY DEF Types, TypesOfTables
<1>2. Steps(r)
  BY RecordIdle DEF CreateRole, EditRole, DropRole
<1>3. /\ stage' \in [Customs -> {"unused", "live", "gone"}]
      /\ grant' \in [Customs -> SUBSET Permissions]
      /\ unguarded' \in BOOLEAN
  <2>1. req[r].grant \in SUBSET Permissions /\ req[r].at \in {"createRole", "editRole", "dropRole"}
    BY <1>1 DEF CreateRole, EditRole, DropRole, RequestRecord
  <2>2. req[r].role \in Customs
    BY <1>1, <2>1 DEF Filled
  <2>3. CASE CreateRole(r)
    BY <2>1, <2>2, <2>3 DEF CreateRole, Types, TypesOfTables
  <2>4. CASE EditRole(r)
    <3>1. grant \in [Customs -> SUBSET Permissions]
      BY DEF Types, TypesOfTables
    <3>2. grant' = grant \/ grant' = [grant EXCEPT ![req[r].role] = req[r].grant]
      BY <2>4, Zenon DEF EditRole
    <3>3. grant' \in [Customs -> SUBSET Permissions]
      BY <2>1, <2>2, <3>1, <3>2
    <3>4. unguarded' \in BOOLEAN /\ UNCHANGED stage
      BY <2>4, Zenon DEF EditRole, Types, TypesOfTables
    <3>5. QED
      BY <3>3, <3>4, Zenon DEF Types, TypesOfTables
  <2>5. CASE DropRole(r)
    BY <2>2, <2>5 DEF DropRole, Types, TypesOfTables
  <2>6. QED
    BY <2>3, <2>4, <2>5
<1>4. UNCHANGED <<users, services, active, rows, owner, keyState, asks, orderly>>
  BY DEF CreateRole, EditRole, DropRole
<1>5. TypesOfTables'
  BY <1>3, <1>4 DEF TypesOfTables, Types
<1>6. QED
  BY <1>2, <1>5, StepTypes

\* A request that looks somebody up
Finds(r) ==
  \/ Find(r, "findUser", "check") \/ Find(r, "findService", "assign")
  \/ Find(r, "findOwner", "mint")

LEMMA UpdateTypes ==
  ASSUME Types, NEW r \in Requests, Update(r)
  PROVE  Types'
<1>1. req[r] \in RequestRecord
  BY DEF Types
<1>2. ASSUME NEW u \in Uids, req' = [req EXCEPT ![r].at = "setActive", ![r].uid = u]
      PROVE  Steps(r)
  <2> DEFINE x == [req[r] EXCEPT !.at = "setActive", !.uid = u]
  <2> HIDE AccountsAssumption
  <2>1. x \in RequestRecord
    BY <1>1, Zenon DEF RequestRecord, Places
  <2>2. Filled(x)
    BY <1>1, Zenon DEF RequestRecord, Filled
  <2>3. req' = [req EXCEPT ![r] = x]
    BY <1>2
  <2>4. QED
    BY <2>1, <2>2, <2>3 DEF Steps
<1>3. Steps(r)
  BY <1>2, RecordAt, RecordIdle, Zenon DEF Update, Places
<1>4. QED
  BY <1>3, ReadTypes DEF Update

LEMMA SetActiveTypes ==
  ASSUME Types, NEW r \in Requests, SetActive(r)
  PROVE  Types'
<1> DEFINE y == [req[r] EXCEPT !.at = "assign", !.uid = None]
<1>1. req[r] \in RequestRecord /\ req[r].uid \in Uids
  BY DEF Types, Filled, SetActive
<1>2. y \in RequestRecord /\ Filled(y)
  BY <1>1 DEF RequestRecord, Places, Filled
<1>3. Steps(r)
  <2> HIDE AccountsAssumption
  <2>1. req' = [req EXCEPT ![r].at = "assign", ![r].uid = None] \/ Finish(r)
    BY Zenon DEF SetActive
  <2>2. ASSUME req' = [req EXCEPT ![r].at = "assign", ![r].uid = None]
        PROVE  req' = [req EXCEPT ![r] = y]
    BY <2>2
  <2>3. QED
    BY <2>1, <2>2, <1>2, RecordIdle DEF Steps
<1>4. active' \subseteq Uids
  BY <1>1 DEF SetActive, Types, TypesOfTables
<1>5. unguarded' \in BOOLEAN
  BY Zenon DEF SetActive, Types, TypesOfTables
<1>6. UNCHANGED <<users, services, stage, grant, rows, owner, keyState, asks, orderly>>
  BY DEF SetActive
<1>7. TypesOfTables'
  BY <1>4, <1>5, <1>6 DEF TypesOfTables, Types
<1>8. QED
  BY <1>3, <1>7, StepTypes

LEMMA CheckTypes ==
  ASSUME Types, NEW r \in Requests, Finds(r) \/ LookUp(r) \/ CheckEdit(r) \/ CountRole(r)
  PROVE  Types'
<1>1. req[r] \in RequestRecord /\ Filled(req[r])
  BY DEF Types, TypesOfTables
<1>2. CountRole(r) => req[r].role \in Customs
  BY <1>1 DEF CountRole, Filled
<1>3. Steps(r)
  BY <1>2, RecordAt, RecordIdle, LookUpSteps DEF Finds, Find, CheckEdit, CountRole, Places
<1>4. QED
  BY <1>3, ReadTypes DEF Finds, Find, LookUp, CheckEdit, CountRole

LEMMA NextTypes == Types /\ [Next]_vars => Types'
<1> SUFFICES ASSUME Types, [Next]_vars PROVE Types'
  OBVIOUS
<1>1. CASE UNCHANGED vars
  BY <1>1 DEF vars, Types, TypesOfTables, Filled
<1>2. ASSUME NEW r \in Requests, Abort(r) PROVE Types'
  BY <1>2, RecordIdle, ReadTypes DEF Abort
<1>3. ASSUME NEW r \in Requests, Handle(r) PROVE Types'
  BY <1>3, InsertUserTypes, CheckTypes, UpdateTypes, SetActiveTypes, AssignTypes, ReplaceTypes,
     ListUsersTypes, PickTypes, RemoveTypes, CliInsertTypes, MintTypes, KeyTypes, RoleTypes
     DEF Handle, Finds
<1>4. ASSUME NEW r \in Requests, Ask(r) \/ CliAssign(r) \/ Present(r) PROVE Types'
  BY <1>4, AskTypes, CliAssignTypes, PresentTypes
<1>5. QED
  BY <1>1, <1>2, <1>3, <1>4 DEF Next

-----------------------------------------------------------------------------
(***************************************************************************)
(* TypeOK, and what a request has read is there once it needs it.          *)
(***************************************************************************)
THEOREM TypesHold == Spec => []Types
BY InitTypes, NextTypes, PTL DEF Spec

(***************************************************************************)
(* The variables stay in their domains.                                    *)
(***************************************************************************)
THEOREM AccountsTypeOK == Spec => []TypeOK
<1> DEFINE Known == enforced \in BOOLEAN
<1>1. Init => Known
  BY DEF Init
<1>2. Known /\ [Next]_vars => Known'
  BY DEF Next, vars
<1>3. Types /\ Known => TypeOK
  BY DEF Types, TypesOfTables, TypeOK
<1>4. QED
  BY <1>1, <1>2, <1>3, TypesHold, PTL DEF Spec

-----------------------------------------------------------------------------
\* A request at work, as opposed to one that only presents a key
Works(x) == x.at \notin {"idle", "use"}

\* What a request has read is still so.
StillSo(x) ==
  /\ x.at # "cliInsert"
  /\ x.at = "insertUser" => RoleExists(x.role)
  /\ x.at \in {"findUser", "findService", "findOwner", "check", "update", "assign", "mint"} =>
       x.name \in Names
  /\ x.at = "setActive" => x.name \in Names /\ IsNamed(x.name, x.uid)
  /\ x.at \in {"replace", "remove"} =>
       x.name \in Names /\ IsNamed(x.name, x.uid) /\ x.old = IdsOf(x.uid)
  /\ x.at = "replace" => ~DuplicateScopes(x.form)
  /\ x.at = "remove" => x.keys = KeysOf(x.uid)
  /\ x.at = "insertKey" => IsUser(x.uid)
  /\ x.at = "dropRole" => Unassigned(x.role)

\* What keeps the rows a request writes with their owners: the foreign keys, or
\* that it writes before anything it has read can change
Guarded(r) == enforced \/ StillSo(req[r])

\* Rows that are inserted for a user and roles that exist have their owners.
LEMMA InsertedHaveOwners ==
  ASSUME Types, OwnersExist, NEW u \in Uids, NEW form \in Lists,
         NEW kept \in SUBSET rows, Inserted(u, form, kept),
         IsUser(u), \A i \in DOMAIN form : RoleExists(form[i].role),
         UNCHANGED <<users, stage, owner, keyState>>
  PROVE  OwnersExist'
<1> HIDE AccountsAssumption
<1>1. \A a \in kept : IsUser(a.uid) /\ RoleExists(a.role)
  BY DEF OwnersExist
<1>2. \A a \in rows' :
         a \in kept \/ (a.uid = u /\ \E i \in DOMAIN form : a.role = form[i].role)
  BY InsertedRows
<1>3. \A a \in rows' : IsUser(a.uid) /\ RoleExists(a.role)
  <2> HIDE DEF IsUser
  <2>1. QED
    BY <1>1, <1>2, Zenon
<1>4. QED
  BY <1>3 DEF OwnersExist, RoleExists

LEMMA InsertUserOwners ==
  ASSUME Types, OwnersExist, NEW r \in Requests, InsertUser(r), Guarded(r)
  PROVE  OwnersExist'
<1> DEFINE x == req[r]
           first == <<[role |-> x.role, scope |-> Global]>>
<1>1. x.name \in Names /\ x.role \in RoleNames
  BY DEF Types, Filled, InsertUser
<1>2. UNCHANGED <<stage, owner, keyState>>
  BY DEF InsertUser
<1>3. CASE UNCHANGED <<users, rows>>
  BY <1>2, <1>3 DEF OwnersExist, RoleExists
<1>4. CASE /\ RoleExists(x.role)
           /\ \E u \in Uids : /\ users' = [users EXCEPT ![u] = x.name]
                               /\ Inserted(u, first, rows)
  <2>1. PICK u \in Uids : /\ users' = [users EXCEPT ![u] = x.name]
                          /\ Inserted(u, first, rows)
    BY <1>4
  <2>2. first \in Lists /\ \A i \in DOMAIN first : first[i].role = x.role
    BY <1>1, ListTypes
  <2>3. \A v \in Uids : IsUser(v) => IsUser(v)'
    BY <1>1, <2>1 DEF Types, TypesOfTables
  <2>4. IsUser(u)'
    BY <1>1, <2>1 DEF Types, TypesOfTables
  <2> HIDE DEF first
  <2>5. \A a \in rows' : a \in rows \/ (a.uid = u /\ a.role = x.role)
    BY <2>1, <2>2, InsertedRows
  <2>6. \A a \in rows : a.uid \in Uids /\ IsUser(a.uid) /\ RoleExists(a.role)
    BY DEF OwnersExist, Types, TypesOfTables
  <2>7. \A p : RoleExists(p)' = RoleExists(p)
    BY <1>2 DEF RoleExists
  <2>8. \A a \in rows' : IsUser(a.uid)' /\ RoleExists(a.role)'
    BY <1>4, <2>3, <2>4, <2>5, <2>6, <2>7
  <2>9. QED
    BY <1>2, <2>3, <2>8 DEF OwnersExist
<1>5. enforced \/ RoleExists(x.role)
  BY DEF Guarded, StillSo, InsertUser
<1>6. QED
  BY <1>3, <1>4, <1>5 DEF InsertUser

LEMMA RemoveOwners ==
  ASSUME Types, OwnersExist, NEW r \in Requests, Remove(r), Guarded(r)
  PROVE  OwnersExist'
<1> DEFINE x == req[r]
<1>1. x.uid \in Uids
  BY DEF Types, Filled, Remove
<1>2. UNCHANGED <<stage, owner>>
  BY DEF Remove
<1>3. CASE UNCHANGED <<users, rows, keyState>>
  BY <1>2, <1>3 DEF OwnersExist, RoleExists
<1>4. CASE /\ NothingRefers(r)
           /\ users' = [users EXCEPT ![x.uid] = None]
           /\ rows' = {a \in rows : a.id \notin x.old}
           /\ keyState' = [k \in Keys |-> IF k \in x.keys THEN "gone" ELSE keyState[k]]
  <2>1. \A v \in Uids : v # x.uid => IsUser(v)' = IsUser(v)
    BY <1>4 DEF Types, TypesOfTables
  <2>0. IdsOf(x.uid) \subseteq x.old /\ KeysOf(x.uid) \subseteq x.keys
    BY <1>4 DEF Guarded, StillSo, Remove, NothingRefers
  <2>2. \A a \in rows' : a \in rows /\ a.uid # x.uid /\ a.uid \in Uids
    BY <1>4, <2>0 DEF IdsOf, RowsOf, Types, TypesOfTables
  <2>3. \A k \in Keys : keyState'[k] \in {"active", "revoked"} =>
          keyState'[k] = keyState[k] /\ owner[k] # x.uid
    BY <1>4, <2>0 DEF KeysOf
  <2>4. \A k \in Keys : keyState'[k] \in {"active", "revoked"} =>
          IsUser(owner[k]) /\ owner[k] \in Uids /\ owner[k] # x.uid
    BY <2>3 DEF OwnersExist, Types, TypesOfTables
  <2>5. \A a \in rows' : IsUser(a.uid)' /\ RoleExists(a.role)'
    BY <1>2, <2>1, <2>2 DEF OwnersExist, RoleExists
  <2>6. QED
    BY <1>2, <2>1, <2>4, <2>5 DEF OwnersExist
<1>5. QED
  BY <1>3, <1>4 DEF Remove, Uncascaded

LEMMA InsertOwners ==
  ASSUME Types, OwnersExist, NEW r \in Requests, Replace(r) \/ CliInsert(r), Guarded(r)
  PROVE  OwnersExist'
<1>1. req[r] \in RequestRecord /\ req[r].uid \in Uids
  BY DEF Types, Filled, Replace, CliInsert
<1>2. req[r].form \in Lists
  BY <1>1 DEF RequestRecord
<1>3. UNCHANGED <<users, stage, owner, keyState>>
  BY DEF Replace, CliInsert
<1>4. CASE UNCHANGED rows
  BY <1>3, <1>4 DEF OwnersExist, RoleExists
<1>5. CASE ~UNCHANGED rows
  <2>1. PICK kept \in SUBSET rows :
          /\ Insertable(req[r].uid, req[r].form, kept)
          /\ Inserted(req[r].uid, req[r].form, kept)
          /\ Replace(r) => \A i \in DOMAIN req[r].form : RoleExists(req[r].form[i].role)
    <3>1. {a \in rows : a.id \notin Replaced(r)} \in SUBSET rows /\ rows \in SUBSET rows
      OBVIOUS
    <3>2. At(r, "cliInsert") => ~At(r, "replace")
      OBVIOUS
    <3>3. CASE Replace(r)
      BY <1>5, <3>1, <3>3, Zenon DEF Replace
    <3>4. CASE CliInsert(r) /\ ~Replace(r)
      BY <1>5, <3>1, <3>4, Zenon DEF CliInsert
    <3>5. QED
      BY <3>3, <3>4
  <2>2. CASE enforced /\ DOMAIN req[r].form # {}
    <3>1. IsUser(req[r].uid) /\ \A i \in DOMAIN req[r].form : RoleExists(req[r].form[i].role)
      BY <2>1, <2>2, Zenon DEF Insertable, Refers
    <3>2. QED
      BY <1>1, <1>2, <1>3, <2>1, <3>1, InsertedHaveOwners, Zenon
  <2>3. CASE StillSo(req[r])
    <3>1. Replace(r) /\ req[r].at = "replace"
      BY <2>3 DEF StillSo, Replace, CliInsert
    <3>2. IsUser(req[r].uid)
      BY <2>3, <3>1 DEF StillSo
    <3>3. QED
      BY <1>1, <1>2, <1>3, <2>1, <3>1, <3>2, InsertedHaveOwners, Zenon
  <2>4. CASE DOMAIN req[r].form = {}
    <3> HIDE AccountsAssumption
    <3>1. \A a \in rows' : a \in rows
      BY <1>1, <1>2, <2>1, <2>4, InsertedRows, Zenon
    <3>2. QED
      BY <1>3, <3>1 DEF OwnersExist, RoleExists
  <2>5. QED
    BY <2>2, <2>3, <2>4 DEF Guarded
<1>6. QED
  BY <1>4, <1>5

LEMMA InsertKeyOwners ==
  ASSUME Types, OwnersExist, NEW r \in Requests, InsertKey(r), Guarded(r)
  PROVE  OwnersExist'
<1>1. UNCHANGED <<users, stage, rows>> /\ req[r].uid \in Uids
  BY DEF InsertKey, Types, Filled
<1>2. CASE UNCHANGED <<owner, keyState>>
  BY <1>1, <1>2 DEF OwnersExist, RoleExists
<1>3. CASE ~UNCHANGED <<owner, keyState>>
  <2>1. PICK k \in Keys :
          /\ IsUser(req[r].uid)
          /\ keyState' = [keyState EXCEPT ![k] = "active"]
          /\ owner' = [owner EXCEPT ![k] = req[r].uid]
    BY <1>3 DEF InsertKey, Guarded, StillSo
  <2>2. \A q \in Keys : keyState'[q] \in {"active", "revoked"} =>
          owner'[q] \in Uids /\ IsUser(owner'[q])
    BY <1>1, <2>1 DEF OwnersExist, Types, TypesOfTables
  <2>3. QED
    BY <1>1, <2>2 DEF OwnersExist, RoleExists
<1>4. QED
  BY <1>2, <1>3

LEMMA HandleOwners ==
  ASSUME Types, OwnersExist, NEW r \in Requests, Handle(r), Guarded(r)
  PROVE  OwnersExist'
<1>1. CASE UNCHANGED tables
  BY <1>1 DEF OwnersExist, RoleExists
<1>2. CASE Revoke(r)
  BY <1>2 DEF Revoke, OwnersExist, RoleExists, Types, TypesOfTables
<1>3. CASE Use(r)
  BY <1>1, <1>3 DEF Use, StateAfterUse
<1>4. CASE CreateRole(r)
  BY <1>4 DEF CreateRole, OwnersExist, RoleExists, Types, TypesOfTables
<1>5. CASE EditRole(r)
  BY <1>5 DEF EditRole, OwnersExist, RoleExists, Types, TypesOfTables
<1>6. CASE DropRole(r)
  <2>1. NothingUses(r) => \A a \in rows : a.role # req[r].role
    BY <1>6 DEF DropRole, NothingUses, Guarded, StillSo, Unassigned
  <2>2. QED
    BY <1>6, <2>1 DEF DropRole, OwnersExist, RoleExists, Types, TypesOfTables
<1>7. CASE Finds(r) \/ LookUp(r) \/ CheckEdit(r) \/ Update(r) \/ Assign(r) \/ List(r) \/ Pick(r)
            \/ Mint(r) \/ CountRole(r)
  BY <1>1, <1>7 DEF Finds, Find, LookUp, CheckEdit, Update, Assign, List, Pick, Mint, CountRole
<1>8. CASE SetActive(r)
  BY <1>8 DEF SetActive, OwnersExist, RoleExists, Types, TypesOfTables
<1>9. QED
  BY <1>2, <1>3, <1>4, <1>5, <1>6, <1>7, <1>8, InsertUserOwners, InsertOwners, RemoveOwners,
     InsertKeyOwners DEF Handle, Finds

\* Only the handlers write to the tables.
LEMMA OthersWriteNothing ==
  ASSUME Types, NEW r \in Requests, Ask(r) \/ CliAssign(r) \/ Present(r) \/ Abort(r)
  PROVE  UNCHANGED tables
BY AskedFor DEF Start, CliAssign, Present, Abort

LEMMA NextOwners ==
  ASSUME Types, enforced, OwnersExist, [Next]_vars
  PROVE  OwnersExist'
<1>1. CASE UNCHANGED tables
  BY <1>1 DEF OwnersExist, RoleExists
<1>2. QED
  BY <1>1, HandleOwners, OthersWriteNothing DEF Next, vars, Guarded

\* Only the owner's deletion takes a revoked key away, and nothing brings one back.
LEMMA KeysStayRevoked ==
  ASSUME Types, [Next]_vars, NEW k \in Keys
  PROVE  /\ keyState[k] = "revoked" => keyState'[k] \in {"revoked", "gone"}
         /\ keyState[k] = "gone" => keyState'[k] = "gone"
<1>1. CASE UNCHANGED keyState
  BY <1>1
<1>2. ASSUME NEW r \in Requests, Remove(r) \/ InsertKey(r) \/ Revoke(r)
      PROVE  /\ keyState[k] = "revoked" => keyState'[k] \in {"revoked", "gone"}
             /\ keyState[k] = "gone" => keyState'[k] = "gone"
  BY <1>2 DEF Remove, InsertKey, Revoke, Types, TypesOfTables
<1>3. ASSUME NEW r \in Requests, Handle(r), ~Remove(r), ~InsertKey(r), ~Revoke(r)
      PROVE  UNCHANGED keyState
  BY <1>3 DEF Handle, Find, SetActive, LookUp, InsertUser, CheckEdit, Update, Assign, Replace, List, Pick, CliInsert,
     Mint, Use, StateAfterUse, CreateRole, EditRole, CountRole, DropRole
<1>4. ASSUME NEW r \in Requests, Ask(r) PROVE UNCHANGED keyState
  BY <1>4, AskedFor DEF Start
<1>5. ASSUME NEW r \in Requests, CliAssign(r) \/ Present(r) \/ Abort(r)
      PROVE  UNCHANGED keyState
  BY <1>5 DEF CliAssign, Present, Abort
<1>6. QED
  BY <1>1, <1>2, <1>3, <1>4, <1>5 DEF Next, vars

-----------------------------------------------------------------------------
(***************************************************************************)
(* Where foreign keys are enforced, and however requests interleave,       *)
(* assignments are of users and roles that exist and keys of users that    *)
(* exist.                                                                  *)
(***************************************************************************)
THEOREM OwnersHold == Spec => []RowsHaveTheirOwners
<1>1. Init => RowsHaveTheirOwners
  <2> SUFFICES ASSUME Init PROVE OwnersExist
    BY DEF RowsHaveTheirOwners
  <2>1. PICK root \in Uids, i \in Ids :
          /\ users = [u \in Uids |-> IF u = root THEN Root ELSE None]
          /\ rows = {[id |-> i, uid |-> root, role |-> "admin", scope |-> Global]}
          /\ keyState = [k \in Keys |-> "unused"]
    BY DEF Init
  <2>2. QED
    BY <2>1 DEF OwnersExist, RoleExists
<1>2. Types /\ RowsHaveTheirOwners /\ [Next]_vars => RowsHaveTheirOwners'
  <2>1. [Next]_vars => UNCHANGED enforced
    BY DEF Next, vars
  <2>2. QED
    BY <2>1, NextOwners DEF RowsHaveTheirOwners
<1>3. QED
  BY <1>1, <1>2, TypesHold, PTL DEF Spec

(***************************************************************************)
(* A revoked key is never accepted again.                                  *)
(***************************************************************************)
THEOREM RevocationLasts == Spec => RevokedStaysRevoked
<1>1. Types /\ [Next]_vars =>
        [\A k \in Keys :
           /\ keyState[k] = "revoked" => keyState'[k] \in {"revoked", "gone"}
           /\ keyState[k] = "gone" => keyState'[k] = "gone"]_vars
  BY KeysStayRevoked
<1>2. QED
  BY <1>1, TypesHold, PTL DEF Spec, RevokedStaysRevoked
-----------------------------------------------------------------------------
(* Ids of rows and usernames are unique, however requests interleave.      *)
HIDE AccountsAssumption

IdsAreUnique   == \A a, b \in rows : a.id = b.id => a = b
NamesAreUnique == \A u, v \in Uids : IsUser(u) /\ users[u] = users[v] => u = v

\* Rows that are inserted get ids that no kept row and no other of them has.
LEMMA InsertedIds ==
  ASSUME Types, NEW u \in Uids, NEW form \in Lists, NEW kept \in SUBSET rows,
         Inserted(u, form, kept)
  PROVE  \E ids \in [DOMAIN form -> Ids] :
           /\ rows' = kept \cup NewRows(u, form, ids)
           /\ \A i \in DOMAIN form : \A a \in kept : a.id # ids[i]
           /\ \A i, j \in DOMAIN form : i # j => ids[i] # ids[j]
<1>1. PICK ids \in [DOMAIN form -> Ids] :
         AreNextIds(ids, kept) /\ rows' = kept \cup NewRows(u, form, ids)
  BY DEF Inserted
<1>2. \A i \in DOMAIN form :
         /\ ids[i] \in Ids /\ ids[i] \in FreshIds(kept)
         /\ \A j \in DOMAIN form : j < i => ids[j] < ids[i]
  BY <1>1 DEF AreNextIds, IsLeast
<1>3. \A i \in DOMAIN form : \A a \in kept : a.id # ids[i]
  <2> SUFFICES ASSUME NEW i \in DOMAIN form, NEW a \in kept, a.id = ids[i] PROVE FALSE
    OBVIOUS
  <2>1. ids[i] \in Nat
    BY <1>2, AccountsAssumption
  <2>2. ids[i] \in FreshIds(kept) /\ a \in rows
    BY <1>2
  <2>3. CASE enforced
    BY <2>2, <2>3 DEF FreshIds
  <2>4. CASE ~enforced
    BY <2>1, <2>2, <2>4 DEF FreshIds
  <2>5. QED
    BY <2>3, <2>4
<1>4. \A i, j \in DOMAIN form : i # j => ids[i] # ids[j]
  <2>1. DOMAIN form \subseteq Nat
    <3> HIDE DEF Entries
    <3>1. DOMAIN form = 1..Len(form)
      BY DEF Lists
    <3>2. QED
      BY <3>1
  <2>2. Ids \subseteq Nat
    BY AccountsAssumption
  <2>3. \A i \in DOMAIN form : ids[i] \in Nat
    BY <1>2, <2>2
  <2>4. QED
    BY <1>2, <2>1, <2>3
<1>5. QED
  BY <1>1, <1>3, <1>4

LEMMA InsertedStayUnique ==
  ASSUME Types, IdsAreUnique, NEW u \in Uids, NEW form \in Lists, NEW kept \in SUBSET rows,
         Inserted(u, form, kept)
  PROVE  IdsAreUnique'
<1>1. PICK ids \in [DOMAIN form -> Ids] :
         /\ rows' = kept \cup NewRows(u, form, ids)
         /\ \A i \in DOMAIN form : \A a \in kept : a.id # ids[i]
         /\ \A i, j \in DOMAIN form : i # j => ids[i] # ids[j]
  BY InsertedIds
<1>2. \A a \in NewRows(u, form, ids) :
         \E i \in DOMAIN form : a = [id |-> ids[i], uid |-> u, role |-> form[i].role,
                                     scope |-> form[i].scope]
  BY DEF NewRows
<1> SUFFICES ASSUME NEW a \in rows', NEW b \in rows', a.id = b.id PROVE a = b
  BY DEF IdsAreUnique
<1>3. CASE a \in kept /\ b \in kept
  BY <1>3 DEF IdsAreUnique
<1>4. CASE a \in NewRows(u, form, ids)
  <2>1. PICK i \in DOMAIN form :
          a = [id |-> ids[i], uid |-> u, role |-> form[i].role, scope |-> form[i].scope]
    BY <1>2, <1>4
  <2>2. b \in NewRows(u, form, ids)
    BY <1>1, <2>1
  <2>3. PICK j \in DOMAIN form :
          b = [id |-> ids[j], uid |-> u, role |-> form[j].role, scope |-> form[j].scope]
    BY <1>2, <2>2
  <2>4. i = j
    BY <1>1, <2>1, <2>3
  <2>5. QED
    BY <2>1, <2>3, <2>4
<1>5. CASE b \in NewRows(u, form, ids) /\ a \in kept
  <2>1. PICK j \in DOMAIN form :
          b = [id |-> ids[j], uid |-> u, role |-> form[j].role, scope |-> form[j].scope]
    BY <1>2, <1>5
  <2>2. QED
    BY <1>1, <1>5, <2>1
<1>6. QED
  BY <1>1, <1>3, <1>4, <1>5

\* What the handlers that insert rows put them beside
LEMMA InsertsKnown ==
  ASSUME Types, NEW r \in Requests,
         InsertUser(r) \/ Replace(r) \/ CliInsert(r), ~UNCHANGED rows
  PROVE  \E u \in Uids, form \in Lists, kept \in SUBSET rows : Inserted(u, form, kept)
<1>1. req[r] \in RequestRecord /\ Filled(req[r])
  BY DEF Types
<1>2. req[r].form \in Lists
  BY <1>1 DEF RequestRecord
<1>3. CASE InsertUser(r)
  <2>1. [role |-> req[r].role, scope |-> Global] \in Entries
    BY <1>1, <1>3 DEF InsertUser, Filled
  <2>2. <<[role |-> req[r].role, scope |-> Global]>> \in Lists
    BY <2>1, ListTypes
  <2>3. \E u \in Uids : Inserted(u, <<[role |-> req[r].role, scope |-> Global]>>, rows)
    BY <1>3 DEF InsertUser
  <2>4. QED
    BY <2>2, <2>3, Zenon
<1>4. CASE Replace(r)
  <2>1. req[r].uid \in Uids
    BY <1>1, <1>4 DEF Replace, Filled
  <2>2. Inserted(req[r].uid, req[r].form, {a \in rows : a.id \notin Replaced(r)})
    BY <1>4 DEF Replace
  <2>3. {a \in rows : a.id \notin Replaced(r)} \in SUBSET rows
    OBVIOUS
  <2>4. QED
    BY <1>2, <2>1, <2>2, <2>3, Zenon
<1>5. CASE CliInsert(r)
  <2>1. req[r].uid \in Uids
    BY <1>1, <1>5 DEF CliInsert, Filled
  <2>2. Inserted(req[r].uid, req[r].form, rows)
    BY <1>5 DEF CliInsert
  <2>3. QED
    BY <1>2, <2>1, <2>2, Zenon
<1>6. QED
  BY <1>3, <1>4, <1>5

\* Rows are only inserted as above, or some of them deleted.
LEMMA RowsChange ==
  ASSUME Types, [Next]_vars
  PROVE  \/ rows' \subseteq rows
         \/ \E u \in Uids, form \in Lists, kept \in SUBSET rows : Inserted(u, form, kept)
<1>1. CASE UNCHANGED rows
  BY <1>1
<1>2. ASSUME NEW r \in Requests, Handle(r), ~UNCHANGED rows
      PROVE  InsertUser(r) \/ Replace(r) \/ CliInsert(r) \/ rows' \subseteq rows
  BY <1>2 DEF Handle, Find, SetActive, LookUp, CheckEdit, Update, Assign, List, Pick, Remove, Uncascaded,
     Mint, InsertKey, Revoke, Use, CreateRole, EditRole, CountRole, DropRole
<1>3. QED
  BY <1>1, <1>2, InsertsKnown, OthersWriteNothing DEF Next, vars

LEMMA IdsStep == Types /\ IdsAreUnique /\ [Next]_vars => IdsAreUnique'
  BY RowsChange, InsertedStayUnique, Zenon DEF IdsAreUnique

LEMMA UsersChange ==
  ASSUME Types, [Next]_vars
  PROVE  \/ UNCHANGED users
         \/ \E u \in Uids : users' = [users EXCEPT ![u] = None]
         \/ \E u \in Uids, n \in Names :
              /\ \A v \in Uids : users[v] # n
              /\ users' = [users EXCEPT ![u] = n]
<1>1. ASSUME NEW r \in Requests, InsertUser(r), ~UNCHANGED users
      PROVE  \E u \in Uids, n \in Names :
               (\A v \in Uids : users[v] # n) /\ users' = [users EXCEPT ![u] = n]
  <2>1. req[r].name \in Names
    BY <1>1 DEF InsertUser, Types, Filled
  <2>2. QED
    BY <1>1, <2>1 DEF InsertUser
<1>2. ASSUME NEW r \in Requests, Remove(r), ~UNCHANGED users
      PROVE  \E u \in Uids : users' = [users EXCEPT ![u] = None]
  BY <1>2 DEF Remove, Types, Filled
<1>3. ASSUME NEW r \in Requests, Handle(r), ~InsertUser(r), ~Remove(r)
      PROVE  UNCHANGED users
  BY <1>3 DEF Handle, Find, SetActive, LookUp, CheckEdit, Update, Assign, Replace, List, Pick, CliInsert,
     Mint, InsertKey, Revoke, Use, CreateRole, EditRole, CountRole, DropRole
<1>4. QED
  BY <1>1, <1>2, <1>3, OthersWriteNothing DEF Next, vars

LEMMA NamesStep == Types /\ NamesAreUnique /\ [Next]_vars => NamesAreUnique'
<1> SUFFICES ASSUME Types, NamesAreUnique, [Next]_vars PROVE NamesAreUnique'
  OBVIOUS
<1>1. users \in [Uids -> Names \cup {None}]
  BY DEF Types, TypesOfTables
<1>2. None \notin Names
  BY AccountsAssumption
<1>3. QED
  BY <1>1, <1>2, UsersChange DEF NamesAreUnique

(***************************************************************************)
(* Ids of assignment rows and usernames are never used twice at a time.    *)
(***************************************************************************)
THEOREM KeysAreUnique == Spec => [](IdsAreUnique /\ NamesAreUnique)
<1>1. Init => IdsAreUnique /\ NamesAreUnique
  <2> SUFFICES ASSUME Init PROVE IdsAreUnique /\ NamesAreUnique
    OBVIOUS
  <2>1. PICK root \in Uids, i \in Ids :
          /\ users = [u \in Uids |-> IF u = root THEN Root ELSE None]
          /\ rows = {[id |-> i, uid |-> root, role |-> "admin", scope |-> Global]}
    BY DEF Init
  <2>2. QED
    BY <2>1 DEF IdsAreUnique, NamesAreUnique
<1>2. QED
  BY <1>1, IdsStep, NamesStep, TypesHold, PTL DEF Spec
-----------------------------------------------------------------------------
(* Requests that come one at a time.                                       *)

OneAtWork == \A q, r \in Requests : q # r => ~Works(req[q]) \/ ~Works(req[r])

OneGlobalEach ==
  \A a, b \in rows : a.uid = b.uid /\ a.scope = Global /\ b.scope = Global => a = b

\* Requests that come one at a time find the tables as they have read them: no
\* row lost its owner, and nobody has two global roles.
TurnInv ==
  orderly => /\ OneAtWork
             /\ \A r \in Requests : StillSo(req[r])
             /\ OwnersExist
             /\ OneGlobalEach

\* A step of one request, which is the only one at work after it if it goes on
InTurn(r, x) ==
  /\ req' = [req EXCEPT ![r] = x]
  /\ Works(x) => \A q \in Requests \ {r} : ~Works(req[q])

LEMMA RestsStillSo == \A x : ~Works(x) => StillSo(x) /\ StillSo(x)'
  BY DEF Works, StillSo

LEMMA OrderlyBefore == Types /\ [Next]_vars /\ orderly' => orderly
  <1> SUFFICES ASSUME Types, [Next]_vars, orderly' PROVE orderly
    OBVIOUS
  <1>1. ASSUME NEW r \in Requests, Ask(r) PROVE orderly
    BY <1>1, AskedFor DEF Start
  <1>2. ASSUME NEW r \in Requests, CliAssign(r) \/ Present(r) \/ Abort(r) PROVE orderly
    BY <1>2 DEF CliAssign, Present, Abort
  <1>3. ASSUME NEW r \in Requests, Handle(r) PROVE orderly
    BY <1>3 DEF Handle, Find, SetActive, LookUp, InsertUser, CheckEdit, Update, Assign, Replace, List, Pick,
       Remove, CliInsert, Mint, InsertKey, Revoke, Use, CreateRole, EditRole, CountRole, DropRole
  <1>4. QED
    BY <1>1, <1>2, <1>3 DEF Next, vars

\* After a step of the only request at work the others have read nothing.
LEMMA WriterInTurn ==
  ASSUME Types, OneAtWork, NEW r \in Requests, Works(req[r]), NEW x,
         req' = [req EXCEPT ![r] = x], StillSo(x)'
  PROVE  OneAtWork' /\ (\A q \in Requests : StillSo(req[q]))'
<1>1. \A q \in Requests \ {r} : ~Works(req[q])
  BY DEF OneAtWork
<1>2. \A q \in Requests : req'[q] = IF q = r THEN x ELSE req[q]
  BY DEF Types
<1>3. \A q \in Requests \ {r} : ~Works(req'[q])
  BY <1>1, <1>2
<1>4. OneAtWork'
  BY <1>3, Zenon DEF OneAtWork, Works
<1>5. \A q \in Requests : StillSo(req[q])'
  BY <1>2, <1>3, RestsStillSo DEF StillSo
<1>6. QED
  BY <1>4, <1>5

LEMMA ReaderInTurn ==
  ASSUME Types, OneAtWork, \A q \in Requests : StillSo(req[q]), NEW r \in Requests, NEW x,
         InTurn(r, x), StillSo(x)', UNCHANGED tables
  PROVE  OneAtWork' /\ (\A q \in Requests : StillSo(req[q]))'
<1>1. \A q \in Requests : req'[q] = IF q = r THEN x ELSE req[q]
  BY DEF Types, InTurn
<1>2. \A q \in Requests \ {r} : Works(x) => ~Works(req[q])
  BY DEF InTurn
<1>3. OneAtWork'
  <2> SUFFICES ASSUME NEW p \in Requests, NEW q \in Requests, p # q
               PROVE  ~Works(req'[p]) \/ ~Works(req'[q])
    BY DEF OneAtWork, Works
  <2>1. ~Works(req[p]) \/ ~Works(req[q])
    BY DEF OneAtWork
  <2>2. QED
    BY <1>1, <1>2, <2>1
<1>4. \A q \in Requests \ {r} : StillSo(req[q])' <=> StillSo(req[q])
  BY <1>1 DEF StillSo, RoleExists, IdsOf, RowsOf, KeysOf, Unassigned
<1>5. StillSo(req[r])'
  BY <1>1 DEF StillSo
<1>6. QED
  BY <1>3, <1>4, <1>5, Zenon
\* What a request has read by the end of a step is so at the end of it.
ReadsInTurn(r) == \E x : req' = [req EXCEPT ![r] = x] /\ StillSo(x)'

LEMMA FinishInTurn == ASSUME NEW r \in Requests, Finish(r) PROVE ReadsInTurn(r)
<1>1. PICK x : x = Idle
  OBVIOUS
<1>2. StillSo(x)'
  BY <1>1 DEF Idle, StillSo
<1>3. QED
  BY <1>1, <1>2 DEF Finish, ReadsInTurn

LEMMA GotoInTurn ==
  ASSUME Types, NEW r \in Requests, 
         NEW place \in {"check", "mint", "update", "assign", "dropRole"}, Goto(r, place),
         place # "dropRole" => req[r].name \in Names,
         place = "dropRole" => Unassigned(req[r].role),
         UNCHANGED tables
  PROVE  ReadsInTurn(r)
<1>1. PICK x : x = [req[r] EXCEPT !.at = place]
  OBVIOUS
<1>2. x.at = place /\ x.name = req[r].name /\ x.role = req[r].role
  BY <1>1 DEF Types, RequestRecord
<1>3. CASE place = "dropRole"
  <2>1. Unassigned(x.role)'
    BY <1>2, <1>3 DEF Unassigned
  <2>2. StillSo(x)'
    BY <1>2, <1>3, <2>1 DEF StillSo
  <2>3. QED
    BY <1>1, <2>2 DEF Goto, ReadsInTurn
<1>4. CASE place # "dropRole"
  <2>1. StillSo(x)'
    BY <1>2, <1>4 DEF StillSo
  <2>2. QED
    BY <1>1, <2>1 DEF Goto, ReadsInTurn
<1>5. QED
  BY <1>3, <1>4

LEMMA LookUpInTurn ==
  ASSUME Types, NEW r \in Requests, LookUp(r) PROVE ReadsInTurn(r)
<1>1. CASE Finish(r)
  BY <1>1, FinishInTurn
<1>2. ASSUME NEW ro \in RoleNames, RoleExists(ro),
             req' = [req EXCEPT ![r].at = "insertUser", ![r].role = ro]
      PROVE  ReadsInTurn(r)
  <2>1. PICK x : x = [req[r] EXCEPT !.at = "insertUser", !.role = ro]
    OBVIOUS
  <2>2. x.at = "insertUser" /\ x.role = ro
    BY <2>1 DEF Types, RequestRecord
  <2>3. RoleExists(ro)'
    BY <1>2 DEF LookUp, RoleExists
  <2>4. StillSo(x)'
    BY <2>2, <2>3 DEF StillSo
  <2>5. QED
    BY <1>2, <2>1, <2>4 DEF ReadsInTurn
<1>3. QED
  BY <1>1, <1>2 DEF LookUp

LEMMA AssignInTurn ==
  ASSUME Types, NEW r \in Requests, Assign(r), req[r].name \in Names PROVE ReadsInTurn(r)
<1>1. CASE Finish(r)
  BY <1>1, FinishInTurn
<1>2. ASSUME NEW u \in Uids, IsNamed(req[r].name, u), ~DuplicateScopes(req[r].form),
             req' = [req EXCEPT ![r].at = "replace", ![r].uid = u, ![r].old = IdsOf(u)]
      PROVE  ReadsInTurn(r)
  <2>1. PICK x : x = [req[r] EXCEPT !.at = "replace", !.uid = u, !.old = IdsOf(u)]
    OBVIOUS
  <2>2. /\ x.at = "replace" /\ x.uid = u /\ x.old = IdsOf(u)
        /\ x.name = req[r].name /\ x.form = req[r].form
    BY <2>1 DEF Types, RequestRecord
  <2>3. UNCHANGED tables
    BY DEF Assign
  <2>4. StillSo(x)'
    BY <1>2, <2>2, <2>3 DEF StillSo, IdsOf, RowsOf, DuplicateScopes
  <2>5. QED
    BY <1>2, <2>1, <2>4 DEF ReadsInTurn
<1>3. QED
  BY <1>1, <1>2 DEF Assign

LEMMA ListInTurn ==
  ASSUME Types, NEW r \in Requests, List(r) PROVE ReadsInTurn(r)
<1>1. PICK seen : req' = [req EXCEPT ![r].at = "pick", ![r].admins = seen]
  BY DEF List
<1>2. PICK x : x = [req[r] EXCEPT !.at = "pick", !.admins = seen]
  OBVIOUS
<1>3. x.at = "pick"
  BY <1>2 DEF Types, RequestRecord
<1>4. StillSo(x)'
  BY <1>3 DEF StillSo
<1>5. QED
  BY <1>1, <1>2, <1>4 DEF ReadsInTurn

LEMMA PickInTurn ==
  ASSUME Types, NEW r \in Requests, Pick(r) PROVE ReadsInTurn(r)
<1>1. CASE Finish(r)
  BY <1>1, FinishInTurn
<1>2. ASSUME NEW n \in req[r].todo, NEW u \in Uids, IsNamed(n, u),
             req' = [req EXCEPT ![r].at = "remove", ![r].name = n, ![r].uid = u,
                                ![r].old = IdsOf(u), ![r].keys = KeysOf(u)]
      PROVE  ReadsInTurn(r)
  <2>1. PICK x : x = [req[r] EXCEPT !.at = "remove", !.name = n, !.uid = u,
                                    !.old = IdsOf(u), !.keys = KeysOf(u)]
    OBVIOUS
  <2>2. req[r] \in RequestRecord
    BY DEF Types
  <2>3. /\ x.at = "remove" /\ x.name = n /\ x.uid = u
        /\ x.old = IdsOf(u) /\ x.keys = KeysOf(u)
    BY <2>1, <2>2 DEF RequestRecord
  <2>4. n \in Names
    BY <2>2 DEF RequestRecord
  <2>5. UNCHANGED tables
    BY DEF Pick
  <2>6. StillSo(x)'
    BY <1>2, <2>3, <2>4, <2>5 DEF StillSo, IdsOf, RowsOf, KeysOf
  <2>7. QED
    BY <1>2, <2>1, <2>6 DEF ReadsInTurn
<1>3. QED
  BY <1>1, <1>2 DEF Pick

LEMMA MintInTurn ==
  ASSUME Types, NEW r \in Requests, Mint(r), req[r].name \in Names PROVE ReadsInTurn(r)
<1>1. CASE Finish(r)
  BY <1>1, FinishInTurn
<1>2. ASSUME NEW u \in Uids, IsNamed(req[r].name, u),
             req' = [req EXCEPT ![r].at = "insertKey", ![r].uid = u]
      PROVE  ReadsInTurn(r)
  <2>1. PICK x : x = [req[r] EXCEPT !.at = "insertKey", !.uid = u]
    OBVIOUS
  <2>2. x.at = "insertKey" /\ x.uid = u
    BY <2>1 DEF Types, RequestRecord
  <2>3. UNCHANGED tables
    BY DEF Mint
  <2>4. IsUser(u)'
    BY <1>2, <2>3, AccountsAssumption
  <2>5. StillSo(x)'
    BY <2>2, <2>4 DEF StillSo
  <2>6. QED
    BY <1>2, <2>1, <2>5 DEF ReadsInTurn
<1>3. QED
  BY <1>1, <1>2 DEF Mint

LEMMA InsertUserInTurn ==
  ASSUME Types, NEW r \in Requests, InsertUser(r) PROVE ReadsInTurn(r)
<1>1. CASE Finish(r)
  BY <1>1, FinishInTurn
<1>2. CASE req' = [req EXCEPT ![r].at = "assign", ![r].role = None]
  <2>1. PICK x : x = [req[r] EXCEPT !.at = "assign", !.role = None]
    OBVIOUS
  <2>2. x.at = "assign" /\ x.name = req[r].name
    BY <2>1 DEF Types, RequestRecord
  <2>3. req[r].name \in Names
    BY DEF InsertUser, Types, Filled
  <2>4. StillSo(x)'
    BY <2>2, <2>3 DEF StillSo
  <2>5. QED
    BY <1>2, <2>1, <2>4 DEF ReadsInTurn
<1>3. QED
  BY <1>1, <1>2, Zenon DEF InsertUser

LEMMA RemoveInTurn ==
  ASSUME Types, NEW r \in Requests, Remove(r) PROVE ReadsInTurn(r)
<1>1. CASE Finish(r)
  BY <1>1, FinishInTurn
<1> DEFINE rest == req[r].todo \ {req[r].name}
           y == [req[r] EXCEPT !.at = "pick", !.todo = rest, !.name = None, !.uid = None,
                               !.old = {}, !.keys = {}]
<1>2. CASE req' = [req EXCEPT ![r] = y]
  <2>1. PICK x : x = y
    OBVIOUS
  <2>2. x.at = "pick"
    BY <2>1 DEF Types, RequestRecord
  <2>3. StillSo(x)'
    BY <2>2 DEF StillSo
  <2>4. QED
    BY <1>2, <2>1, <2>3 DEF ReadsInTurn
<1>3. req' = [req EXCEPT ![r] = y] \/ Finish(r)
  BY DEF Remove, Finish
<1>4. QED
  BY <1>1, <1>2, <1>3

LEMMA UpdateInTurn ==
  ASSUME Types, NEW r \in Requests, Update(r), req[r].name \in Names PROVE ReadsInTurn(r)
<1>1. CASE Finish(r)
  BY <1>1, FinishInTurn
<1>2. CASE Goto(r, "assign")
  BY <1>2, GotoInTurn DEF Update
<1>3. ASSUME NEW u \in Uids, IsNamed(req[r].name, u),
             req' = [req EXCEPT ![r].at = "setActive", ![r].uid = u]
      PROVE  ReadsInTurn(r)
  <2>1. PICK x : x = [req[r] EXCEPT !.at = "setActive", !.uid = u]
    OBVIOUS
  <2>2. x.at = "setActive" /\ x.uid = u /\ x.name = req[r].name
    BY <2>1 DEF Types, RequestRecord
  <2>3. UNCHANGED tables
    BY DEF Update
  <2>4. StillSo(x)'
    BY <1>3, <2>2, <2>3 DEF StillSo
  <2>5. QED
    BY <1>3, <2>1, <2>4 DEF ReadsInTurn
<1>4. QED
  BY <1>1, <1>2, <1>3, Zenon DEF Update

LEMMA SetActiveInTurn ==
  ASSUME Types, NEW r \in Requests, SetActive(r), StillSo(req[r]) PROVE ReadsInTurn(r)
<1>1. CASE Finish(r)
  BY <1>1, FinishInTurn
<1>2. CASE req' = [req EXCEPT ![r].at = "assign", ![r].uid = None]
  <2>1. PICK x : x = [req[r] EXCEPT !.at = "assign", !.uid = None]
    OBVIOUS
  <2>2. x.at = "assign" /\ x.name = req[r].name
    BY <2>1 DEF Types, RequestRecord
  <2>3. req[r].name \in Names
    BY DEF SetActive, StillSo
  <2>4. StillSo(x)'
    BY <2>2, <2>3 DEF StillSo
  <2>5. QED
    BY <1>2, <2>1, <2>4 DEF ReadsInTurn
<1>3. QED
  BY <1>1, <1>2, Zenon DEF SetActive

LEMMA HandleReadsInTurn ==
  ASSUME Types, NEW r \in Requests, Handle(r), StillSo(req[r]) PROVE ReadsInTurn(r)
<1>1. CASE Finds(r) \/ CheckEdit(r)
  <2>1. req[r].name \in Names
    BY <1>1 DEF Finds, Find, CheckEdit, StillSo
  <2>2. Finish(r) \/ \E place \in {"check", "assign", "mint", "update"} : Goto(r, place)
    BY <1>1, Zenon DEF Finds, Find, CheckEdit
  <2>3. UNCHANGED tables
    BY <1>1 DEF Finds, Find, CheckEdit
  <2>4. QED
    BY <2>1, <2>2, <2>3, FinishInTurn, GotoInTurn
<1>2. CASE CountRole(r)
  <2>1. UNCHANGED tables
    BY <1>2 DEF CountRole
  <2>2. Finish(r) \/ (Goto(r, "dropRole") /\ Unassigned(req[r].role))
    BY <1>2, Zenon DEF CountRole
  <2>3. QED
    BY <2>1, <2>2, FinishInTurn, GotoInTurn
<1>3. CASE Update(r) \/ Assign(r) \/ Mint(r)
  <2>1. req[r].name \in Names
    BY <1>3 DEF Update, Assign, Mint, StillSo
  <2>2. QED
    BY <1>3, <2>1, UpdateInTurn, AssignInTurn, MintInTurn
<1>4. CASE \/ Replace(r) \/ CliInsert(r) \/ InsertKey(r) \/ Revoke(r) \/ Use(r)
           \/ CreateRole(r) \/ EditRole(r) \/ DropRole(r)
  BY <1>4, FinishInTurn DEF Replace, CliInsert, InsertKey, Revoke, Use, CreateRole, EditRole,
     DropRole
<1>5. QED
  BY <1>1, <1>2, <1>3, <1>4, SetActiveInTurn, LookUpInTurn, InsertUserInTurn, ListInTurn,
     PickInTurn, RemoveInTurn DEF Handle, Finds
\* Rows inserted for a user who has none, of a form with one global role at most
LEMMA InsertedGlobals ==
  ASSUME Types, OneGlobalEach, NEW u \in Uids, NEW form \in Lists, NEW kept \in SUBSET rows,
         Inserted(u, form, kept), \A a \in kept : a.uid # u,
         \A i, j \in DOMAIN form : form[i].scope = Global /\ form[j].scope = Global => i = j
  PROVE  OneGlobalEach'
<1>1. PICK ids \in [DOMAIN form -> Ids] : rows' = kept \cup NewRows(u, form, ids)
  BY DEF Inserted
<1>2. \A a \in NewRows(u, form, ids) :
         \E i \in DOMAIN form : a = [id |-> ids[i], uid |-> u, role |-> form[i].role,
                                     scope |-> form[i].scope]
  BY DEF NewRows
<1> SUFFICES ASSUME NEW a \in rows', NEW b \in rows', a.uid = b.uid,
                    a.scope = Global, b.scope = Global
             PROVE  a = b
  BY DEF OneGlobalEach
<1>3. CASE a \in kept /\ b \in kept
  BY <1>3 DEF OneGlobalEach
<1>4. CASE a \in NewRows(u, form, ids) /\ b \in NewRows(u, form, ids)
  <2>1. PICK i \in DOMAIN form :
          a = [id |-> ids[i], uid |-> u, role |-> form[i].role, scope |-> form[i].scope]
    BY <1>2, <1>4
  <2>2. PICK j \in DOMAIN form :
          b = [id |-> ids[j], uid |-> u, role |-> form[j].role, scope |-> form[j].scope]
    BY <1>2, <1>4
  <2>3. i = j
    BY <2>1, <2>2
  <2>4. QED
    BY <2>1, <2>2, <2>3
<1>5. CASE a \in NewRows(u, form, ids) /\ b \in kept
  <2>1. a.uid = u
    BY <1>2, <1>5
  <2>2. QED
    BY <1>5, <2>1
<1>6. CASE a \in kept /\ b \in NewRows(u, form, ids)
  <2>1. b.uid = u
    BY <1>2, <1>6
  <2>2. QED
    BY <1>6, <2>1
<1>7. QED
  BY <1>1, <1>3, <1>4, <1>5, <1>6

\* The next id is not of a user.
LEMMA NextUidIsFree == ASSUME NEW u \in Uids, IsNextUid(u) PROVE ~IsUser(u)
<1>1. u \in Nat
  BY AccountsAssumption
<1>2. CASE enforced
  BY <1>2 DEF IsNextUid, IsLeast
<1>3. CASE ~enforced
  <2>1. IsUser(u) => u < u
    BY <1>3 DEF IsNextUid, IsLeast
  <2>2. QED
    BY <1>1, <2>1
<1>4. QED
  BY <1>2, <1>3

LEMMA GlobalsInTurn ==
  ASSUME Types, OwnersExist, OneGlobalEach, NEW r \in Requests, Handle(r), StillSo(req[r])
  PROVE  OneGlobalEach'
<1>1. CASE rows' \subseteq rows
  BY <1>1 DEF OneGlobalEach
<1>2. CASE InsertUser(r) /\ ~UNCHANGED rows
  <2> DEFINE first == <<[role |-> req[r].role, scope |-> Global]>>
  <2>1. PICK u \in Uids : IsNextUid(u) /\ Inserted(u, first, rows)
    BY <1>2 DEF InsertUser
  <2>2. \A a \in rows : a.uid # u
    BY <2>1, NextUidIsFree DEF OwnersExist
  <2>3. [role |-> req[r].role, scope |-> Global] \in Entries
    BY <1>2 DEF InsertUser, Types, Filled
  <2>4. first \in Lists
    BY <2>3, ListTypes
  <2>5. \A i, j \in DOMAIN first : i = j
    OBVIOUS
  <2> HIDE DEF first
  <2>6. rows \in SUBSET rows
    OBVIOUS
  <2>7. QED
    BY <2>1, <2>2, <2>4, <2>5, <2>6, InsertedGlobals
<1>3. CASE Replace(r) /\ ~UNCHANGED rows
  <2> DEFINE kept == {a \in rows : a.id \notin Replaced(r)}
  <2>1. req[r] \in RequestRecord /\ req[r].uid \in Uids
    BY <1>3 DEF Replace, Types, Filled
  <2>2. req[r].form \in Lists
    BY <2>1 DEF RequestRecord
  <2>3. Inserted(req[r].uid, req[r].form, kept)
    BY <1>3 DEF Replace
  <2>4. req[r].old = IdsOf(req[r].uid) /\ ~DuplicateScopes(req[r].form)
    BY <1>3 DEF Replace, StillSo
  <2>5. \A a \in kept : a.uid # req[r].uid
    BY <2>4 DEF Replaced, IdsOf, RowsOf
  <2>6. \A i, j \in DOMAIN req[r].form :
           req[r].form[i].scope = Global /\ req[r].form[j].scope = Global => i = j
    BY <2>4 DEF DuplicateScopes
  <2>7. kept \in SUBSET rows
    OBVIOUS
  <2> HIDE DEF kept
  <2>8. QED
    BY <2>1, <2>2, <2>3, <2>5, <2>6, <2>7, InsertedGlobals
<1>4. ~CliInsert(r)
  BY DEF CliInsert, StillSo
<1>5. ASSUME ~UNCHANGED rows
      PROVE  InsertUser(r) \/ Replace(r) \/ rows' \subseteq rows
  BY <1>4, <1>5 DEF Handle, Find, SetActive, LookUp, CheckEdit, Update, Assign, List, Pick, Remove, Uncascaded,
     Mint, InsertKey, Revoke, Use, CreateRole, EditRole, CountRole, DropRole
<1>6. QED
  BY <1>1, <1>2, <1>3, <1>5

LEMMA HandleInTurn ==
  ASSUME Types, TurnInv, orderly, NEW r \in Requests, Handle(r)
  PROVE  TurnInv'
<1>1. OneAtWork /\ StillSo(req[r]) /\ OwnersExist /\ OneGlobalEach
  BY DEF TurnInv
<1>2. OwnersExist' /\ OneGlobalEach'
  BY <1>1, HandleOwners, GlobalsInTurn DEF Guarded
<1>3. PICK x : req' = [req EXCEPT ![r] = x] /\ StillSo(x)'
  BY <1>1, HandleReadsInTurn DEF ReadsInTurn
<1>4. CASE Works(req[r])
  BY <1>1, <1>2, <1>3, <1>4, WriterInTurn DEF TurnInv
<1>5. CASE ~Works(req[r])
  <2>1. Use(r)
    BY <1>5 DEF Works, Handle, Find, SetActive, LookUp, InsertUser, CheckEdit, Update, Assign, Replace, List, Pick,
       Remove, CliInsert, Mint, InsertKey, Revoke, CreateRole, EditRole, CountRole, DropRole
  <2>2. UNCHANGED tables /\ req' = [req EXCEPT ![r] = Idle]
    BY <2>1 DEF Use, StateAfterUse, Finish
  <2>3. PICK y : y = Idle
    OBVIOUS
  <2>4. ~Works(y) /\ InTurn(r, y)
    BY <2>2, <2>3 DEF Works, Idle, InTurn
  <2>5. OneAtWork' /\ (\A q \in Requests : StillSo(req[q]))'
    <3>1. \A q \in Requests : StillSo(req[q])
      BY DEF TurnInv
    <3>2. QED
      BY <1>1, <2>2, <2>4, <3>1, RestsStillSo, ReaderInTurn
  <2>6. QED
    BY <1>2, <2>5 DEF TurnInv
<1>6. QED
  BY <1>4, <1>5

LEMMA AskInTurn ==
  ASSUME Types, TurnInv, orderly, NEW r \in Requests,
         Ask(r) \/ CliAssign(r) \/ Present(r) \/ Abort(r)
  PROVE  TurnInv'
<1>1. OneAtWork /\ (\A q \in Requests : StillSo(req[q])) /\ OwnersExist /\ OneGlobalEach
  BY DEF TurnInv
<1>2. UNCHANGED tables
  BY OthersWriteNothing
<1>3. OwnersExist' /\ OneGlobalEach'
  BY <1>1, <1>2 DEF OwnersExist, OneGlobalEach, RoleExists
<1>4. ASSUME NEW x, InTurn(r, x), StillSo(x)' PROVE TurnInv'
  BY <1>1, <1>2, <1>3, <1>4, ReaderInTurn DEF TurnInv
<1>5. CASE Ask(r)
  <2>1. PICK by \in Names, permission \in Permissions, x \in RequestRecord :
          Asked(x, by) /\ Start(r, by, permission, x)
    BY <1>5, AskedFor
  <2>2. orderly' => \A q \in Requests \ {r} : req[q].at \in {"idle", "use"}
    BY <2>1 DEF Start
  <2>3. req' = [req EXCEPT ![r] = x]
    BY <2>1 DEF Start, Begin
  <2>4. StillSo(x)'
    BY <2>1 DEF Asked, StillSo
  <2>5. CASE orderly'
    <3>1. InTurn(r, x)
      BY <2>2, <2>3, <2>5 DEF InTurn, Works
    <3>2. QED
      BY <1>4, <2>4, <3>1
  <2>6. QED
    BY <2>5 DEF TurnInv
<1>6. CASE CliAssign(r)
  BY <1>6 DEF CliAssign, TurnInv
<1>7. CASE Present(r) \/ Abort(r)
  <2>1. PICK x : ~Works(x) /\ req' = [req EXCEPT ![r] = x]
    <3>1. CASE Present(r)
      <4>1. PICK k \in Keys : req' = [req EXCEPT ![r] = [Idle EXCEPT !.at = "use", !.key = k]]
        BY <3>1 DEF Present, Begin
      <4>2. ~Works([Idle EXCEPT !.at = "use", !.key = k])
        BY DEF Works, Idle
      <4>3. QED
        BY <4>1, <4>2
    <3>2. CASE Abort(r)
      BY <3>2 DEF Abort, Finish, Works, Idle
    <3>3. QED
      BY <1>7, <3>1, <3>2
  <2>2. InTurn(r, x)
    BY <2>1 DEF InTurn
  <2>3. StillSo(x)'
    BY <2>1, RestsStillSo
  <2>4. QED
    BY <1>4, <2>2, <2>3
<1>8. QED
  BY <1>5, <1>6, <1>7

LEMMA TurnStep == Types /\ TurnInv /\ [Next]_vars => TurnInv'
<1> SUFFICES ASSUME Types, TurnInv, [Next]_vars, orderly' PROVE TurnInv'
  BY DEF TurnInv
<1>1. orderly
  BY OrderlyBefore
<1>2. CASE UNCHANGED vars
  <2>1. UNCHANGED req /\ UNCHANGED tables /\ UNCHANGED orderly
    BY <1>2 DEF vars
  <2>2. QED
    BY <2>1 DEF TurnInv, OneAtWork, Works, StillSo, OwnersExist, OneGlobalEach, RoleExists,
       IdsOf, RowsOf, KeysOf, Unassigned
<1>3. QED
  BY <1>1, <1>2, HandleInTurn, AskInTurn DEF Next

LEMMA TurnInit == Init => TurnInv
<1> SUFFICES ASSUME Init PROVE TurnInv
  OBVIOUS
<1>1. PICK root \in Uids, i \in Ids :
         /\ users = [u \in Uids |-> IF u = root THEN Root ELSE None]
         /\ rows = {[id |-> i, uid |-> root, role |-> "admin", scope |-> Global]}
         /\ keyState = [k \in Keys |-> "unused"]
         /\ req = [r \in Requests |-> Idle]
  BY DEF Init
<1>2. OneAtWork /\ \A r \in Requests : StillSo(req[r])
  BY <1>1 DEF OneAtWork, Works, StillSo, Idle
<1>3. OwnersExist
  BY <1>1, AccountsAssumption DEF OwnersExist, RoleExists
<1>4. OneGlobalEach
  BY <1>1 DEF OneGlobalEach
<1>5. QED
  BY <1>2, <1>3, <1>4 DEF TurnInv

(***************************************************************************)
(* While requests come one at a time what each has read is still so when   *)
(* it writes.                                                              *)
(***************************************************************************)
THEOREM TurnInvariant == Spec => []TurnInv
BY TurnInit, TurnStep, TypesHold, PTL DEF Spec

(***************************************************************************)
(* Where foreign keys are not enforced, assignments and keys have their    *)
(* owners as long as requests come one at a time: the ORM's cascade in     *)
(* delete_user and the count in delete_role see to it.                     *)
(***************************************************************************)
THEOREM OwnersHoldInTurn == Spec => []RowsHaveTheirOwnersInTurn
<1>1. TurnInv => RowsHaveTheirOwnersInTurn
  BY DEF TurnInv, RowsHaveTheirOwnersInTurn
<1>2. QED
  BY <1>1, TurnInvariant, PTL
-----------------------------------------------------------------------------
(* The last administrator.                                                 *)

\* The global role of a form, if it exists, administers.
KeepsAdmin(form) ==
  \A ro \in RoleNames : IsGlobalRole(ro, form) /\ RoleExists(ro) => GrantOf(ro) # {}

\* Who makes a request administers, and it is not about to take this from him.
ActorStays(x) ==
  Works(x) =>
    /\ \E u \in Uids : IsNamed(x.by, u) /\ IsAdmin(u)
    /\ x.at \in {"insertUser", "remove"} => x.name # x.by
    /\ x.at = "findService" => x.name # x.by
    /\ x.at \in {"update", "setActive", "assign", "replace"} /\ x.name = x.by =>
         KeepsAdmin(x.form)
    /\ x.at = "list" => ~x.service
    /\ x.at \in {"pick", "remove"} /\ x.service => x.by \notin x.todo

AdminInv ==
  orderly /\ ~unguarded => AnAdminRemains /\ \A r \in Requests : ActorStays(req[r])

\* A role of a global assignment that is read, and the grants that are then read
GlobalsOf(u) == {a \in RowsOf(u) : a.scope = Global /\ RoleExists(a.role)}

Administers(u) ==
  /\ GlobalsOf(u) = {} => GrantOf(DefaultRole) # {}
  /\ \A a \in GlobalsOf(u) : GrantOf(a.role) # {}

LEMMA AdminMeans ==
  \A u : /\ IsAdmin(u) <=> IsUser(u) /\ u \in active /\ Administers(u)
         /\ IsAdmin(u)' <=> IsUser(u)' /\ u \in active' /\ Administers(u)'
<1> SUFFICES ASSUME NEW u
             PROVE  /\ IsAdmin(u) <=> IsUser(u) /\ u \in active /\ Administers(u)
                    /\ IsAdmin(u)' <=> IsUser(u)' /\ u \in active' /\ Administers(u)'
  OBVIOUS
<1> HIDE DEF IsUser
<1>1. {} \notin GrantsRead(u) <=> Administers(u)
  <2>1. GrantsRead(u) = IF GlobalsOf(u) = {} THEN {GrantOf(DefaultRole)}
                        ELSE {GrantOf(a.role) : a \in GlobalsOf(u)}
    BY Zenon DEF GrantsRead, GlobalsOf
  <2>2. QED
    BY <2>1 DEF Administers
<1>2. ({} \notin GrantsRead(u))' <=> Administers(u)'
  <2>1. GrantsRead(u)' = (IF GlobalsOf(u) = {} THEN {GrantOf(DefaultRole)}
                          ELSE {GrantOf(a.role) : a \in GlobalsOf(u)})'
    BY Zenon DEF GrantsRead, GlobalsOf
  <2>2. QED
    BY <2>1 DEF Administers
<1>3. QED
  BY <1>1, <1>2 DEF IsAdmin

\* The grants of built-in roles do not change.
LEMMA DefaultStays == GrantOf(DefaultRole)' = GrantOf(DefaultRole)
  BY AccountsAssumption DEF GrantOf

\* An administrator stays one whose rows stay and whose roles keep granting.
LEMMA AdminStays ==
  ASSUME NEW u \in Uids, IsAdmin(u), IsUser(u)', u \in active', RowsOf(u)' = RowsOf(u),
         \A a \in RowsOf(u) :
           /\ RoleExists(a.role) <=> RoleExists(a.role)'
           /\ GrantOf(a.role) # {} => GrantOf(a.role)' # {}
  PROVE  IsAdmin(u)'
<1>1. GlobalsOf(u)' = GlobalsOf(u)
  BY DEF GlobalsOf
<1>2. Administers(u)
  BY AdminMeans
<1>3. \A a \in GlobalsOf(u) : a \in RowsOf(u)
  BY DEF GlobalsOf
<1>4. Administers(u)'
  BY <1>1, <1>2, <1>3, DefaultStays DEF Administers
<1>5. QED
  BY <1>4, AdminMeans

\* In particular where the roles are as they were
LEMMA AdminStaysAsRolesDo ==
  ASSUME NEW u \in Uids, IsAdmin(u), IsUser(u)', u \in active', RowsOf(u)' = RowsOf(u),
         UNCHANGED <<stage, grant>>
  PROVE  IsAdmin(u)'
<1>1. \A p : RoleExists(p)' = RoleExists(p) /\ GrantOf(p)' = GrantOf(p)
  BY DEF RoleExists, GrantOf
<1>2. QED
  BY <1>1, AdminStays

LEMMA NothingWritten ==
  ASSUME UNCHANGED tables
  PROVE  /\ \A x : ActorStays(x) => ActorStays(x)'
         /\ AnAdminRemains => AnAdminRemains'
<1>1. \A p : RoleExists(p)' = RoleExists(p) /\ GrantOf(p)' = GrantOf(p)
  BY DEF RoleExists, GrantOf
<1>2. \A u \in Uids : IsAdmin(u) => IsAdmin(u)'
  <2> SUFFICES ASSUME NEW u \in Uids, IsAdmin(u) PROVE IsAdmin(u)'
    OBVIOUS
  <2>1. RowsOf(u)' = RowsOf(u)
    BY DEF RowsOf
  <2>2. IsUser(u)' /\ u \in active'
    BY DEF IsAdmin
  <2>3. QED
    BY <2>1, <2>2, AdminStaysAsRolesDo
<1>3. \A form : KeepsAdmin(form) => KeepsAdmin(form)'
  BY <1>1 DEF KeepsAdmin, IsGlobalRole
<1>4. \A x : ActorStays(x) => ActorStays(x)'
  <2> SUFFICES ASSUME NEW x, ActorStays(x), Works(x) PROVE ActorStays(x)'
    BY DEF ActorStays, Works
  <2>1. \E u \in Uids : IsNamed(x.by, u)' /\ IsAdmin(u)'
    BY <1>2 DEF ActorStays
  <2>2. QED
    BY <1>3, <2>1 DEF ActorStays, Works
<1>5. QED
  BY <1>2, <1>4 DEF AnAdminRemains

\* A step that only reads
LEMMA AdminReads ==
  ASSUME Types, AnAdminRemains, \A q \in Requests : ActorStays(req[q]),
         NEW r \in Requests, NEW x, req' = [req EXCEPT ![r] = x], ActorStays(x), UNCHANGED tables
  PROVE  AdminInv'
<1>1. \A q \in Requests : req'[q] = IF q = r THEN x ELSE req[q]
  BY DEF Types
<1>2. \A q \in Requests : ActorStays(req'[q])
  BY <1>1
<1>3. \A q \in Requests : ActorStays(req[q])'
  BY <1>2, NothingWritten
<1>4. AnAdminRemains'
  BY NothingWritten
<1>5. QED
  BY <1>3, <1>4 DEF AdminInv

\* A step of the only request at work that leaves an administrator
LEMMA AdminWrites ==
  ASSUME Types, OneAtWork, NEW r \in Requests, Works(req[r]), NEW x,
         req' = [req EXCEPT ![r] = x], ActorStays(x)', NEW u \in Uids, IsAdmin(u)'
  PROVE  AdminInv'
<1>1. \A q \in Requests : req'[q] = IF q = r THEN x ELSE req[q]
  BY DEF Types
<1>2. \A q \in Requests \ {r} : ~Works(req'[q])
  BY <1>1 DEF OneAtWork
<1>3. \A q \in Requests : ActorStays(req[q])'
  BY <1>1, <1>2 DEF ActorStays, Works
<1>4. QED
  BY <1>3 DEF AdminInv, AnAdminRemains
\* Who a request is made by, and that no other row of table users has his name
Actor(r, u) ==
  /\ u \in Uids /\ IsNamed(req[r].by, u) /\ IsAdmin(u)
  /\ \A v \in Uids : IsNamed(req[r].by, v) => v = u

LEMMA ActorKnown ==
  ASSUME Types, NamesAreUnique, NEW r \in Requests, Works(req[r]), ActorStays(req[r])
  PROVE  \E u \in Uids : Actor(r, u)
<1>1. PICK u \in Uids : IsNamed(req[r].by, u) /\ IsAdmin(u)
  BY DEF ActorStays
<1>2. IsUser(u)
  BY <1>1 DEF IsAdmin
<1>3. Actor(r, u)
  BY <1>1, <1>2 DEF Actor, NamesAreUnique
<1>4. QED
  BY <1>3

\* A request that goes on after it has only read
GoesOn(r) == \E x : req' = [req EXCEPT ![r] = x] /\ ActorStays(x)

LEMMA FinishGoesOn == ASSUME NEW r \in Requests, Finish(r) PROVE GoesOn(r)
<1>1. PICK x : x = Idle
  OBVIOUS
<1>2. ActorStays(x)
  BY <1>1 DEF Idle, ActorStays, Works
<1>3. QED
  BY <1>1, <1>2 DEF Finish, GoesOn

LEMMA GotoGoesOn ==
  ASSUME Types, NEW r \in Requests, Works(req[r]), ActorStays(req[r]),
         NEW place \in {"check", "mint", "update", "assign", "dropRole"}, Goto(r, place),
         place \in {"update", "assign"} /\ req[r].name = req[r].by => KeepsAdmin(req[r].form)
  PROVE  GoesOn(r)
<1>1. PICK x : x = [req[r] EXCEPT !.at = place]
  OBVIOUS
<1>2. x.at = place /\ x.name = req[r].name /\ x.by = req[r].by /\ x.form = req[r].form
  BY <1>1 DEF Types, RequestRecord
<1>3. ActorStays(x)
  BY <1>2 DEF ActorStays
<1>4. QED
  BY <1>1, <1>3 DEF Goto, GoesOn

LEMMA LookUpGoesOn ==
  ASSUME Types, NEW r \in Requests, LookUp(r), ActorStays(req[r]) PROVE GoesOn(r)
<1>1. CASE Finish(r)
  BY <1>1, FinishGoesOn
<1>2. ASSUME NEW ro \in RoleNames, ~IsKnown(req[r].name),
             req' = [req EXCEPT ![r].at = "insertUser", ![r].role = ro]
      PROVE  GoesOn(r)
  <2>1. PICK x : x = [req[r] EXCEPT !.at = "insertUser", !.role = ro]
    OBVIOUS
  <2>2. x.at = "insertUser" /\ x.name = req[r].name /\ x.by = req[r].by
    BY <2>1 DEF Types, RequestRecord
  <2>3. Works(req[r])
    BY DEF Works, LookUp
  <2>4. ActorStays(x)
    BY <1>2, <2>2, <2>3 DEF ActorStays, IsKnown, IsAdmin
  <2>5. QED
    BY <1>2, <2>1, <2>4 DEF GoesOn
<1>3. QED
  BY <1>1, <1>2 DEF LookUp

LEMMA FindGoesOn ==
  ASSUME Types, NEW r \in Requests, Finds(r), ActorStays(req[r])
  PROVE  GoesOn(r)
<1>1. Works(req[r])
  BY DEF Works, Finds, Find
<1>2. CASE Finish(r)
  BY <1>2, FinishGoesOn
<1>3. CASE Goto(r, "check") \/ Goto(r, "mint")
  BY <1>1, <1>3, GotoGoesOn
<1>4. CASE Find(r, "findService", "assign") /\ Goto(r, "assign")
  <2>1. req[r].name # req[r].by
    BY <1>1, <1>4 DEF Find, ActorStays
  <2>2. QED
    BY <1>1, <1>4, <2>1, GotoGoesOn
<1>5. QED
  BY <1>2, <1>3, <1>4, Zenon DEF Finds, Find

LEMMA EditGoesOn ==
  ASSUME Types, NEW r \in Requests, CheckEdit(r) \/ Update(r), ActorStays(req[r])
  PROVE  GoesOn(r)
<1>1. Works(req[r])
  BY DEF Works, CheckEdit, Update
<1>2. CASE Finish(r)
  BY <1>2, FinishGoesOn
<1>3. CASE CheckEdit(r) /\ Goto(r, "update") /\ ~Finish(r)
  <2>1. req[r].name = req[r].by => KeepsAdmin(req[r].form)
    BY <1>3, Zenon DEF CheckEdit, ProtectsItself, KeepsAdmin
  <2>2. QED
    BY <1>1, <1>3, <2>1, GotoGoesOn
<1>4. CASE Update(r) /\ Goto(r, "assign")
  <2>1. req[r].name = req[r].by => KeepsAdmin(req[r].form)
    BY <1>1, <1>4 DEF ActorStays, Update
  <2>2. QED
    BY <1>1, <1>4, <2>1, GotoGoesOn
<1>5. ASSUME NEW u \in Uids, Update(r),
             req' = [req EXCEPT ![r].at = "setActive", ![r].uid = u]
      PROVE  GoesOn(r)
  <2>1. PICK x : x = [req[r] EXCEPT !.at = "setActive", !.uid = u]
    OBVIOUS
  <2>2. /\ x.at = "setActive" /\ x.name = req[r].name /\ x.by = req[r].by
        /\ x.form = req[r].form
    BY <2>1 DEF Types, RequestRecord
  <2>3. req[r].at = "update"
    BY <1>5 DEF Update
  <2>4. ActorStays(x)
    BY <1>1, <2>2, <2>3 DEF ActorStays
  <2>5. QED
    BY <1>5, <2>1, <2>4 DEF GoesOn
<1>6. QED
  BY <1>2, <1>3, <1>4, <1>5, Zenon DEF CheckEdit, Update

LEMMA AssignGoesOn ==
  ASSUME Types, NEW r \in Requests, Assign(r), ActorStays(req[r]) PROVE GoesOn(r)
<1>1. CASE Finish(r)
  BY <1>1, FinishGoesOn
<1>2. ASSUME NEW u \in Uids,
             req' = [req EXCEPT ![r].at = "replace", ![r].uid = u, ![r].old = IdsOf(u)]
      PROVE  GoesOn(r)
  <2>1. PICK x : x = [req[r] EXCEPT !.at = "replace", !.uid = u, !.old = IdsOf(u)]
    OBVIOUS
  <2>2. /\ x.at = "replace" /\ x.name = req[r].name /\ x.by = req[r].by
        /\ x.form = req[r].form
    BY <2>1 DEF Types, RequestRecord
  <2>3. req[r].at = "assign"
    BY DEF Assign
  <2>4. ActorStays(x)
    BY <2>2, <2>3 DEF ActorStays, Works
  <2>5. QED
    BY <1>2, <2>1, <2>4 DEF GoesOn
<1>3. QED
  BY <1>1, <1>2 DEF Assign

LEMMA ListGoesOn ==
  ASSUME Types, NEW r \in Requests, List(r), ActorStays(req[r]) PROVE GoesOn(r)
<1>1. PICK seen : req' = [req EXCEPT ![r].at = "pick", ![r].admins = seen]
  BY DEF List
<1>2. PICK x : x = [req[r] EXCEPT !.at = "pick", !.admins = seen]
  OBVIOUS
<1>3. x.at = "pick" /\ x.by = req[r].by /\ x.service = req[r].service
  BY <1>2 DEF Types, RequestRecord
<1>4. req[r].at = "list"
  BY DEF List
<1>5. ActorStays(x)
  BY <1>3, <1>4 DEF ActorStays, Works
<1>6. QED
  BY <1>1, <1>2, <1>5 DEF GoesOn

LEMMA PickGoesOn ==
  ASSUME Types, NEW r \in Requests, Pick(r), ActorStays(req[r]) PROVE GoesOn(r)
<1>1. CASE Finish(r)
  BY <1>1, FinishGoesOn
<1>2. ASSUME NEW n \in req[r].todo, NEW u \in Uids, ~Refused(r, n),
             req' = [req EXCEPT ![r].at = "remove", ![r].name = n, ![r].uid = u,
                                ![r].old = IdsOf(u), ![r].keys = KeysOf(u)]
      PROVE  GoesOn(r)
  <2>1. PICK x : x = [req[r] EXCEPT !.at = "remove", !.name = n, !.uid = u,
                                    !.old = IdsOf(u), !.keys = KeysOf(u)]
    OBVIOUS
  <2>2. req[r] \in RequestRecord
    BY DEF Types
  <2>3. /\ x.at = "remove" /\ x.name = n /\ x.by = req[r].by
        /\ x.service = req[r].service /\ x.todo = req[r].todo
    BY <2>1, <2>2 DEF RequestRecord
  <2>4. req[r].at = "pick"
    BY DEF Pick
  <2>5. n # req[r].by
    BY <1>2, <2>4 DEF ActorStays, Works, Refused
  <2>6. ActorStays(x)
    BY <2>3, <2>4, <2>5 DEF ActorStays, Works
  <2>7. QED
    BY <1>2, <2>1, <2>6 DEF GoesOn
<1>3. QED
  BY <1>1, <1>2 DEF Pick

LEMMA MintGoesOn ==
  ASSUME Types, NEW r \in Requests, Mint(r), ActorStays(req[r]) PROVE GoesOn(r)
<1>1. CASE Finish(r)
  BY <1>1, FinishGoesOn
<1>2. ASSUME NEW u \in Uids, req' = [req EXCEPT ![r].at = "insertKey", ![r].uid = u]
      PROVE  GoesOn(r)
  <2>1. PICK x : x = [req[r] EXCEPT !.at = "insertKey", !.uid = u]
    OBVIOUS
  <2>2. x.at = "insertKey" /\ x.by = req[r].by
    BY <2>1 DEF Types, RequestRecord
  <2>3. req[r].at = "mint"
    BY DEF Mint
  <2>4. ActorStays(x)
    BY <2>2, <2>3 DEF ActorStays, Works
  <2>5. QED
    BY <1>2, <2>1, <2>4 DEF GoesOn
<1>3. QED
  BY <1>1, <1>2 DEF Mint

LEMMA CountGoesOn ==
  ASSUME Types, NEW r \in Requests, CountRole(r), ActorStays(req[r]) PROVE GoesOn(r)
<1>1. Works(req[r])
  BY DEF Works, CountRole
<1>2. Finish(r) \/ Goto(r, "dropRole")
  BY Zenon DEF CountRole
<1>3. QED
  BY <1>1, <1>2, FinishGoesOn, GotoGoesOn
LEMMA AdminFinishes ==
  ASSUME Types, OneAtWork, NEW r \in Requests, Works(req[r]), Finish(r),
         NEW u \in Uids, IsAdmin(u)'
  PROVE  AdminInv'
<1>1. PICK x : x = Idle
  OBVIOUS
<1>2. ActorStays(x)'
  BY <1>1 DEF Idle, ActorStays, Works
<1>3. req' = [req EXCEPT ![r] = x]
  BY <1>1 DEF Finish
<1>4. QED
  BY <1>2, <1>3, AdminWrites

\* The rows of one user are as they were when those of another are inserted.
LEMMA OthersKeepTheirRows ==
  ASSUME Types, NEW u \in Uids, NEW v \in Uids, u # v, NEW form \in Lists,
         NEW kept \in SUBSET rows, Inserted(v, form, kept), RowsOf(u) \subseteq kept
  PROVE  RowsOf(u)' = RowsOf(u)
<1>1. PICK ids \in [DOMAIN form -> Ids] : rows' = kept \cup NewRows(v, form, ids)
  BY DEF Inserted
<1>2. \A a \in NewRows(v, form, ids) : a.uid = v
  BY DEF NewRows
<1>3. QED
  BY <1>1, <1>2 DEF RowsOf

LEMMA InsertUserAdmin ==
  ASSUME Types, OneAtWork, NEW r \in Requests, InsertUser(r), ActorStays(req[r]),
         NEW u, Actor(r, u)
  PROVE  AdminInv'
<1>1. /\ Works(req[r]) /\ u \in Uids /\ IsAdmin(u) /\ IsNamed(req[r].by, u) /\ IsUser(u)
      /\ u \in active
  BY DEF Works, InsertUser, Actor, IsAdmin
<1>2. req[r].name \in Names /\ req[r].role \in RoleNames
  BY DEF InsertUser, Types, Filled
<1>3. UNCHANGED <<stage, grant>>
  BY DEF InsertUser
<1>4. IsAdmin(u)' /\ users'[u] = users[u]
  <2>1. CASE UNCHANGED <<users, active, rows>>
    <3>1. RowsOf(u)' = RowsOf(u)
      BY <2>1 DEF RowsOf
    <3>2. QED
      BY <1>1, <1>3, <2>1, <3>1, AdminStaysAsRolesDo
  <2> DEFINE first == <<[role |-> req[r].role, scope |-> Global]>>
  <2>2. CASE \E v \in Uids : /\ IsNextUid(v)
                             /\ users' = [users EXCEPT ![v] = req[r].name]
                             /\ active' = active \cup {v}
                             /\ Inserted(v, first, rows)
    <3>1. PICK v \in Uids : /\ IsNextUid(v)
                            /\ users' = [users EXCEPT ![v] = req[r].name]
                            /\ active' = active \cup {v}
                            /\ Inserted(v, first, rows)
      BY <2>2
    <3>2. u # v
      BY <1>1, <3>1, NextUidIsFree
    <3>3. users'[u] = users[u] /\ u \in active'
      BY <1>1, <3>1, <3>2 DEF Types, TypesOfTables
    <3>4. [role |-> req[r].role, scope |-> Global] \in Entries
      BY <1>2
    <3>5. first \in Lists
      BY <3>4, ListTypes
    <3> HIDE DEF first
    <3>6. RowsOf(u) \subseteq rows /\ rows \in SUBSET rows
      BY DEF RowsOf
    <3>7. RowsOf(u)' = RowsOf(u)
      BY <1>1, <3>1, <3>2, <3>5, <3>6, OthersKeepTheirRows
    <3>8. QED
      BY <1>1, <1>3, <3>3, <3>7, AdminStaysAsRolesDo
  <2>3. QED
    BY <2>1, <2>2 DEF InsertUser
<1>5. CASE Finish(r)
  BY <1>1, <1>4, <1>5, AdminFinishes
<1>6. CASE req' = [req EXCEPT ![r].at = "assign", ![r].role = None]
  <2>1. PICK x : x = [req[r] EXCEPT !.at = "assign", !.role = None]
    OBVIOUS
  <2>2. x.at = "assign" /\ x.name = req[r].name /\ x.by = req[r].by
    BY <2>1 DEF Types, RequestRecord
  <2>3. req[r].name # req[r].by
    BY <1>1 DEF ActorStays, InsertUser
  <2>4. IsNamed(x.by, u)'
    BY <1>1, <1>4, <2>2
  <2>5. ActorStays(x)'
    BY <1>1, <1>4, <2>2, <2>3, <2>4 DEF ActorStays
  <2>6. QED
    BY <1>1, <1>4, <1>6, <2>1, <2>5, AdminWrites
<1>7. QED
  BY <1>5, <1>6, Zenon DEF InsertUser

\* Who deactivates another remains active himself.
LEMMA SetActiveAdmin ==
  ASSUME Types, OneAtWork, NEW r \in Requests, SetActive(r), ActorStays(req[r]),
         StillSo(req[r]), ~unguarded', NEW u, Actor(r, u)
  PROVE  AdminInv'
<1>1. /\ Works(req[r]) /\ u \in Uids /\ IsAdmin(u) /\ IsNamed(req[r].by, u) /\ IsUser(u)
      /\ u \in active
  BY DEF Works, SetActive, Actor, IsAdmin
<1>2. /\ req[r].uid \in Uids /\ IsNamed(req[r].name, req[r].uid) /\ req[r].name \in Names
      /\ req[r].flag \in Flags
  BY DEF SetActive, StillSo, Types, Filled, RequestRecord
<1>3. UNCHANGED <<users, stage, grant, rows>>
  BY DEF SetActive
<1>4. IsUser(req[r].uid)
  <2>1. req[r].name # None
    BY <1>2, AccountsAssumption
  <2>2. QED
    BY <1>2, <2>1
<1>5. u \in active'
  <2>1. CASE req[r].flag # "cleared"
    BY <1>1, <1>4, <2>1 DEF SetActive
  <2>2. CASE req[r].flag = "cleared"
    <3>1. active' = active \ {req[r].uid} /\ req[r].name # req[r].by
      BY <1>4, <2>2 DEF SetActive
    <3>2. req[r].uid # u
      BY <1>1, <1>2, <3>1
    <3>3. QED
      BY <1>1, <3>1, <3>2
  <2>3. QED
    BY <2>1, <2>2
<1>6. RowsOf(u)' = RowsOf(u)
  BY <1>3 DEF RowsOf
<1>7. IsAdmin(u)'
  BY <1>1, <1>3, <1>5, <1>6, AdminStaysAsRolesDo
<1>8. CASE Finish(r)
  BY <1>1, <1>7, <1>8, AdminFinishes
<1>9. CASE req' = [req EXCEPT ![r].at = "assign", ![r].uid = None]
  <2>1. PICK x : x = [req[r] EXCEPT !.at = "assign", !.uid = None]
    OBVIOUS
  <2>2. /\ x.at = "assign" /\ x.name = req[r].name /\ x.by = req[r].by
        /\ x.form = req[r].form
    BY <2>1 DEF Types, RequestRecord
  <2>3. req[r].name = req[r].by => KeepsAdmin(req[r].form)
    BY <1>1 DEF ActorStays, SetActive
  <2>4. KeepsAdmin(req[r].form) => KeepsAdmin(x.form)'
    <3>1. \A p : RoleExists(p)' = RoleExists(p) /\ GrantOf(p)' = GrantOf(p)
      BY <1>3 DEF RoleExists, GrantOf
    <3>2. QED
      BY <2>2, <3>1 DEF KeepsAdmin, IsGlobalRole
  <2>5. IsNamed(x.by, u)'
    BY <1>1, <1>3, <2>2
  <2>6. ActorStays(x)'
    BY <1>1, <1>7, <2>2, <2>3, <2>4, <2>5 DEF ActorStays
  <2>7. QED
    BY <1>1, <1>7, <1>9, <2>1, <2>6, AdminWrites
<1>10. QED
  BY <1>8, <1>9, Zenon DEF SetActive

LEMMA RemoveAdmin ==
  ASSUME Types, OneAtWork, IdsAreUnique, NEW r \in Requests, Remove(r), ActorStays(req[r]),
         StillSo(req[r]), NEW u, Actor(r, u)
  PROVE  AdminInv'
<1>1. /\ Works(req[r]) /\ u \in Uids /\ IsAdmin(u) /\ IsNamed(req[r].by, u) /\ IsUser(u)
      /\ u \in active
  BY DEF Works, Remove, Actor, IsAdmin
<1>2. /\ req[r].uid \in Uids /\ IsNamed(req[r].name, req[r].uid)
      /\ req[r].old = IdsOf(req[r].uid)
  BY DEF Remove, StillSo, Types, Filled
<1>3. req[r].name # req[r].by
  BY <1>1 DEF ActorStays, Remove
<1>4. req[r].uid # u
  BY <1>1, <1>2, <1>3
<1>5. UNCHANGED <<stage, grant>>
  BY DEF Remove
<1>6. IsAdmin(u)' /\ users'[u] = users[u]
  <2>1. CASE UNCHANGED <<users, active, rows>>
    <3>1. RowsOf(u)' = RowsOf(u)
      BY <2>1 DEF RowsOf
    <3>2. QED
      BY <1>1, <1>5, <2>1, <3>1, AdminStaysAsRolesDo
  <2>2. CASE /\ users' = [users EXCEPT ![req[r].uid] = None]
             /\ active' = active \ {req[r].uid} /\ rows' = Uncascaded(r)
    <3>1. users'[u] = users[u] /\ u \in active'
      BY <1>1, <1>4, <2>2 DEF Types, TypesOfTables
    <3>2. \A a \in RowsOf(u) : a.id \notin IdsOf(req[r].uid)
      BY <1>4 DEF RowsOf, IdsOf, IdsAreUnique
    <3>3. RowsOf(u)' = RowsOf(u)
      BY <1>2, <2>2, <3>2 DEF RowsOf, Uncascaded
    <3>4. QED
      BY <1>1, <1>5, <3>1, <3>3, AdminStaysAsRolesDo
  <2>3. QED
    BY <2>1, <2>2 DEF Remove
<1> DEFINE rest == req[r].todo \ {req[r].name}
           y == [req[r] EXCEPT !.at = "pick", !.todo = rest, !.name = None, !.uid = None,
                               !.old = {}, !.keys = {}]
<1>7. CASE Finish(r)
  BY <1>1, <1>6, <1>7, AdminFinishes
<1>8. CASE req' = [req EXCEPT ![r] = y]
  <2>1. PICK x : x = y
    OBVIOUS
  <2>2. /\ x.at = "pick" /\ x.by = req[r].by /\ x.service = req[r].service
        /\ x.todo \subseteq req[r].todo
    BY <2>1 DEF Types, RequestRecord
  <2>3. req[r].service => req[r].by \notin req[r].todo
    BY <1>1 DEF ActorStays, Remove
  <2>4. IsNamed(x.by, u)'
    BY <1>1, <1>6, <2>2
  <2>5. ActorStays(x)'
    BY <1>1, <1>6, <2>2, <2>3, <2>4 DEF ActorStays
  <2>6. QED
    BY <1>1, <1>6, <1>8, <2>1, <2>5, AdminWrites
<1>9. req' = [req EXCEPT ![r] = y] \/ Finish(r)
  BY DEF Remove, Finish
<1>10. QED
  BY <1>7, <1>8, <1>9
\* A user who submits a form for himself keeps an administrating global role.
LEMMA OwnFormAdmin ==
  ASSUME Types, NEW u \in Uids, IsUser(u), u \in active, NEW form \in Lists,
         NEW kept \in SUBSET rows,
         Inserted(u, form, kept), \A a \in kept : a.uid # u,
         UNCHANGED <<users, active, stage, grant>>, KeepsAdmin(form), HasGlobal(form),
         ~DuplicateScopes(form), \A i \in DOMAIN form : RoleExists(form[i].role)
  PROVE  IsAdmin(u)'
<1>1. PICK ids \in [DOMAIN form -> Ids] : rows' = kept \cup NewRows(u, form, ids)
  BY DEF Inserted
<1>2. \A i \in DOMAIN form : form[i].scope = Global => GrantOf(form[i].role) # {}
  <2> SUFFICES ASSUME NEW i \in DOMAIN form, form[i].scope = Global
               PROVE  GrantOf(form[i].role) # {}
    OBVIOUS
  <2>1. form[i].role \in RoleNames
    BY ListTypes
  <2>2. \A j \in DOMAIN form : j < i => form[j].scope # Global
    <3> SUFFICES ASSUME NEW j \in DOMAIN form, j < i, form[j].scope = Global PROVE FALSE
      OBVIOUS
    <3>1. i = j
      BY Zenon DEF DuplicateScopes
    <3>2. i \in Nat
      <4> HIDE DEF Entries
      <4>1. DOMAIN form = 1..Len(form)
        BY DEF Lists
      <4>2. QED
        BY <4>1
    <3>3. QED
      BY <3>1, <3>2
  <2>3. IsGlobalRole(form[i].role, form)
    BY <2>2 DEF IsGlobalRole
  <2>4. QED
    BY <2>1, <2>3 DEF KeepsAdmin
<1>3. \A p : GrantOf(p)' = GrantOf(p) /\ RoleExists(p)' = RoleExists(p)
  BY DEF GrantOf, RoleExists
<1>4. \A a \in RowsOf(u)' : \E i \in DOMAIN form : a.role = form[i].role /\ a.scope = form[i].scope
  BY <1>1 DEF RowsOf, NewRows
<1>5. \A a \in GlobalsOf(u)' : GrantOf(a.role)' # {}
  <2>1. \A a \in GlobalsOf(u)' : a \in RowsOf(u)' /\ a.scope = Global
    BY DEF GlobalsOf
  <2>2. QED
    BY <1>2, <1>3, <1>4, <2>1
<1>6. GlobalsOf(u)' # {}
  <2>1. PICK i \in DOMAIN form : form[i].scope = Global
    BY DEF HasGlobal
  <2>2. PICK a : a = [id |-> ids[i], uid |-> u, role |-> form[i].role, scope |-> form[i].scope]
    OBVIOUS
  <2>3. a \in NewRows(u, form, ids)
    BY <2>2 DEF NewRows
  <2>4. a.uid = u /\ a.role = form[i].role /\ a.scope = Global
    BY <2>1, <2>2
  <2>5. a \in GlobalsOf(u)'
    BY <1>1, <1>3, <2>3, <2>4 DEF GlobalsOf, RowsOf
  <2>6. QED
    BY <2>5
<1>7. Administers(u)'
  BY <1>5, <1>6, Zenon DEF Administers
<1>8. QED
  BY <1>7, AdminMeans

LEMMA ReplaceAdmin ==
  ASSUME Types, OneAtWork, IdsAreUnique, NEW r \in Requests, Replace(r), ActorStays(req[r]),
         StillSo(req[r]), ~unguarded', NEW u, Actor(r, u)
  PROVE  AdminInv'
<1>1. /\ Works(req[r]) /\ u \in Uids /\ IsAdmin(u) /\ IsNamed(req[r].by, u) /\ IsUser(u)
      /\ u \in active
  BY DEF Works, Replace, Actor, IsAdmin
<1>2. /\ req[r].uid \in Uids /\ IsNamed(req[r].name, req[r].uid) /\ req[r].form \in Lists
      /\ req[r].old = IdsOf(req[r].uid) /\ ~DuplicateScopes(req[r].form)
  BY DEF Replace, StillSo, Types, Filled, RequestRecord
<1>3. UNCHANGED <<users, active, stage, grant>>
  BY DEF Replace
<1>4. IsAdmin(u)'
  <2>1. CASE UNCHANGED rows
    <3>1. RowsOf(u)' = RowsOf(u)
      BY <2>1 DEF RowsOf
    <3>2. QED
      BY <1>1, <1>3, <3>1, AdminStaysAsRolesDo
  <2>2. CASE ~UNCHANGED rows
    <3> DEFINE kept == {a \in rows : a.id \notin Replaced(r)}
    <3>1. /\ Inserted(req[r].uid, req[r].form, kept)
          /\ \A i \in DOMAIN req[r].form : RoleExists(req[r].form[i].role)
          /\ unguarded' = (unguarded \/ (req[r].name = req[r].by /\ ~HasGlobal(req[r].form)))
      BY <2>2, Zenon DEF Replace
    <3>2. \A a \in rows : a \in kept <=> a.uid # req[r].uid
      BY <1>2 DEF Replaced, IdsOf, RowsOf, IdsAreUnique
    <3>3. kept \in SUBSET rows
      OBVIOUS
    <3> HIDE DEF kept
    <3>4. CASE req[r].uid = u
      <4>1. req[r].name = req[r].by
        BY <1>1, <1>2, <3>4
      <4>2. KeepsAdmin(req[r].form)
        BY <1>1, <4>1 DEF ActorStays, Replace
      <4>3. HasGlobal(req[r].form)
        BY <3>1, <4>1, Zenon
      <4>4. \A a \in kept : a.uid # u
        BY <3>2, <3>3, <3>4
      <4>5. QED
        BY <1>1, <1>2, <1>3, <3>1, <3>3, <3>4, <4>2, <4>3, <4>4, OwnFormAdmin
    <3>5. CASE req[r].uid # u
      <4>1. RowsOf(u) \subseteq kept
        BY <3>2, <3>5 DEF RowsOf
      <4>2. RowsOf(u)' = RowsOf(u)
        BY <1>1, <1>2, <3>1, <3>3, <3>5, <4>1, OthersKeepTheirRows
      <4>3. QED
        BY <1>1, <1>3, <4>2, AdminStaysAsRolesDo
    <3>6. QED
      BY <3>4, <3>5
  <2>3. QED
    BY <2>1, <2>2
<1>5. Finish(r)
  BY DEF Replace
<1>6. QED
  BY <1>1, <1>4, <1>5, AdminFinishes

LEMMA KeyAdmin ==
  ASSUME Types, OneAtWork, NEW r \in Requests, InsertKey(r) \/ Revoke(r), NEW u, Actor(r, u)
  PROVE  AdminInv'
<1>1. Works(req[r]) /\ u \in Uids /\ IsAdmin(u) /\ IsUser(u) /\ u \in active
  BY DEF Works, InsertKey, Revoke, Actor, IsAdmin
<1>2. UNCHANGED <<users, active, stage, grant, rows>> /\ Finish(r)
  BY DEF InsertKey, Revoke
<1>3. RowsOf(u)' = RowsOf(u)
  BY <1>2 DEF RowsOf
<1>4. IsAdmin(u)'
  BY <1>1, <1>2, <1>3, AdminStaysAsRolesDo
<1>5. QED
  BY <1>1, <1>2, <1>4, AdminFinishes

LEMMA RoleAdmin ==
  ASSUME Types, OneAtWork, OwnersExist, NEW r \in Requests,
         CreateRole(r) \/ EditRole(r) \/ DropRole(r), StillSo(req[r]), ~unguarded',
         NEW u, Actor(r, u)
  PROVE  AdminInv'
<1>1. Works(req[r]) /\ u \in Uids /\ IsAdmin(u) /\ IsUser(u) /\ u \in active
  BY DEF Works, CreateRole, EditRole, DropRole, Actor, IsAdmin
<1>2. UNCHANGED <<users, active, rows>> /\ Finish(r)
  BY DEF CreateRole, EditRole, DropRole
<1>3. req[r].role \in Customs
  BY DEF CreateRole, EditRole, DropRole, Types, Filled
<1>4. \A a \in rows : a.role \in RoleNames /\ RoleExists(a.role)
  BY DEF OwnersExist, Types, TypesOfTables
<1>5. \A a \in rows : /\ RoleExists(a.role) <=> RoleExists(a.role)'
                      /\ GrantOf(a.role) # {} => GrantOf(a.role)' # {}
  <2> SUFFICES ASSUME NEW a \in rows
               PROVE  /\ RoleExists(a.role)'
                      /\ GrantOf(a.role) # {} => GrantOf(a.role)' # {}
    BY <1>4
  <2>1. a.role \in RoleNames /\ RoleExists(a.role)
    BY <1>4
  <2>2. CASE CreateRole(r)
    <3>1. CASE UNCHANGED <<stage, grant>>
      BY <2>1, <3>1 DEF RoleExists, GrantOf
    <3>2. CASE /\ stage[req[r].role] = "unused"
               /\ stage' = [stage EXCEPT ![req[r].role] = "live"]
               /\ grant' = [grant EXCEPT ![req[r].role] = req[r].grant]
      <4>1. \A c \in Customs : c # req[r].role => stage'[c] = stage[c] /\ grant'[c] = grant[c]
        BY <3>2 DEF Types, TypesOfTables
      <4>2. a.role \in Customs => a.role \notin BuiltinRoles
        BY AccountsAssumption
      <4>3. a.role \in Customs => a.role # req[r].role
        BY <2>1, <3>2, <4>2 DEF RoleExists
      <4>4. QED
        BY <2>1, <4>1, <4>3 DEF RoleExists, GrantOf
    <3>3. QED
      BY <2>2, <3>1, <3>2, Zenon DEF CreateRole
  <2>3. CASE EditRole(r)
    <3>1. UNCHANGED stage
      BY <2>3 DEF EditRole
    <3>2. UNCHANGED grant \/ (grant' = [grant EXCEPT ![req[r].role] = req[r].grant]
                                /\ req[r].grant # {})
      BY <2>3, Zenon DEF EditRole
    <3>3. RoleExists(a.role)'
      BY <2>1, <3>1 DEF RoleExists
    <3>4. QED
      BY <1>3, <3>2, <3>3 DEF GrantOf, Types, TypesOfTables
  <2>4. CASE DropRole(r)
    <3>1. a.role # req[r].role
      BY <2>4 DEF DropRole, StillSo, Unassigned
    <3>2. UNCHANGED grant
      BY <2>4 DEF DropRole
    <3>3. RoleExists(a.role)'
      BY <1>3, <2>1, <2>4, <3>1 DEF DropRole, RoleExists, Types, TypesOfTables
    <3>4. QED
      BY <3>2, <3>3 DEF GrantOf
  <2>5. QED
    BY <2>2, <2>3, <2>4
<1>6. RowsOf(u)' = RowsOf(u)
  BY <1>2 DEF RowsOf
<1>7. \A a \in RowsOf(u) : a \in rows
  BY DEF RowsOf
<1>8. IsAdmin(u)'
  BY <1>1, <1>2, <1>5, <1>6, <1>7, AdminStays
<1>9. QED
  BY <1>1, <1>2, <1>8, AdminFinishes
\* Who is let in administers, as he has one global role.
LEMMA AdmittedAdministers ==
  ASSUME Types, OneGlobalEach, NEW by \in Names, NEW u \in Uids,
         NEW permission, Admitted(by, u, permission)
  PROVE  IsAdmin(u)
<1>1. IsUser(u) /\ u \in active
  BY AccountsAssumption DEF Admitted
<1>2. PICK g \in GrantsRead(u) : permission \in g
  BY DEF Admitted
<1>3. GrantsRead(u) = IF GlobalsOf(u) = {} THEN {GrantOf(DefaultRole)}
                      ELSE {GrantOf(a.role) : a \in GlobalsOf(u)}
  BY Zenon DEF GrantsRead, GlobalsOf
<1>4. \A a, b \in GlobalsOf(u) : a = b
  BY DEF GlobalsOf, RowsOf, OneGlobalEach
<1>5. \A h \in GrantsRead(u) : h = g
  BY <1>2, <1>3, <1>4
<1>6. {} \notin GrantsRead(u)
  BY <1>2, <1>5
<1>7. QED
  BY <1>1, <1>6 DEF IsAdmin

LEMMA AskAdmin ==
  ASSUME Types, NamesAreUnique, OneGlobalEach, AnAdminRemains,
         \A q \in Requests : ActorStays(req[q]),
         NEW r \in Requests, Ask(r), ~unguarded'
  PROVE  AdminInv'
<1>1. PICK by \in Names, permission \in Permissions, x \in RequestRecord :
         Asked(x, by) /\ Start(r, by, permission, x)
  BY AskedFor
<1>2. PICK u \in Uids : Admitted(by, u, permission) /\ u \notin services
  BY <1>1 DEF Start
<1>3. IsAdmin(u) /\ IsNamed(by, u)
  BY <1>2, AdmittedAdministers DEF Admitted
<1>4. \A v \in services : users[v] # by
  BY <1>2, <1>3 DEF IsAdmin, NamesAreUnique, Types, TypesOfTables
<1>5. x.by = by
  BY <1>1 DEF Asked
<1>6. x.at = "findService" => x.name # by
  BY <1>1, <1>4 DEF Asked
<1>7. x.at = "pick" => by \notin x.todo
  BY <1>1, <1>4 DEF Asked
<1>8. /\ x.at \notin {"insertUser", "remove", "update", "setActive", "assign", "replace"}
      /\ x.at = "list" => ~x.service
  BY <1>1 DEF Asked
<1>9. ActorStays(x)
  BY <1>3, <1>5, <1>6, <1>7, <1>8 DEF ActorStays
<1>10. req' = [req EXCEPT ![r] = x] /\ UNCHANGED tables
  BY <1>1 DEF Start, Begin
<1>11. QED
  BY <1>9, <1>10, AdminReads

LEMMA HandleAdmin ==
  ASSUME Types, IdsAreUnique, NamesAreUnique, OneAtWork, OwnersExist, AnAdminRemains,
         \A q \in Requests : ActorStays(req[q]) /\ StillSo(req[q]),
         NEW r \in Requests, Handle(r), ~unguarded'
  PROVE  AdminInv'
<1>1. ActorStays(req[r]) /\ StillSo(req[r])
  OBVIOUS
<1>2. CASE Use(r)
  <2>1. UNCHANGED tables /\ Finish(r)
    BY <1>2 DEF Use, StateAfterUse
  <2>2. GoesOn(r)
    BY <2>1, FinishGoesOn
  <2>3. QED
    BY <2>1, <2>2, AdminReads DEF GoesOn
<1>3. CASE Finds(r) \/ LookUp(r) \/ CheckEdit(r) \/ Update(r) \/ Assign(r) \/ List(r) \/ Pick(r)
            \/ Mint(r) \/ CountRole(r)
  <2>1. UNCHANGED tables
    BY <1>3 DEF Finds, Find, LookUp, CheckEdit, Update, Assign, List, Pick, Mint, CountRole
  <2>2. GoesOn(r)
    BY <1>1, <1>3, FindGoesOn, LookUpGoesOn, EditGoesOn, AssignGoesOn, ListGoesOn, PickGoesOn,
       MintGoesOn, CountGoesOn
  <2>3. QED
    BY <2>1, <2>2, AdminReads DEF GoesOn
<1>4. CASE InsertUser(r) \/ SetActive(r) \/ Replace(r) \/ Remove(r) \/ InsertKey(r) \/ Revoke(r)
            \/ CreateRole(r) \/ EditRole(r) \/ DropRole(r)
  <2>1. Works(req[r])
    BY <1>4 DEF Works, InsertUser, SetActive, Replace, Remove, InsertKey, Revoke, CreateRole, EditRole,
       DropRole
  <2>2. PICK u \in Uids : Actor(r, u)
    BY <1>1, <2>1, ActorKnown
  <2>3. QED
    BY <1>1, <1>4, <2>2, InsertUserAdmin, SetActiveAdmin, ReplaceAdmin, RemoveAdmin, KeyAdmin,
       RoleAdmin
<1>5. ~CliInsert(r)
  BY <1>1 DEF CliInsert, StillSo
<1>6. QED
  BY <1>2, <1>3, <1>4, <1>5 DEF Handle, Finds

LEMMA UnguardedBefore == Types /\ [Next]_vars /\ unguarded => unguarded'
<1> SUFFICES ASSUME Types, [Next]_vars, unguarded PROVE unguarded'
  OBVIOUS
<1>1. ASSUME NEW r \in Requests, Ask(r) PROVE unguarded'
  <2>1. \E u \in Uids : unguarded' = (unguarded \/ u \in services)
    BY <1>1, AskedFor DEF Start
  <2>2. QED
    BY <2>1, Zenon
<1>2. ASSUME NEW r \in Requests, CliAssign(r) \/ Present(r) \/ Abort(r) PROVE unguarded'
  BY <1>2 DEF CliAssign, Present, Abort
<1>3. ASSUME NEW r \in Requests, SetActive(r) \/ Replace(r) \/ EditRole(r)
      PROVE  unguarded'
  <2>1. UNCHANGED unguarded \/ \E p : unguarded' = (unguarded \/ p)
    BY <1>3, Zenon DEF SetActive, Replace, EditRole
  <2>2. QED
    BY <2>1, Zenon
<1>4. ASSUME NEW r \in Requests, Handle(r), ~SetActive(r), ~Replace(r), ~EditRole(r)
      PROVE  unguarded'
  BY <1>4 DEF Handle, Find, LookUp, InsertUser, CheckEdit, Update, Assign, List, Pick, Remove,
     CliInsert, Mint, InsertKey, Revoke, Use, CreateRole, CountRole, DropRole
<1>5. QED
  BY <1>1, <1>2, <1>3, <1>4 DEF Next, vars

LEMMA AdminStep ==
  Types /\ IdsAreUnique /\ NamesAreUnique /\ TurnInv /\ AdminInv /\ [Next]_vars => AdminInv'
<1> SUFFICES ASSUME Types, IdsAreUnique, NamesAreUnique, TurnInv, AdminInv, [Next]_vars,
                    orderly', ~unguarded'
             PROVE  AdminInv'
  BY DEF AdminInv
<1>1. orderly /\ ~unguarded
  BY OrderlyBefore, UnguardedBefore
<1>2. /\ OneAtWork /\ OwnersExist /\ OneGlobalEach /\ AnAdminRemains
      /\ \A q \in Requests : ActorStays(req[q]) /\ StillSo(req[q])
  BY <1>1 DEF TurnInv, AdminInv
<1>3. CASE UNCHANGED vars
  <2>1. UNCHANGED tables /\ UNCHANGED req
    BY <1>3 DEF vars
  <2>2. \A q \in Requests : ActorStays(req[q])'
    BY <1>2, <2>1, NothingWritten DEF ActorStays
  <2>3. QED
    BY <1>2, <2>1, <2>2, NothingWritten DEF AdminInv
<1>4. ASSUME NEW r \in Requests, Handle(r) PROVE AdminInv'
  BY <1>2, <1>4, HandleAdmin
<1>5. ASSUME NEW r \in Requests, Ask(r) PROVE AdminInv'
  BY <1>2, <1>5, AskAdmin
<1>6. ASSUME NEW r \in Requests, CliAssign(r) PROVE AdminInv'
  BY <1>6 DEF CliAssign
<1>7. ASSUME NEW r \in Requests, Present(r) \/ Abort(r) PROVE AdminInv'
  <2>1. PICK x : ~Works(x) /\ req' = [req EXCEPT ![r] = x]
    <3>1. CASE Present(r)
      <4>1. PICK k \in Keys : req' = [req EXCEPT ![r] = [Idle EXCEPT !.at = "use", !.key = k]]
        BY <3>1 DEF Present, Begin
      <4>2. ~Works([Idle EXCEPT !.at = "use", !.key = k])
        BY DEF Works, Idle
      <4>3. QED
        BY <4>1, <4>2
    <3>2. CASE Abort(r)
      BY <3>2 DEF Abort, Finish, Works, Idle
    <3>3. QED
      BY <1>7, <3>1, <3>2
  <2>2. ActorStays(x)
    BY <2>1 DEF ActorStays
  <2>3. QED
    BY <1>2, <1>7, <2>1, <2>2, OthersWriteNothing, AdminReads
<1>8. QED
  BY <1>3, <1>4, <1>5, <1>6, <1>7 DEF Next

LEMMA AdminInit == Init => AdminInv
<1> SUFFICES ASSUME Init PROVE AdminInv
  OBVIOUS
<1>1. PICK root \in Uids, i \in Ids :
         /\ users = [u \in Uids |-> IF u = root THEN Root ELSE None]
         /\ active = {root}
         /\ rows = {[id |-> i, uid |-> root, role |-> "admin", scope |-> Global]}
         /\ req = [r \in Requests |-> Idle]
  BY DEF Init
<1>2. \A r \in Requests : ActorStays(req[r])
  BY <1>1 DEF ActorStays, Works, Idle
<1>3. IsUser(root) /\ root \in active
  BY <1>1, AccountsAssumption
<1>4. GlobalsOf(root) = rows
  BY <1>1 DEF GlobalsOf, RowsOf, RoleExists
<1>5. Administers(root)
  <2>1. \A a \in rows : a.role = "admin"
    BY <1>1
  <2>2. rows # {}
    BY <1>1
  <2>3. GrantOf("admin") # {}
    BY DEF GrantOf
  <2>4. QED
    BY <1>4, <2>1, <2>2, <2>3 DEF Administers
<1>6. IsAdmin(root)
  BY <1>3, <1>5, AdminMeans
<1>7. QED
  BY <1>2, <1>6 DEF AdminInv, AnAdminRemains

(***************************************************************************)
(* UserView.edit and UserView.delete keep an administrator as long as      *)
(* requests come one at a time and the portal is not led past what it does *)
(* not protect: an emptied custom role, a form for oneself without a       *)
(* global role or with is_active cleared, a service account that           *)
(* administers.                                                            *)
(***************************************************************************)
THEOREM AdminsRemain == Spec => []AdminsRemainInTurn
<1>1. AdminInv => AdminsRemainInTurn
  BY DEF AdminInv, AdminsRemainInTurn
<1>2. QED
  BY <1>1, AdminInit, AdminStep, TypesHold, KeysAreUnique, TurnInvariant, PTL DEF Spec
=============================================================================
