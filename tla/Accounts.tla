------------------------------ MODULE Accounts ------------------------------
(***************************************************************************)
(* Accounts of the webserver: the tables users, roles,                     *)
(* user_role_assignments and api_keys, the operations of                   *)
(* dagster_webserver/auth/db_backend.py on them, and the requests of the   *)
(* admin portal (dagster_webserver/admin/views.py) that call these.        *)
(*                                                                         *)
(* A step is one transaction or one read whose result is used after an     *)
(* await; requests interleave between steps.  Nothing that was read is     *)
(* locked or compared again.  Unique columns hold in both databases;       *)
(* foreign keys are enforced by PostgreSQL, and by SQLite only if told to, *)
(* which database/engine.py does not.  Of the columns the model keeps      *)
(* those that decide who may do what.                                      *)
(***************************************************************************)
EXTENDS Naturals, Sequences

CONSTANTS
  Requests,     \* slots for requests being handled at the same time
  Names,        \* usernames
  Uids,         \* bound: user ids in use at the same time
  Customs,      \* names of custom roles, each created once
  Locations,    \* code locations a role can be scoped to
  Ids,          \* bound: ids of assignment rows in use at the same time
  Keys,         \* bound: API keys ever created
  Grants,       \* the portal permissions a custom role may be given
  Forms,        \* the lists of role assignments a form may submit
  Databases,    \* for each that may be used, whether it enforces foreign keys
  MaxAsks,      \* bound: requests ever made
  Root,         \* the user made by "db init-admin"
  DefaultRole,  \* the configured role of users without a global assignment
  Global,       \* NULL in the column code_location_name
  None

BuiltinRoles == {"admin", "viewer"}
RoleNames    == BuiltinRoles \cup Customs
Scopes       == Locations \cup {Global}
Permissions  == {"edit_users", "edit_roles", "view"}
Entries      == [role : RoleNames, scope : Scopes]
Lists        == Seq(Entries)

ASSUME AccountsAssumption ==
  /\ Uids \subseteq Nat /\ Uids # {}
  /\ Ids \subseteq Nat /\ Ids # {}
  /\ MaxAsks \in Nat
  /\ Root \in Names
  /\ None \notin Names \cup Uids \cup Customs \cup Keys
  /\ Customs \cap BuiltinRoles = {}
  /\ DefaultRole \in BuiltinRoles
  /\ Global \notin Locations
  /\ Grants \subseteq SUBSET Permissions
  /\ Forms \subseteq Lists
  /\ Databases \subseteq BOOLEAN

VARIABLES
  enforced,  \* whether the database enforces foreign keys
  users,     \* the username of each id, None where there is no row
  services,  \* ids whose is_service_account is set
  active,    \* ids whose is_active is set
  stage,     \* whether a custom role was not created yet, exists, or is gone
  grant,     \* its portal permissions
  rows,      \* table user_role_assignments
  owner,     \* column user_id of an API key
  keyState,  \* whether it was not created yet, is active, revoked, or gone
  req,       \* what each request being handled has read and has still to do
  asks,      \* history: requests made so far
  orderly,   \* history: requests came one at a time, none from the CLI
  unguarded  \* history: the portal let pass what it does not protect itself
             \*   against: a custom role was emptied, an actor submitted a form
             \*   for himself without a global role or without is_active, a
             \*   service account acted

tables  == <<users, services, active, stage, grant, rows, owner, keyState>>
history == <<asks, orderly, unguarded>>
vars    == <<enforced, tables, req, history>>

Assignment == [id : Ids, uid : Uids, role : RoleNames, scope : Scopes]

-----------------------------------------------------------------------------
(* Who may do what.                                                        *)

IsUser(u)      == users[u] # None
IsNamed(n, u)  == users[u] = n
IsKnown(n)     == \E u \in active : IsNamed(n, u)   \* get_user
RowsOf(u)      == {a \in rows : a.uid = u}
IdsOf(u)       == {a.id : a \in RowsOf(u)}
KeysOf(u)      == {k \in Keys : owner[k] = u /\ keyState[k] \in {"active", "revoked"}}
RoleExists(ro) == ro \in BuiltinRoles \/ (ro \in Customs /\ stage[ro] = "live")

\* _admin_permissions_for_role and get_custom_permissions; a custom role whose
\* map is empty reads as viewer
GrantOf(ro) ==
  IF ro = "admin" THEN {"edit_users", "edit_roles"}
  ELSE IF ro \in Customs THEN grant[ro]
  ELSE {}

\* _to_auth_user with _get_global_role_from_assignments: the first global
\* assignment in no particular order, or the default role
GrantsRead(u) ==
  LET globals == {a \in RowsOf(u) : a.scope = Global /\ RoleExists(a.role)}
  IN IF globals = {} THEN {GrantOf(DefaultRole)}
     ELSE {GrantOf(a.role) : a \in globals}

\* has_any_admin_permission, whichever assignment is read
IsAdmin(u) == IsUser(u) /\ u \in active /\ {} \notin GrantsRead(u)

MayReadAsAdmin(n)  == \E u \in active : IsNamed(n, u) /\ GrantsRead(u) # {{}}
MayReadAsNobody(n) == \A u \in active : IsNamed(n, u) => {} \in GrantsRead(u)

HasGlobal(form) == \E i \in DOMAIN form : form[i].scope = Global

\* The role of the first global assignment of a form
IsGlobalRole(ro, form) ==
  \E i \in DOMAIN form :
    /\ form[i].scope = Global /\ form[i].role = ro
    /\ \A j \in DOMAIN form : j < i => form[j].scope # Global

\* Slip: the check is left out
NoScopeIsDuplicate(form) == FALSE

\* set_user_role_assignments refuses a form with two roles in one scope
DuplicateScopes(form) ==
  \E i, j \in DOMAIN form : i # j /\ form[i].scope = form[j].scope

-----------------------------------------------------------------------------
(* Requests.  The fields hold what the handler read or was sent:           *)
(* by the session's user, name and uid the account it is about, todo the   *)
(* usernames still to delete, old and keys the ids of the rows it has      *)
(* read, admins the listed users that read as administrators, flag what    *)
(* becomes of is_active.                                                   *)

\* What a form says of is_active
Flags == {"kept", "set", "cleared"}

Idle ==
  [at |-> "idle", by |-> None, service |-> FALSE, name |-> None, uid |-> None,
   form |-> <<>>, todo |-> {}, old |-> {}, keys |-> {}, admins |-> {},
   role |-> None, key |-> None, grant |-> {}, flag |-> "kept"]

At(r, place)   == req[r].at = place
Goto(r, place) == req' = [req EXCEPT ![r].at = place]
Finish(r)      == req' = [req EXCEPT ![r] = Idle]

IsLeast(n, S) == n \in S /\ \A m \in S : n <= m

\* A sequence of PostgreSQL only goes up: the next id is one that no row and no
\* request knows.  A table of SQLite goes on after the greatest id there is.
IsNextUid(u) ==
  IsLeast(u, IF enforced
             THEN {v \in Uids : ~IsUser(v) /\ \A r \in Requests : req[r].uid # v}
             ELSE {v \in Uids : \A w \in Uids : IsUser(w) => w < v})

FreshIds(kept) ==
  IF enforced
  THEN {i \in Ids : (\A a \in rows : a.id # i) /\ \A r \in Requests : i \notin req[r].old}
  ELSE {i \in Ids : \A a \in kept : a.id < i}

\* Ids for the rows of a form, in its order, beside the rows kept
AreNextIds(ids, kept) ==
  \A i \in DOMAIN ids :
    IsLeast(ids[i], {n \in FreshIds(kept) : \A j \in DOMAIN ids : j < i => ids[j] < n})

\* Slip: an empty scope is stored as it came, not as NULL
RowsWithEmptyScope(u, form, ids) ==
  {[id |-> ids[i], uid |-> u, role |-> form[i].role,
    scope |-> IF form[i].scope = Global THEN "" ELSE form[i].scope] : i \in DOMAIN form}

NewRows(u, form, ids) ==
  {[id |-> ids[i], uid |-> u, role |-> form[i].role, scope |-> form[i].scope] :
     i \in DOMAIN form}

Inserted(u, form, kept) ==
  \E ids \in [DOMAIN form -> Ids] :
    AreNextIds(ids, kept) /\ rows' = kept \cup NewRows(u, form, ids)

\* Slip: the role was there when the form was shown
RefersToUser(u, ro) == enforced => IsUser(u)

\* The foreign keys of user_role_assignments
Refers(u, ro) == enforced => IsUser(u) /\ RoleExists(ro)

\* They and UNIQUE (user_id, role_id, code_location_name), in which NULLs differ
Insertable(u, form, kept) ==
  \A i \in DOMAIN form :
    /\ Refers(u, form[i].role)
    /\ form[i].scope # Global =>
         \A a \in kept : a.uid # u \/ a.role # form[i].role \/ a.scope # form[i].scope

Init ==
  \E root \in Uids, i \in Ids :
     /\ IsLeast(root, Uids) /\ IsLeast(i, Ids)
     /\ enforced \in Databases
     /\ users    = [u \in Uids |-> IF u = root THEN Root ELSE None]
     /\ services = {}
     /\ active   = {root}
     /\ stage    = [c \in Customs |-> "unused"]
     /\ grant    = [c \in Customs |-> {}]
     /\ rows     = {[id |-> i, uid |-> root, role |-> "admin", scope |-> Global]}
     /\ owner    = [k \in Keys |-> None]
     /\ keyState = [k \in Keys |-> "unused"]
     /\ req      = [r \in Requests |-> Idle]
     /\ asks     = 0
     /\ orderly  = TRUE
     /\ unguarded = FALSE

-----------------------------------------------------------------------------
(* Admission.                                                              *)

\* AuthMiddleware, AdminPortalMiddleware and the view's can_create, can_edit
\* or can_delete: permissions are read here and not again.  A service account
\* has no password and comes with a key.
Admitted(n, u, permission) ==
  /\ IsNamed(n, u)
  /\ u \in active
  /\ u \in services => \E k \in Keys : owner[k] = u /\ keyState[k] = "active"
  /\ \E g \in GrantsRead(u) : permission \in g

\* A new request, counted against the bound
Begin(r, ask) ==
  /\ At(r, "idle")
  /\ asks < MaxAsks
  /\ asks' = asks + 1
  /\ req' = [req EXCEPT ![r] = ask]

Start(r, by, permission, ask) ==
  /\ Begin(r, ask)
  /\ \E u \in Uids :
       /\ Admitted(by, u, permission)
       /\ unguarded' = (unguarded \/ u \in services)
  /\ orderly' = (orderly /\ \A q \in Requests \ {r} : req[q].at \in {"idle", "use"})
  /\ UNCHANGED tables

\* UserView.create, ServiceAccountView.create
AskCreate(r, by) ==
  \E n \in Names, form \in Forms, s \in BOOLEAN :
    Start(r, by, "edit_users",
          [Idle EXCEPT !.at = "create", !.by = by, !.name = n, !.form = form, !.service = s])

\* UserView.edit; the page's box sends is_active set or not at all, the
\* handler takes any other value for a cleared one
AskEdit(r, by) ==
  \E n \in Names, form \in Forms, flag \in Flags :
    Start(r, by, "edit_users",
          [Idle EXCEPT !.at = "findUser", !.by = by, !.name = n, !.form = form,
                       !.flag = flag])

\* ServiceAccountView.edit: a form without assignments changes nothing
AskEditService(r, by) ==
  \E u \in services, form \in Forms \ {<<>>} :
    Start(r, by, "edit_users",
          [Idle EXCEPT !.at = "findService", !.by = by, !.name = users[u], !.form = form,
                       !.service = TRUE])

\* UserView.delete, of one user or of all that are ticked
AskDelete(r, by) ==
  \E ticked \in SUBSET Names \ {{}} :
    Start(r, by, "edit_users",
          [Idle EXCEPT !.at = "list", !.by = by, !.todo = ticked])

\* ServiceAccountView.delete
AskDeleteService(r, by) ==
  \E ticked \in SUBSET {users[u] : u \in services} \ {{}} :
    Start(r, by, "edit_users",
          [Idle EXCEPT !.at = "pick", !.by = by, !.todo = ticked, !.service = TRUE])

\* ApiKeyView.create and delete
AskMint(r, by) ==
  \E n \in Names :
    Start(r, by, "edit_users", [Idle EXCEPT !.at = "findOwner", !.by = by, !.name = n])

AskRevoke(r, by) ==
  \E k \in Keys :
    Start(r, by, "edit_users", [Idle EXCEPT !.at = "revoke", !.by = by, !.key = k])

\* RoleView.create and edit
AskRole(r, by, place) ==
  \E c \in Customs, g \in Grants :
    Start(r, by, "edit_roles",
          [Idle EXCEPT !.at = place, !.by = by, !.role = c, !.grant = g])

\* RoleView.delete
AskDropRole(r, by) ==
  \E c \in Customs :
    Start(r, by, "edit_roles", [Idle EXCEPT !.at = "countRole", !.by = by, !.role = c])

Ask(r) ==
  \E by \in Names :
    \/ AskCreate(r, by)
    \/ AskEdit(r, by)
    \/ AskEditService(r, by)
    \/ AskDelete(r, by)
    \/ AskDeleteService(r, by)
    \/ AskMint(r, by)
    \/ AskRevoke(r, by)
    \/ \E place \in {"createRole", "editRole"} : AskRole(r, by, place)
    \/ AskDropRole(r, by)

\* An error in the middle, or a client that goes away: what was committed stays
Abort(r) ==
  /\ ~At(r, "idle")
  /\ Finish(r)
  /\ UNCHANGED <<tables, history>>

-----------------------------------------------------------------------------
(* Users and their assignments.                                            *)

\* UserView.create, ServiceAccountView.create up to the commit of the user
LookUp(r) ==
  /\ At(r, "create")
  /\ LET x == req[r]
     IN \E ro \in RoleNames :
          /\ IF HasGlobal(x.form) THEN IsGlobalRole(ro, x.form) ELSE ro = "viewer"
          /\ IF IsKnown(x.name) \/ ~RoleExists(ro)
             THEN Finish(r)
             ELSE req' = [req EXCEPT ![r].at = "insertUser", ![r].role = ro]
  /\ UNCHANGED <<tables, history>>

\* create_user, create_service_account: the user and its global assignment in
\* one transaction; the others follow in another
InsertUser(r) ==
  /\ At(r, "insertUser")
  /\ LET x == req[r]
         first == <<[role |-> x.role, scope |-> Global]>>
     IN IF (\E u \in Uids : IsNamed(x.name, u)) \/ (enforced /\ ~RoleExists(x.role))
        THEN /\ Finish(r)
             /\ UNCHANGED <<users, services, active, rows>>
        ELSE /\ \E u \in Uids :
                  /\ IsNextUid(u)
                  /\ users' = [users EXCEPT ![u] = x.name]
                  /\ services' = IF x.service THEN services \cup {u} ELSE services
                  /\ active' = active \cup {u}
                  /\ Inserted(u, first, rows)
             /\ IF Len(x.form) > 1 \/ \E i \in DOMAIN x.form : x.form[i].scope # Global
                THEN req' = [req EXCEPT ![r].at = "assign", ![r].role = None]
                ELSE Finish(r)
  /\ UNCHANGED <<stage, grant, owner, keyState, history>>

\* find_by_pk of the portal's edit; ApiKeyView.create looks its user up as well
Find(r, place, next) ==
  /\ At(r, place)
  /\ IF /\ IsKnown(req[r].name)
        /\ req[r].service => \E u \in services : IsNamed(req[r].name, u)
     THEN Goto(r, next)
     ELSE Finish(r)
  /\ UNCHANGED <<tables, history>>

\* Slip: the check for other users instead of oneself
ProtectsOthersOnly(r) == req[r].name # req[r].by

\* The self-protection applies to forms with a global assignment
ProtectsItself(r) == req[r].name = req[r].by

\* UserView.edit up to update_user
CheckEdit(r) ==
  /\ At(r, "check")
  /\ IF /\ ProtectsItself(r)
        /\ \E ro \in RoleNames :
             IsGlobalRole(ro, req[r].form) /\ RoleExists(ro) /\ GrantOf(ro) = {}
     THEN Finish(r)
     ELSE Goto(r, "update")
  /\ UNCHANGED <<tables, history>>

\* Whether the form's is_active differs from the column that was read
Differs(r, u) ==
  \/ req[r].flag = "cleared" /\ u \in active
  \/ req[r].flag = "set" /\ u \notin active

\* update_user, which has a transaction of its own, up to the commit
Update(r) ==
  /\ At(r, "update")
  /\ \/ \E u \in Uids :
          /\ IsNamed(req[r].name, u)
          /\ IF Differs(r, u)
             THEN req' = [req EXCEPT ![r].at = "setActive", ![r].uid = u]
             ELSE IF req[r].form = <<>> THEN Finish(r) ELSE Goto(r, "assign")
     \/ (\A u \in Uids : ~IsNamed(req[r].name, u)) /\ Finish(r)
  /\ UNCHANGED <<tables, history>>

\* Its commit, which raises when the row that was read is gone
SetActive(r) ==
  /\ At(r, "setActive")
  /\ LET x == req[r]
     IN /\ IF x.form # <<>> /\ IsUser(x.uid)
           THEN req' = [req EXCEPT ![r].at = "assign", ![r].uid = None]
           ELSE Finish(r)
        /\ IF IsUser(x.uid)
           THEN /\ active' = IF x.flag = "cleared" THEN active \ {x.uid}
                             ELSE active \cup {x.uid}
                /\ unguarded' = (unguarded \/ (x.flag = "cleared" /\ x.name = x.by))
           ELSE UNCHANGED <<active, unguarded>>
  /\ UNCHANGED <<users, services, stage, grant, rows, owner, keyState, asks, orderly>>

\* set_user_role_assignments up to the commit
Assign(r) ==
  /\ At(r, "assign")
  /\ \/ /\ ~DuplicateScopes(req[r].form)
        /\ \E u \in Uids :
             /\ IsNamed(req[r].name, u)
             /\ req' = [req EXCEPT ![r].at = "replace", ![r].uid = u, ![r].old = IdsOf(u)]
     \/ /\ DuplicateScopes(req[r].form) \/ \A u \in Uids : ~IsNamed(req[r].name, u)
        /\ Finish(r)
  /\ UNCHANGED <<tables, history>>

\* Its writes: the rows that were read are deleted by their ids, those of the
\* form inserted; what the form's roles are is looked up in between
Replaced(r) == req[r].old

Replace(r) ==
  /\ At(r, "replace")
  /\ LET x == req[r]
         kept == {a \in rows : a.id \notin Replaced(r)}
     IN IF /\ \A i \in DOMAIN x.form : RoleExists(x.form[i].role)
           /\ Insertable(x.uid, x.form, kept)
        THEN /\ Inserted(x.uid, x.form, kept)
             /\ unguarded' = (unguarded \/ (x.name = x.by /\ ~HasGlobal(x.form)))
        ELSE UNCHANGED <<rows, unguarded>>
  /\ Finish(r)
  /\ UNCHANGED <<users, services, active, stage, grant, owner, keyState, asks, orderly>>

\* UserView.delete: list_users, once for the whole batch
List(r) ==
  /\ At(r, "list")
  /\ \E seen \in SUBSET Names :
       /\ \A n \in Names : n \in seen => MayReadAsAdmin(n)
       /\ \A n \in Names \ seen : MayReadAsNobody(n)
       /\ req' = [req EXCEPT ![r].at = "pick", ![r].admins = seen]
  /\ UNCHANGED <<tables, history>>

\* Slip: an account may delete itself while another administrator is listed
RefusedIfLast(r, n) == ~req[r].service /\ req[r].admins \ {n} = {}

\* Not oneself and not the last administrator that was listed
Refused(r, n) ==
  /\ ~req[r].service
  /\ n = req[r].by \/ req[r].admins \ {n} = {}

\* The checks of a batch, and delete_user up to the commit
Pick(r) ==
  /\ At(r, "pick")
  /\ \E n \in req[r].todo :
       \/ /\ ~Refused(r, n)
          /\ \E u \in Uids :
               /\ IsNamed(n, u)
               /\ req' = [req EXCEPT ![r].at = "remove", ![r].name = n, ![r].uid = u,
                                     ![r].old = IdsOf(u), ![r].keys = KeysOf(u)]
       \/ /\ Refused(r, n) \/ \A u \in Uids : ~IsNamed(n, u)
          /\ Finish(r)
  /\ UNCHANGED <<tables, history>>

\* Slip: rows that came since they were read are overlooked
NothingCameSince(r) == TRUE

\* The foreign keys refuse the DELETE while a row that was not read refers to it
NothingRefers(r) ==
  enforced =>
    /\ IdsOf(req[r].uid) \subseteq req[r].old
    /\ KeysOf(req[r].uid) \subseteq req[r].keys

\* Slip: without the cascade the assignments stay
AllRows(r) == rows

\* Those the ORM's cascade leaves
Uncascaded(r) == {a \in rows : a.id \notin req[r].old}

\* delete_user's commit: the cascade is the ORM's, of the rows it has read
Remove(r) ==
  /\ At(r, "remove")
  /\ LET x == req[r]
         rest == x.todo \ {x.name}
     IN IF NothingRefers(r)
        THEN /\ users' = [users EXCEPT ![x.uid] = None]
             /\ services' = services \ {x.uid}
             /\ active' = active \ {x.uid}
             /\ rows' = Uncascaded(r)
             /\ keyState' = [k \in Keys |-> IF k \in x.keys THEN "gone" ELSE keyState[k]]
             /\ req' = [req EXCEPT ![r] =
                  IF rest = {} THEN Idle
                  ELSE [x EXCEPT !.at = "pick", !.todo = rest, !.name = None, !.uid = None,
                                 !.old = {}, !.keys = {}]]
        ELSE /\ Finish(r)
             /\ UNCHANGED <<users, services, active, rows, keyState>>
  /\ UNCHANGED <<stage, grant, owner, history>>

\* "db assign-role": assign_role_to_location up to the commit, in a process of
\* its own; an assignment that exists is returned as it is
CliAssign(r) ==
  /\ \E u \in Uids, e \in Entries :
       /\ IsUser(u)
       /\ RoleExists(e.role)
       /\ \A a \in RowsOf(u) : a.role # e.role \/ a.scope # e.scope
       /\ Begin(r, [Idle EXCEPT !.at = "cliInsert", !.uid = u, !.form = <<e>>])
  /\ orderly' = FALSE
  /\ UNCHANGED <<tables, unguarded>>

CliInsert(r) ==
  /\ At(r, "cliInsert")
  /\ LET x == req[r]
     IN IF Insertable(x.uid, x.form, rows)
        THEN Inserted(x.uid, x.form, rows)
        ELSE UNCHANGED rows
  /\ Finish(r)
  /\ UNCHANGED <<users, services, active, stage, grant, owner, keyState, history>>

-----------------------------------------------------------------------------
(* API keys.                                                               *)

\* create_api_key up to the commit
Mint(r) ==
  /\ At(r, "mint")
  /\ \/ \E u \in Uids :
          /\ IsNamed(req[r].name, u)
          /\ req' = [req EXCEPT ![r].at = "insertKey", ![r].uid = u]
     \/ (\A u \in Uids : ~IsNamed(req[r].name, u)) /\ Finish(r)
  /\ UNCHANGED <<tables, history>>

InsertKey(r) ==
  /\ At(r, "insertKey")
  /\ IF enforced => IsUser(req[r].uid)
     THEN \E k \in Keys :
            /\ keyState[k] = "unused"
            /\ keyState' = [keyState EXCEPT ![k] = "active"]
            /\ owner' = [owner EXCEPT ![k] = req[r].uid]
     ELSE UNCHANGED <<keyState, owner>>
  /\ Finish(r)
  /\ UNCHANGED <<users, services, active, stage, grant, rows, history>>

\* revoke_api_key
Revoke(r) ==
  /\ At(r, "revoke")
  /\ keyState' = [keyState EXCEPT ![req[r].key] = IF @ = "active" THEN "revoked" ELSE @]
  /\ Finish(r)
  /\ UNCHANGED <<users, services, active, stage, grant, rows, owner, history>>

\* get_user_by_api_key up to the commit of last_used_at
Present(r) ==
  /\ \E k \in Keys :
       /\ keyState[k] = "active"
       /\ owner[k] \in active
       /\ Begin(r, [Idle EXCEPT !.at = "use", !.key = k])
  /\ UNCHANGED <<tables, orderly, unguarded>>

\* Slip: the whole row that was read is written back
StateWrittenBack(r) == [keyState EXCEPT ![req[r].key] = "active"]

\* An UPDATE names the columns that changed, here last_used_at only
StateAfterUse(r) == keyState

Use(r) ==
  /\ At(r, "use")
  /\ keyState' = StateAfterUse(r)
  /\ Finish(r)
  /\ UNCHANGED <<users, services, active, stage, grant, rows, owner, history>>

-----------------------------------------------------------------------------
(* Custom roles.                                                           *)

\* create_role
CreateRole(r) ==
  /\ At(r, "createRole")
  /\ LET c == req[r].role
     IN IF stage[c] = "unused"
        THEN /\ stage' = [stage EXCEPT ![c] = "live"]
             /\ grant' = [grant EXCEPT ![c] = req[r].grant]
        ELSE UNCHANGED <<stage, grant>>
  /\ Finish(r)
  /\ UNCHANGED <<users, services, active, rows, owner, keyState, history>>

\* update_role
EditRole(r) ==
  /\ At(r, "editRole")
  /\ LET c == req[r].role
     IN IF stage[c] = "live"
        THEN /\ grant' = [grant EXCEPT ![c] = req[r].grant]
             /\ unguarded' = (unguarded \/ req[r].grant = {})
        ELSE UNCHANGED <<grant, unguarded>>
  /\ Finish(r)
  /\ UNCHANGED <<users, services, active, stage, rows, owner, keyState, asks, orderly>>

\* Slip: assignments to a location are not counted
NobodyHasGlobal(c) == \A a \in rows : a.role = c => a.scope # Global

Unassigned(c) == \A a \in rows : a.role # c

\* delete_role up to the commit: it counts the assignments
CountRole(r) ==
  /\ At(r, "countRole")
  /\ IF stage[req[r].role] = "live" /\ Unassigned(req[r].role)
     THEN Goto(r, "dropRole")
     ELSE Finish(r)
  /\ UNCHANGED <<tables, history>>

\* Slip: the count is all there is
CountedBefore(r) == TRUE

\* The foreign key of role_id at the commit
NothingUses(r) == enforced => \A a \in rows : a.role # req[r].role

DropRole(r) ==
  /\ At(r, "dropRole")
  /\ stage' = IF NothingUses(r) THEN [stage EXCEPT ![req[r].role] = "gone"] ELSE stage
  /\ Finish(r)
  /\ UNCHANGED <<users, services, active, grant, rows, owner, keyState, history>>

-----------------------------------------------------------------------------
Handle(r) ==
  \/ Find(r, "findUser", "check") \/ Find(r, "findService", "assign")
  \/ Find(r, "findOwner", "mint")
  \/ LookUp(r) \/ InsertUser(r)
  \/ CheckEdit(r) \/ Update(r) \/ SetActive(r) \/ Assign(r) \/ Replace(r)
  \/ List(r) \/ Pick(r) \/ Remove(r)
  \/ CliInsert(r)
  \/ Mint(r) \/ InsertKey(r) \/ Revoke(r) \/ Use(r)
  \/ CreateRole(r) \/ EditRole(r) \/ CountRole(r) \/ DropRole(r)

Next ==
  /\ \E r \in Requests : Ask(r) \/ CliAssign(r) \/ Present(r) \/ Handle(r) \/ Abort(r)
  /\ UNCHANGED enforced

Spec == Init /\ [][Next]_vars

-----------------------------------------------------------------------------
(* Properties.                                                             *)

Places ==
  {"idle", "findUser", "findService", "findOwner", "create", "insertUser",
   "check", "update", "setActive", "assign", "replace", "list", "pick", "remove",
   "cliInsert", "mint", "insertKey", "revoke", "use",
   "createRole", "editRole", "countRole", "dropRole"}

RequestRecord ==
  [at : Places, by : Names \cup {None}, service : BOOLEAN, name : Names \cup {None},
   uid : Uids \cup {None}, form : Lists, todo : SUBSET Names,
   old : SUBSET Ids, keys : SUBSET Keys, admins : SUBSET Names,
   role : RoleNames \cup {None}, key : Keys \cup {None}, grant : SUBSET Permissions,
   flag : Flags]

\* Every variable stays in its domain.
TypeOK ==
  /\ enforced \in BOOLEAN
  /\ users \in [Uids -> Names \cup {None}]
  /\ services \subseteq Uids
  /\ active \subseteq Uids
  /\ stage \in [Customs -> {"unused", "live", "gone"}]
  /\ grant \in [Customs -> SUBSET Permissions]
  /\ rows \subseteq Assignment
  /\ owner \in [Keys -> Uids \cup {None}]
  /\ keyState \in [Keys -> {"unused", "active", "revoked", "gone"}]
  /\ req \in [Requests -> RequestRecord]
  /\ asks \in 0..MaxAsks
  /\ orderly \in BOOLEAN
  /\ unguarded \in BOOLEAN

OwnersExist ==
  /\ \A a \in rows : IsUser(a.uid) /\ RoleExists(a.role)
  /\ \A k \in Keys : keyState[k] \in {"active", "revoked"} =>
                          owner[k] \in Uids /\ IsUser(owner[k])

\* Where foreign keys are enforced, and however requests interleave, an
\* assignment is of a user and a role that exist and a key is of a user that
\* exists: what delete_user, delete_role, set_user_role_assignments and
\* create_api_key read before they commit may have changed by then.
RowsHaveTheirOwners == enforced => OwnersExist

\* Where they are not, the ORM's cascade and the count of delete_role do the
\* same as long as requests come one at a time.
RowsHaveTheirOwnersInTurn == orderly => OwnersExist

\* A key that was revoked, or went with its user, is never accepted again: not
\* by the commit of a request that had read it while it was active.
RevokedStaysRevoked ==
  [][\A k \in Keys :
       /\ keyState[k] = "revoked" => keyState'[k] \in {"revoked", "gone"}
       /\ keyState[k] = "gone" => keyState'[k] = "gone"]_vars

AnAdminRemains == \E u \in Uids : IsAdmin(u)

\* UserView.edit and UserView.delete protect the portal from losing its last
\* administrator, by deletion, demotion or deactivation, as long as requests come
\* one at a time and none of the gaps is used that they leave: the command line
\* adds an assignment, a custom role is emptied, a service account administers
\* (its view has no protection), or somebody submits a form for himself that
\* drops the global assignment or clears is_active, which the self-protection
\* of UserView.edit does not look at.
AdminsRemainInTurn == (orderly /\ ~unguarded) => AnAdminRemains

=============================================================================
