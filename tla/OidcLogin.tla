------------------------------ MODULE OidcLogin ------------------------------
(***************************************************************************)
(* Logging in and out of the webserver                                     *)
(* (dagster_webserver/auth/provider.py with auth/routes.py,                *)
(* auth/oidc/*.py and auth/middleware.py) and the tables oidc_providers    *)
(* and users as far as db_backend.py uses them for it.                     *)
(*                                                                         *)
(* The session is not kept on the server: it is a signed cookie.  A        *)
(* request works on the copy it came with, and its answer may replace      *)
(* whatever the browser holds by then with that copy.  Requests interleave *)
(* at their awaits: reads and transactions of the database, and the calls  *)
(* to the identity provider.                                               *)
(***************************************************************************)
EXTENDS Naturals, FiniteSets

CONSTANTS
  Requests,     \* slots for requests being handled at the same time
  Browsers,     \* each with one cookie jar
  Flows,        \* bound: authorization flows ever begun, in order
  Providers,    \* names of providers
  Ids,          \* bound: row ids of providers
  Issuers,      \* issuer URLs
  Identities,   \* persons as their issuers know them
  IssuerOf,     \* where an identity can log in
  SubOf,        \* its claim sub, unique at that issuer only
  EmailOf,      \* its claim email, None if there is none
  Locals,       \* usernames of the accounts with a password, service accounts or not
  Emails,       \* values of the column email
  Databases,    \* for each that may be used, whether it enforces foreign keys
  MaxAsks,      \* bound: requests ever begun
  MaxChanges,   \* bound: changes made in the portal
  None

Subs == {SubOf[i] : i \in Identities}

\* _link_or_create_user's name for a new account
NameFor(i, provider) == IF EmailOf[i] # None THEN EmailOf[i] ELSE <<provider, SubOf[i]>>

Names == Locals \cup {NameFor(i, p) : i \in Identities, p \in Providers}

ASSUME OidcAssumption ==
  /\ Flows \subseteq Nat
  /\ Ids \subseteq Nat
  /\ IssuerOf \in [Identities -> Issuers]
  /\ EmailOf \in [Identities -> Emails \cup {None}]
  /\ \A i, j \in Identities : IssuerOf[i] = IssuerOf[j] /\ SubOf[i] = SubOf[j] => i = j
  /\ Databases \subseteq BOOLEAN
  /\ MaxAsks \in Nat /\ MaxChanges \in Nat
  /\ None \notin Browsers \cup Flows \cup Providers \cup Ids \cup Issuers \cup Identities
  /\ None \notin Names /\ None \notin Subs /\ None \notin Emails

VARIABLES
  enforced,    \* whether the database enforces foreign keys
  providers,   \* table oidc_providers by id
  users,       \* table users by username
  cookie,      \* the session in each browser's cookie
  flows,       \* each flow begun: by whom, with which provider and issuer
  answer,      \* the identity the issuer's code for a flow stands for
  redeemed,    \* flows whose code was exchanged
  req,         \* the requests being handled
  entitled,    \* history: identities each account was made for or linked to
  asks,        \* history: requests begun
  changes,     \* history: changes made in the portal
  orderly,     \* history: callbacks had the database for themselves
  overlapped,  \* history: browsers that had two requests at the same time
  disturbed    \* history: whether an issuer was edited, an account deactivated

tables   == <<providers, users>>
outside  == <<answer, redeemed>>
history  == <<entitled, asks, changes, orderly, overlapped, disturbed>>
vars     == <<enforced, tables, cookie, flows, outside, req, history>>

Session   == [user : Names \cup {None}, flow : Flows \cup {None}]
Anonymous == [user |-> None, flow |-> None]
NoRow     == [name |-> None, issuer |-> None, enabled |-> FALSE]
Unlinked  == <<None, None>>
NoUser    == [stands |-> FALSE, active |-> FALSE, email |-> None, link |-> Unlinked,
              password |-> FALSE]
NotBegun  == [browser |-> None, provider |-> None, issuer |-> None]

IsRow(id)        == providers[id] # NoRow
IsActive(u)      == users[u].stands /\ users[u].active
\* AuthMiddleware with authenticate_request: who a browser's request comes from
Acting(b) == IF cookie[b].user # None /\ IsActive(cookie[b].user) THEN cookie[b].user ELSE None

-----------------------------------------------------------------------------
(* Requests.                                                               *)

Idle ==
  [at |-> "idle", browser |-> None, session |-> Anonymous, flow |-> None, name |-> None,
   id |-> None, issuer |-> None, user |-> None]

At(r, place)   == req[r].at = place
Goto(r, place) == req' = [req EXCEPT ![r].at = place]
Finish(r)      == req' = [req EXCEPT ![r] = Idle]
Busy(r)        == \E q \in Requests \ {r} : ~At(q, "idle")

\* The answer sets the cookie; what other requests set meanwhile is lost
Reply(r, session) ==
  /\ cookie' = [cookie EXCEPT ![req[r].browser] = session]
  /\ Finish(r)

\* The answer of a handler that changed nothing: SessionMiddleware, of a version
\* that is left open, sends a session that is not empty again, or sends nothing
Refuse(r) ==
  \/ Finish(r) /\ UNCHANGED cookie
  \/ req[r].session # Anonymous /\ Reply(r, req[r].session)

Begin(r, b, ask) ==
  /\ At(r, "idle")
  /\ asks < MaxAsks
  /\ asks' = asks + 1
  /\ req' = [req EXCEPT ![r] = [ask EXCEPT !.browser = b, !.session = cookie[b]]]
  /\ overlapped' = IF \E q \in Requests : req[q].browser = b THEN overlapped \cup {b}
                   ELSE overlapped
  /\ UNCHANGED <<enforced, tables, cookie, flows, outside, entitled, changes, disturbed>>

\* the tables as the portal may have left them: a provider, accounts with any
\* address
Init ==
  /\ enforced \in Databases
  /\ \E first \in [name : Providers, issuer : Issuers, enabled : {TRUE}] :
       providers = [id \in Ids |-> IF \A i \in Ids : id <= i THEN first ELSE NoRow]
  /\ \E address \in [Locals -> Emails \cup {None}] :
       users = [u \in Names |->
         IF u \in Locals
         THEN [NoUser EXCEPT !.stands = TRUE, !.active = TRUE, !.email = address[u],
                             !.password = TRUE]
         ELSE NoUser]
  /\ cookie = [b \in Browsers |-> Anonymous]
  /\ flows = [f \in Flows |-> NotBegun]
  /\ answer = [f \in Flows |-> None]
  /\ redeemed = {}
  /\ req = [r \in Requests |-> Idle]
  /\ entitled = [u \in Names |-> {}]
  /\ asks = 0
  /\ changes = 0
  /\ orderly = TRUE
  /\ overlapped = {}
  /\ disturbed = {}

-----------------------------------------------------------------------------
(* The password form and logging out.                                      *)

AskLogin(r, b) ==
  /\ \E u \in Locals : Begin(r, b, [Idle EXCEPT !.at = "login", !.name = u])
  /\ UNCHANGED orderly

Named(session, u) == [session EXCEPT !.user = u]

\* login_endpoint: SessionAuthProvider.login names the session if the password is
\* the account's; that a service account is rejected afterwards, with a 400, does
\* not take the name back
Login(r) ==
  /\ At(r, "login")
  /\ \/ /\ IsActive(req[r].name)
        /\ users[req[r].name].password
        /\ Reply(r, Named(req[r].session, req[r].name))
     \/ Refuse(r)
  /\ UNCHANGED <<enforced, tables, flows, outside, history>>

\* /logout is not among the allowed routes: the middleware lets users pass
AskLogout(r, b) ==
  /\ Acting(b) # None
  /\ Begin(r, b, [Idle EXCEPT !.at = "logout"])
  /\ UNCHANGED orderly

\* SessionAuthProvider.logout removes the name and nothing else
Unnamed(session) == [session EXCEPT !.user = None]

Logout(r) ==
  /\ At(r, "logout")
  /\ Reply(r, Unnamed(req[r].session))
  /\ UNCHANGED <<enforced, tables, flows, outside, history>>

-----------------------------------------------------------------------------
(* The authorization flow.                                                 *)

AskAuthorize(r, b) ==
  /\ \E p \in Providers : Begin(r, b, [Idle EXCEPT !.at = "authorize", !.name = p])
  /\ UNCHANGED orderly

IsNextFlow(f) ==
  flows[f] = NotBegun /\ \A g \in Flows : g < f => flows[g] # NotBegun

\* Slip: the flow starts a session of its own
FreshSession(session, f) == [Anonymous EXCEPT !.flow = f]

\* state, verifier, nonce and target are stored, and later cleared, together;
\* those of a flow begun before in the same session are overwritten
Began(session, f) == [session EXCEPT !.flow = f]

\* initiate_oidc_login of a provider that is there and enabled
Authorize(r) ==
  /\ At(r, "authorize")
  /\ \/ \E id \in Ids, f \in Flows :
          /\ providers[id].name = req[r].name
          /\ providers[id].enabled
          /\ IsNextFlow(f)
          /\ flows' = [flows EXCEPT ![f] =
               [browser |-> req[r].browser, provider |-> req[r].name,
                issuer |-> providers[id].issuer]]
          /\ Reply(r, Began(req[r].session, f))
     \/ /\ \A id \in Ids : providers[id].name = req[r].name => ~providers[id].enabled
        /\ Refuse(r)
        /\ UNCHANGED flows
  /\ UNCHANGED <<enforced, tables, outside, history>>

\* External: a person logs in at the issuer, which sends the browser back with
\* a code made for this flow
Identify(f, i) ==
  /\ flows[f] # NotBegun
  /\ answer[f] = None
  /\ IssuerOf[i] = flows[f].issuer
  /\ answer' = [answer EXCEPT ![f] = i]
  /\ UNCHANGED <<enforced, tables, cookie, flows, redeemed, req, history>>

\* Slip: neither state nor verifier nor nonce are compared
AnyFlow(session, f) == TRUE

\* The state in the session is that of the link, the verifier opens the code and
\* the nonce is that of the token: stored together, they agree together
FlowIsOwn(session, f) == session.flow = f

\* /oidc/callback, in whichever browser the link is opened, and again if it is
\* reloaded; with another session's flow it changes nothing
AskCallback(r, b) ==
  /\ \E f \in Flows :
       /\ answer[f] # None
       /\ FlowIsOwn(cookie[b], f)
       /\ Begin(r, b, [Idle EXCEPT !.at = "callback", !.flow = f])
  /\ orderly' = (orderly /\ ~Busy(r))

\* the provider the state names, as a snapshot; it need not be enabled
FindProvider(r) ==
  /\ At(r, "callback")
  /\ \/ \E id \in Ids :
          /\ providers[id].name = flows[req[r].flow].provider
          /\ req' = [req EXCEPT ![r].at = "exchange", ![r].id = id,
                                ![r].issuer = providers[id].issuer]
          /\ UNCHANGED cookie
     \/ /\ \A id \in Ids : providers[id].name # flows[req[r].flow].provider
        /\ Refuse(r)
  /\ UNCHANGED <<enforced, tables, flows, outside, history>>

\* exchange_code and verify_id_token: the issuer that made the code redeems it
\* once, and its token is for this flow
Exchange(r) ==
  /\ At(r, "exchange")
  /\ LET f == req[r].flow
     IN IF req[r].issuer = flows[f].issuer /\ f \notin redeemed
        THEN redeemed' = redeemed \cup {f} /\ Goto(r, "findLink") /\ UNCHANGED cookie
        ELSE Refuse(r) /\ UNCHANGED redeemed
  /\ UNCHANGED <<enforced, tables, flows, answer, history>>

-----------------------------------------------------------------------------
(* _link_or_create_user.                                                   *)

Who(r) == answer[req[r].flow]

\* Slip: accounts are matched by address only
NeverLinked(id, s) == {}

LinkedTo(id, s) == {u \in Names : users[u].stands /\ users[u].link = <<id, s>>}

WithEmail(e)    == {u \in Names : users[u].stands /\ users[u].email = e}

\* scalar_one_or_none raises if several accounts are found, and the session
\* middleware does not see the answer of a handler that raised; an account that
\* is not active counts as none
Found(r, accounts, IfFound(_), otherwise) ==
  \/ Cardinality(accounts) > 1 /\ Finish(r)
  \/ /\ Cardinality(accounts) = 1
     /\ \E u \in accounts : IsActive(u) /\ IfFound(u)
  \/ /\ Cardinality(accounts) <= 1
     /\ \A u \in accounts : ~IsActive(u)
     /\ Goto(r, otherwise)

\* get_user_by_oidc
FindLink(r) ==
  /\ At(r, "findLink")
  /\ LET enter(u) == req' = [req EXCEPT ![r].at = "welcome", ![r].user = u]
     IN Found(r, LinkedTo(req[r].id, SubOf[Who(r)]), enter,
              IF EmailOf[Who(r)] = None THEN "create" ELSE "findEmail")
  /\ UNCHANGED <<enforced, tables, cookie, flows, outside, history>>

\* get_user_by_email
FindEmail(r) ==
  /\ At(r, "findEmail")
  /\ LET choose(u) == req' = [req EXCEPT ![r].at = "link", ![r].user = u]
     IN Found(r, WithEmail(EmailOf[Who(r)]), choose, "create")
  /\ UNCHANGED <<enforced, tables, cookie, flows, outside, history>>

\* the foreign key of users.oidc_provider_id
ProviderStands(r) == enforced => IsRow(req[r].id)

\* An account is written with its link and the request goes on with it
Written(r, u, account, persons) ==
  /\ users' = [users EXCEPT ![u] = [account EXCEPT !.link = <<req[r].id, SubOf[Who(r)]>>]]
  /\ entitled' = [entitled EXCEPT ![u] = persons \cup {Who(r)}]
  /\ req' = [req EXCEPT ![r].at = "welcome", ![r].user = u]

\* link_oidc_to_user: an older link of the account is overwritten
Link(r) ==
  /\ At(r, "link")
  /\ LET u == req[r].user
     IN IF users[u].stands /\ ProviderStands(r)
        THEN Written(r, u, users[u], entitled[u])
        ELSE Finish(r) /\ UNCHANGED <<users, entitled>>
  /\ UNCHANGED <<enforced, providers, cookie, flows, outside, asks, changes, orderly, overlapped,
                 disturbed>>

\* create_oidc_user: usernames are unique, addresses and links are not
Create(r) ==
  /\ At(r, "create")
  /\ LET u == NameFor(Who(r), flows[req[r].flow].provider)
     IN IF ~users[u].stands /\ ProviderStands(r)
        THEN Written(r, u, [NoUser EXCEPT !.stands = TRUE, !.active = TRUE,
                                          !.email = EmailOf[Who(r)]], {})
        ELSE Finish(r) /\ UNCHANGED <<users, entitled>>
  /\ UNCHANGED <<enforced, providers, cookie, flows, outside, asks, changes, orderly, overlapped,
                 disturbed>>

\* handle_oidc_callback's end: the session names the account, the flow is over
Welcome(r) ==
  /\ At(r, "welcome")
  /\ Reply(r, [user |-> req[r].user, flow |-> None])
  /\ UNCHANGED <<enforced, tables, flows, outside, history>>

\* A handler that raises, a timeout or a browser that goes away: what was
\* committed stays, the session is not sent
Abort(r) ==
  /\ ~At(r, "idle")
  /\ Finish(r)
  /\ UNCHANGED <<enforced, tables, cookie, flows, outside, history>>

-----------------------------------------------------------------------------
(* The portal, whose transactions come between the steps of requests.      *)

Change ==
  /\ changes < MaxChanges
  /\ changes' = changes + 1
  /\ orderly' = (orderly /\ \A r \in Requests : At(r, "idle"))
  /\ UNCHANGED <<enforced, cookie, flows, outside, req, asks, overlapped>>

\* The next row id: SQLite goes on after the greatest there is, a sequence of
\* PostgreSQL never comes back to one that a row or a request knows
IsNextId(id) ==
  IF enforced
  THEN ~IsRow(id) /\ \A r \in Requests : req[r].id # id
  ELSE /\ \A i \in Ids : IsRow(i) => i < id
       /\ \A i \in Ids : i < id => \E j \in Ids : IsRow(j) /\ i <= j

\* OIDCProviderView.create
AddProvider ==
  /\ Change
  /\ \E p \in Providers, issuer \in Issuers, id \in Ids :
       /\ \A i \in Ids : providers[i].name # p
       /\ IsNextId(id)
       /\ providers' = [providers EXCEPT ![id] = [name |-> p, issuer |-> issuer, enabled |-> TRUE]]
  /\ UNCHANGED <<users, entitled, disturbed>>

\* OIDCProviderView.edit of the issuer: links keep their sub, which the new
\* issuer may have given to somebody else
EditIssuer ==
  /\ Change
  /\ \E id \in Ids, issuer \in Issuers :
       /\ IsRow(id)
       /\ providers[id].issuer # issuer
       /\ providers' = [providers EXCEPT ![id].issuer = issuer]
  /\ disturbed' = disturbed \cup {"edited"}
  /\ UNCHANGED <<users, entitled>>

\* ... and of the column enabled
Toggle ==
  /\ Change
  /\ \E id \in Ids :
       IsRow(id) /\ providers' = [providers EXCEPT ![id].enabled = ~@]
  /\ UNCHANGED <<users, entitled, disturbed>>

\* Slips: only the provider's column is cleared; none is
HalfLinked(id) ==
  [u \in Names |-> IF users[u].link[1] = id THEN [users[u] EXCEPT !.link[1] = None] ELSE users[u]]
StillLinked(id) == users

\* delete_oidc_provider clears both columns of the accounts it has loaded
NoLongerLinked(id) ==
  [u \in Names |-> IF users[u].link[1] = id THEN [users[u] EXCEPT !.link = Unlinked] ELSE users[u]]

DeleteProvider ==
  /\ Change
  /\ \E id \in Ids :
       /\ IsRow(id)
       /\ providers' = [providers EXCEPT ![id] = NoRow]
       /\ users' = NoLongerLinked(id)
  /\ UNCHANGED <<entitled, disturbed>>

\* UserView.edit of the address and of is_active
EditEmail ==
  /\ Change
  /\ \E u \in Names, e \in Emails :
       users[u].stands /\ users' = [users EXCEPT ![u].email = e]
  /\ UNCHANGED <<providers, entitled, disturbed>>

SwitchAccount ==
  /\ Change
  /\ \E u \in Names :
       users[u].stands /\ users' = [users EXCEPT ![u].active = ~@]
  /\ disturbed' = disturbed \cup {"deactivated"}
  /\ UNCHANGED <<providers, entitled>>

\* UserView.delete
DeleteAccount ==
  /\ Change
  /\ \E u \in Names :
       /\ users[u].stands
       /\ users' = [users EXCEPT ![u] = NoUser]
       /\ entitled' = [entitled EXCEPT ![u] = {}]
  /\ UNCHANGED <<providers, disturbed>>

-----------------------------------------------------------------------------
Ask(r) ==
  \E b \in Browsers : AskLogin(r, b) \/ AskLogout(r, b) \/ AskAuthorize(r, b) \/ AskCallback(r, b)

Handle(r) ==
  \/ Login(r) \/ Logout(r) \/ Authorize(r)
  \/ FindProvider(r) \/ Exchange(r) \/ FindLink(r) \/ FindEmail(r) \/ Link(r) \/ Create(r)
  \/ Welcome(r)

Portal ==
  \/ AddProvider \/ EditIssuer \/ Toggle \/ DeleteProvider
  \/ EditEmail \/ SwitchAccount \/ DeleteAccount

Next ==
  \/ \E r \in Requests : Ask(r) \/ Handle(r) \/ Abort(r)
  \/ \E f \in Flows, i \in Identities : Identify(f, i)
  \/ Portal

Spec == Init /\ [][Next]_vars

-----------------------------------------------------------------------------
(* Properties.                                                             *)

InFlow == {"callback", "exchange", "findLink", "findEmail", "link", "create", "welcome"}
Places == {"idle", "login", "logout", "authorize"} \cup InFlow

RequestRecord ==
  [at : Places, browser : Browsers \cup {None}, session : Session, flow : Flows \cup {None},
   name : Names \cup Providers \cup {None}, id : Ids \cup {None},
   issuer : Issuers \cup {None}, user : Names \cup {None}]

Account ==
  [stands : BOOLEAN, active : BOOLEAN, email : Emails \cup {None},
   link : (Ids \X Subs) \cup {Unlinked}, password : BOOLEAN]

\* Every variable stays in its domain; an account has both columns of a link or
\* neither.
TypeOK ==
  /\ enforced \in BOOLEAN
  /\ providers \in [Ids -> {NoRow} \cup [name : Providers, issuer : Issuers, enabled : BOOLEAN]]
  /\ users \in [Names -> Account]
  /\ cookie \in [Browsers -> Session]
  /\ flows \in [Flows -> {NotBegun} \cup [browser : Browsers, provider : Providers, issuer : Issuers]]
  /\ answer \in [Flows -> Identities \cup {None}]
  /\ redeemed \subseteq Flows
  /\ req \in [Requests -> RequestRecord]
  /\ entitled \in [Names -> SUBSET Identities]
  /\ asks \in Nat /\ changes \in Nat
  /\ orderly \in BOOLEAN
  /\ overlapped \subseteq Browsers
  /\ disturbed \subseteq {"edited", "deactivated"}

\* A callback gets past the checks only in the browser that began its flow,
\* wherever the link is opened, whatever the browser began before or after, and
\* in whatever order its answers arrive.
OnlyItsOwnFlow ==
  \A r \in Requests : req[r].at \in InFlow => flows[req[r].flow].browser = req[r].browser

\* While a browser sends one request at a time, its session comes to name an
\* account only through a login, and loses it only through a logout or another
\* login: beginning a flow, failing one or being refused leaves it alone, whether
\* the session is sent back or not.  A login that a service account is refused
\* after its password was right is one that names it.
NamesChangeInTurn ==
  [][\A b \in Browsers :
       b \notin overlapped /\ cookie'[b].user # cookie[b].user =>
         \E r \in Requests :
           req[r].browser = b /\ req[r].at \in {"login", "logout", "welcome"}]_vars

\* An identity enters an account only if that account was made for it or linked
\* to it, as long as no issuer was edited: a link outlives neither its provider
\* nor its id, where foreign keys are enforced or callbacks are not disturbed.
EnteredByItsOwn ==
  [][(enforced \/ orderly') /\ "edited" \notin disturbed =>
       \A r \in Requests :
         req'[r].at = "welcome" => req[r].at = "welcome" \/ Who(r) \in entitled'[req'[r].user]]_vars

\* Linking and creating are a read and a later write, nothing in the tables is
\* unique but the name; in turn, an identity has one account, unless an account
\* was deactivated, which the lookup takes for none.
OneAccountPerIdentity ==
  orderly /\ "deactivated" \notin disturbed =>
    \A u, v \in Names :
      users[u].link # Unlinked /\ users[u].link = users[v].link => u = v

\* A link names a provider that is there, where foreign keys are enforced or
\* callbacks are not disturbed; elsewhere one that is deleted between a
\* callback's lookup and its commit leaves a link to an id used again.
LinksHaveTheirProviders ==
  enforced \/ orderly =>
    \A u \in Names : users[u].link # Unlinked => IsRow(users[u].link[1])

=============================================================================
