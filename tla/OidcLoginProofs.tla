--------------------------- MODULE OidcLoginProofs ---------------------------
(***************************************************************************)
(* Theorems about OidcLogin for any requests, browsers, flows, providers,  *)
(* issuers, identities, accounts and databases: type correctness, whose    *)
(* flow a callback answers, what changes the name in a session, and which  *)
(* accounts an identity has and enters.                                    *)
(***************************************************************************)
EXTENDS OidcLogin, TLAPS

LookedUp  == {"exchange", "findLink", "findEmail", "link", "create"}
Exchanged == {"findLink", "findEmail", "link", "create"}
Unmatched == {"findEmail", "link", "create"}

\* What a request has found out by the time it is at its place.
IsFilled(q) ==
  /\ q.at = "idle" => q = Idle
  /\ q.at # "idle" => q.browser \in Browsers
  /\ q.at = "login" => q.name \in Locals
  /\ q.at \in InFlow => q.flow \in Flows /\ answer[q.flow] # None
  /\ q.at \in LookedUp => q.id \in Ids
  /\ q.at \in Exchanged => q.issuer = flows[q.flow].issuer
  /\ q.at = "findEmail" => EmailOf[answer[q.flow]] # None
  /\ q.at \in {"link", "welcome"} => q.user \in Names

RequestsAreFilled == \A r \in Requests : IsFilled(req[r])

\* A flow is answered by its issuer, and known to the browser that began it only.
FlowsAreTheirs ==
  /\ \A f \in Flows : answer[f] # None =>
       flows[f] # NotBegun /\ IssuerOf[answer[f]] = flows[f].issuer
  /\ \A b \in Browsers : cookie[b].flow # None => flows[cookie[b].flow].browser = b
  /\ \A r \in Requests : req[r].session.flow # None =>
       flows[req[r].session.flow].browser = req[r].browser

\* An account that is gone has no link; only the portal deactivates accounts.
AccountsAreWhole ==
  \A u \in Names :
    /\ ~users[u].stands => users[u].link = Unlinked
    /\ "deactivated" \notin disturbed /\ users[u].stands => users[u].active

LoginInv ==
  /\ TypeOK
  /\ RequestsAreFilled
  /\ OnlyItsOwnFlow
  /\ FlowsAreTheirs
  /\ AccountsAreWhole

USE DEF InFlow, LookedUp, Exchanged, Unmatched

-----------------------------------------------------------------------------
(* How a request goes on.                                                  *)

\* The request a callback's step leaves: the same flow of the same browser.
Continues(q, p) ==
  /\ q \in RequestRecord
  /\ q.browser = p.browser /\ q.session = p.session /\ q.flow = p.flow

LEMMA IdleRecord == Idle \in RequestRecord /\ IsFilled(Idle) /\ Idle.browser = None
                    /\ Idle.at = "idle" /\ Idle.session = Anonymous /\ Idle.session.flow = None
BY DEF Idle, RequestRecord, Places, Anonymous, Session, IsFilled

LEMMA Going ==
  ASSUME NEW r \in Requests, req[r] \in RequestRecord, NEW place \in Places, Goto(r, place)
  PROVE  \E q : /\ Continues(q, req[r]) /\ q.at = place
                /\ q.id = req[r].id /\ q.issuer = req[r].issuer
                /\ req' = [req EXCEPT ![r] = q]
<1> DEFINE q == [req[r] EXCEPT !.at = place]
<1>1. req' = [req EXCEPT ![r] = q]
  BY Zenon DEF Goto
<1>2. Continues(q, req[r]) /\ q.at = place /\ q.id = req[r].id /\ q.issuer = req[r].issuer
  BY DEF RequestRecord, Continues
<1>3. QED
  BY <1>1, <1>2

GoesOnAs(r, place, u) == req' = [req EXCEPT ![r].at = place, ![r].user = u]

LEMMA Entering ==
  \A r \in Requests, place \in Places, u \in Names :
    req[r] \in RequestRecord /\ GoesOnAs(r, place, u) =>
      \E q : /\ Continues(q, req[r]) /\ q.at = place /\ q.user = u
             /\ q.id = req[r].id /\ q.issuer = req[r].issuer
             /\ req' = [req EXCEPT ![r] = q]
<1> SUFFICES ASSUME NEW r \in Requests, NEW place \in Places, NEW u \in Names,
                    req[r] \in RequestRecord, GoesOnAs(r, place, u)
             PROVE  \E q : /\ Continues(q, req[r]) /\ q.at = place /\ q.user = u
                           /\ q.id = req[r].id /\ q.issuer = req[r].issuer
                           /\ req' = [req EXCEPT ![r] = q]
  OBVIOUS
<1> DEFINE q == [req[r] EXCEPT !.at = place, !.user = u]
<1>1. req' = [req EXCEPT ![r] = q]
  BY Zenon DEF GoesOnAs
<1>2. /\ Continues(q, req[r]) /\ q.at = place /\ q.user = u
      /\ q.id = req[r].id /\ q.issuer = req[r].issuer
  BY DEF RequestRecord, Continues
<1>3. QED
  BY <1>1, <1>2

\* The types of what the steps read.
LEMMA Reads ==
  ASSUME TypeOK, RequestsAreFilled, FlowsAreTheirs, NEW r \in Requests
  PROVE  /\ req[r] \in RequestRecord
         /\ IsFilled(req[r])
         /\ req[r].at \in InFlow =>
              /\ req[r].flow \in Flows
              /\ Who(r) \in Identities
              /\ flows[req[r].flow] # NotBegun
              /\ flows[req[r].flow].provider \in Providers
              /\ IssuerOf[Who(r)] = flows[req[r].flow].issuer
<1>1. req[r] \in RequestRecord /\ IsFilled(req[r])
  BY DEF TypeOK, RequestsAreFilled
<1>2. ASSUME req[r].at \in InFlow
      PROVE  /\ req[r].flow \in Flows /\ Who(r) \in Identities
             /\ flows[req[r].flow] # NotBegun
             /\ IssuerOf[Who(r)] = flows[req[r].flow].issuer
  <2>1. req[r].flow \in Flows /\ answer[req[r].flow] # None
    BY <1>1, <1>2 DEF IsFilled
  <2>2. answer[req[r].flow] \in Identities
    BY <2>1 DEF TypeOK
  <2>3. QED
    BY <2>1, <2>2 DEF FlowsAreTheirs, Who
<1>3. ASSUME req[r].at \in InFlow
      PROVE  flows[req[r].flow].provider \in Providers
  <2> DEFINE f == req[r].flow
  <2>1. f \in Flows /\ flows[f] # NotBegun
    BY <1>2, <1>3
  <2> HIDE DEF f
  <2>2. flows[f] \in [browser : Browsers, provider : Providers, issuer : Issuers]
    BY <2>1 DEF TypeOK
  <2>3. flows[f].provider \in Providers
    BY <2>2
  <2>4. QED
    BY <2>3 DEF f
<1>4. QED
  BY <1>1, <1>2, <1>3

LEMMA FindProviderStep ==
  ASSUME TypeOK, RequestsAreFilled, FlowsAreTheirs, NEW r \in Requests, FindProvider(r)
  PROVE  \/ Finish(r)
         \/ \E q : /\ req' = [req EXCEPT ![r] = q]
                   /\ Continues(q, req[r]) /\ IsFilled(q) /\ q.at = "exchange"
                   /\ IsRow(q.id) /\ providers[q.id].issuer = q.issuer
<1>1. SUFFICES ASSUME NEW id \in Ids,
                      providers[id].name = flows[req[r].flow].provider,
                      req' = [req EXCEPT ![r].at = "exchange", ![r].id = id,
                                         ![r].issuer = providers[id].issuer]
               PROVE  \E q : /\ req' = [req EXCEPT ![r] = q]
                             /\ Continues(q, req[r]) /\ IsFilled(q) /\ q.at = "exchange"
                             /\ IsRow(q.id) /\ providers[q.id].issuer = q.issuer
  BY DEF FindProvider, Refuse, Reply
<1> DEFINE q == [req[r] EXCEPT !.at = "exchange", !.id = id, !.issuer = providers[id].issuer]
<1>2. req' = [req EXCEPT ![r] = q]
  BY <1>1, Zenon
<1>3. req[r].at = "callback"
  BY DEF FindProvider, At
<1>4. providers[id].name \in Providers
  BY <1>1, <1>3, Reads
<1>5. IsRow(id) /\ providers[id].issuer \in Issuers
  <2>1. providers[id] \in {NoRow} \cup [name : Providers, issuer : Issuers, enabled : BOOLEAN]
    BY DEF TypeOK
  <2>2. NoRow.name = None
    BY DEF NoRow
  <2>3. QED
    BY <1>4, <2>1, <2>2, OidcAssumption DEF IsRow
<1>6. /\ Continues(q, req[r]) /\ q.at = "exchange"
      /\ q.id = id /\ q.issuer = providers[id].issuer
  <2>1. req[r] \in RequestRecord
    BY Reads
  <2>2. QED
    BY <1>5, <2>1 DEF Continues, RequestRecord, Places
<1> HIDE DEF q
<1>7. IsFilled(q)
  BY <1>3, <1>6, Reads DEF IsFilled, Continues
<1>8. QED
  BY <1>2, <1>5, <1>6, <1>7

LEMMA ExchangeStep ==
  ASSUME TypeOK, RequestsAreFilled, FlowsAreTheirs, NEW r \in Requests, Exchange(r)
  PROVE  \/ Finish(r)
         \/ \E q : /\ req' = [req EXCEPT ![r] = q]
                   /\ Continues(q, req[r]) /\ IsFilled(q) /\ q.at = "findLink"
                   /\ q.id = req[r].id /\ q.issuer = req[r].issuer
<1>1. SUFFICES ASSUME req[r].issuer = flows[req[r].flow].issuer, Goto(r, "findLink")
               PROVE  \E q : /\ req' = [req EXCEPT ![r] = q]
                             /\ Continues(q, req[r]) /\ IsFilled(q) /\ q.at = "findLink"
                             /\ q.id = req[r].id /\ q.issuer = req[r].issuer
  BY DEF Exchange, Refuse, Reply
<1>2. PICK q : /\ Continues(q, req[r]) /\ q.at = "findLink"
               /\ q.id = req[r].id /\ q.issuer = req[r].issuer
               /\ req' = [req EXCEPT ![r] = q]
  BY <1>1, Reads, Going DEF Places
<1>3. req[r].at = "exchange"
  BY DEF Exchange, At
<1>4. IsFilled(q)
  BY <1>1, <1>2, <1>3, Reads DEF IsFilled, Continues
<1>5. QED
  BY <1>2, <1>4

LEMMA FindLinkStep ==
  ASSUME TypeOK, RequestsAreFilled, FlowsAreTheirs, NEW r \in Requests, FindLink(r)
  PROVE  \/ Finish(r)
         \/ \E q : /\ req' = [req EXCEPT ![r] = q]
                   /\ Continues(q, req[r]) /\ IsFilled(q)
                   /\ q.id = req[r].id /\ q.issuer = req[r].issuer
                   /\ \/ q.at = "welcome" /\ q.user \in LinkedTo(q.id, SubOf[Who(r)])
                      \/ /\ q.at \in {"findEmail", "create"}
                         /\ \A u \in LinkedTo(q.id, SubOf[Who(r)]) : ~IsActive(u)
<1> DEFINE accounts  == LinkedTo(req[r].id, SubOf[Who(r)])
           otherwise == IF EmailOf[Who(r)] = None THEN "create" ELSE "findEmail"
<1>1. req[r].at = "findLink" /\ otherwise \in Places /\ accounts \subseteq Names
  BY DEF FindLink, At, Places, LinkedTo
<1>2. \/ Finish(r)
      \/ \E u \in accounts : GoesOnAs(r, "welcome", u)
      \/ (\A u \in accounts : ~IsActive(u)) /\ Goto(r, otherwise)
  BY DEF FindLink, Found, GoesOnAs
<1> HIDE DEF accounts
<1>3. ASSUME NEW u \in accounts, GoesOnAs(r, "welcome", u)
      PROVE  \E q : /\ req' = [req EXCEPT ![r] = q]
                    /\ Continues(q, req[r]) /\ IsFilled(q)
                    /\ q.id = req[r].id /\ q.issuer = req[r].issuer
                    /\ q.at = "welcome" /\ q.user \in accounts
  <2>1. PICK q : /\ Continues(q, req[r]) /\ q.at = "welcome" /\ q.user = u
                 /\ q.id = req[r].id /\ q.issuer = req[r].issuer
                 /\ req' = [req EXCEPT ![r] = q]
    <3>1. u \in Names
      BY <1>1
    <3>2. req[r] \in RequestRecord /\ "welcome" \in Places /\ "link" \in Places
      BY Reads DEF Places
    <3>3. QED
      BY <1>3, <3>1, <3>2, Entering
  <2>2. IsFilled(q)
    BY <1>1, <2>1, Reads DEF IsFilled, Continues
  <2>3. QED
    BY <2>1, <2>2
<1>4. ASSUME Goto(r, otherwise)
      PROVE  \E q : /\ req' = [req EXCEPT ![r] = q]
                    /\ Continues(q, req[r]) /\ IsFilled(q)
                    /\ q.id = req[r].id /\ q.issuer = req[r].issuer
                    /\ q.at \in {"findEmail", "create"}
  <2>1. PICK q : /\ Continues(q, req[r]) /\ q.at = otherwise
                 /\ q.id = req[r].id /\ q.issuer = req[r].issuer
                 /\ req' = [req EXCEPT ![r] = q]
    BY <1>1, <1>4, Reads, Going
  <2>2. IsFilled(q)
    BY <1>1, <2>1, Reads DEF IsFilled, Continues, Who
  <2>3. QED
    BY <2>1, <2>2
<1>5. QED
  BY <1>2, <1>3, <1>4 DEF accounts

LEMMA FindEmailStep ==
  ASSUME TypeOK, RequestsAreFilled, FlowsAreTheirs, NEW r \in Requests, FindEmail(r)
  PROVE  \/ Finish(r)
         \/ \E q : /\ req' = [req EXCEPT ![r] = q]
                   /\ Continues(q, req[r]) /\ IsFilled(q)
                   /\ q.id = req[r].id /\ q.issuer = req[r].issuer
                   /\ q.at \in {"link", "create"}
<1> DEFINE accounts == WithEmail(EmailOf[Who(r)])
<1>1. req[r].at = "findEmail" /\ accounts \subseteq Names
  BY DEF FindEmail, At, WithEmail
<1>2. \/ Finish(r)
      \/ \E u \in accounts : GoesOnAs(r, "link", u)
      \/ Goto(r, "create")
  BY DEF FindEmail, Found, GoesOnAs
<1> HIDE DEF accounts
<1>3. ASSUME NEW u \in accounts, GoesOnAs(r, "link", u)
      PROVE  \E q : /\ req' = [req EXCEPT ![r] = q]
                    /\ Continues(q, req[r]) /\ IsFilled(q)
                    /\ q.id = req[r].id /\ q.issuer = req[r].issuer
                    /\ q.at = "link"
  <2>1. PICK q : /\ Continues(q, req[r]) /\ q.at = "link" /\ q.user = u
                 /\ q.id = req[r].id /\ q.issuer = req[r].issuer
                 /\ req' = [req EXCEPT ![r] = q]
    <3>1. u \in Names
      BY <1>1
    <3>2. req[r] \in RequestRecord /\ "welcome" \in Places /\ "link" \in Places
      BY Reads DEF Places
    <3>3. QED
      BY <1>3, <3>1, <3>2, Entering
  <2>2. IsFilled(q)
    BY <1>1, <2>1, Reads DEF IsFilled, Continues
  <2>3. QED
    BY <2>1, <2>2
<1>4. ASSUME Goto(r, "create")
      PROVE  \E q : /\ req' = [req EXCEPT ![r] = q]
                    /\ Continues(q, req[r]) /\ IsFilled(q)
                    /\ q.id = req[r].id /\ q.issuer = req[r].issuer
                    /\ q.at = "create"
  <2>1. PICK q : /\ Continues(q, req[r]) /\ q.at = "create"
                 /\ q.id = req[r].id /\ q.issuer = req[r].issuer
                 /\ req' = [req EXCEPT ![r] = q]
    BY <1>4, Reads, Going DEF Places
  <2>2. IsFilled(q)
    BY <1>1, <2>1, Reads DEF IsFilled, Continues
  <2>3. QED
    BY <2>1, <2>2
<1>5. QED
  BY <1>2, <1>3, <1>4

\* What Link and Create do to the tables, besides going on with the account u.
Writes(r, u) ==
  /\ ProviderStands(r)
  /\ users' \in [Names -> Account]
  /\ \A v \in Names \ {u} : users'[v] = users[v]
  /\ users'[u].link = <<req[r].id, SubOf[Who(r)]>>
  /\ users'[u].stands
  /\ users[u].stands => users'[u].active = users[u].active
  /\ ~users[u].stands => users'[u].active
  /\ entitled' \in [Names -> SUBSET Identities]
  /\ Who(r) \in entitled'[u]
  /\ \A v \in Names \ {u} : entitled'[v] = entitled[v]

LEMMA NewAccount ==
  ASSUME NEW account \in Account, NEW id \in Ids, NEW i \in Identities
  PROVE  /\ [account EXCEPT !.link = <<id, SubOf[i]>>] \in Account
         /\ [account EXCEPT !.link = <<id, SubOf[i]>>].link = <<id, SubOf[i]>>
         /\ [account EXCEPT !.link = <<id, SubOf[i]>>].stands = account.stands
         /\ [account EXCEPT !.link = <<id, SubOf[i]>>].active = account.active
<1>1. <<id, SubOf[i]>> \in (Ids \X Subs) \cup {Unlinked}
  BY DEF Subs
<1>2. QED
  BY <1>1 DEF Account

LEMMA WrittenWrites ==
  ASSUME TypeOK, NEW r \in Requests, NEW u \in Names, NEW account \in Account, account.stands,
         NEW persons \in SUBSET Identities, req[r].id \in Ids, Who(r) \in Identities,
         users[u].stands => account.active = users[u].active,
         ~users[u].stands => account.active,
         ProviderStands(r), Written(r, u, account, persons)
  PROVE  Writes(r, u) /\ GoesOnAs(r, "welcome", u)
<1> DEFINE new == [account EXCEPT !.link = <<req[r].id, SubOf[Who(r)]>>]
<1>1. /\ new \in Account /\ new.link = <<req[r].id, SubOf[Who(r)]>>
      /\ new.stands = account.stands /\ new.active = account.active
  BY NewAccount
<1>2. /\ users' = [users EXCEPT ![u] = new]
      /\ entitled' = [entitled EXCEPT ![u] = persons \cup {Who(r)}]
      /\ GoesOnAs(r, "welcome", u)
  BY DEF Written, GoesOnAs
<1> HIDE DEF new
<1>3. QED
  BY <1>1, <1>2 DEF Writes, TypeOK

LEMMA AccountIsWritten ==
  ASSUME TypeOK, RequestsAreFilled, FlowsAreTheirs, NEW r \in Requests, Link(r) \/ Create(r)
  PROVE  \/ Finish(r) /\ UNCHANGED <<users, entitled>>
         \/ \E u \in Names : Writes(r, u) /\ GoesOnAs(r, "welcome", u)
<1>1. req[r].id \in Ids /\ Who(r) \in Identities
  BY Reads DEF Link, Create, At, IsFilled
<1>2. users \in [Names -> Account] /\ entitled \in [Names -> SUBSET Identities]
  BY DEF TypeOK
<1>3. CASE Link(r)
  <2> DEFINE u == req[r].user
  <2>1. u \in Names
    BY <1>3, Reads DEF Link, At, IsFilled
  <2>2. ASSUME users[u].stands, ProviderStands(r), Written(r, u, users[u], entitled[u])
        PROVE  Writes(r, u) /\ GoesOnAs(r, "welcome", u)
    BY <1>1, <1>2, <2>1, <2>2, WrittenWrites
  <2>3. QED
    BY <1>3, <2>1, <2>2 DEF Link
<1>4. CASE Create(r)
  <2> DEFINE u       == NameFor(Who(r), flows[req[r].flow].provider)
             account == [NoUser EXCEPT !.stands = TRUE, !.active = TRUE,
                                       !.email = EmailOf[Who(r)]]
  <2>1. u \in Names
    BY <1>1, <1>4, Reads DEF Create, At, Names
  <2>2. account \in Account /\ account.stands /\ account.active
    BY <1>1, OidcAssumption DEF NoUser, Account
  <2>3. ASSUME ~users[u].stands, ProviderStands(r), Written(r, u, account, {})
        PROVE  Writes(r, u) /\ GoesOnAs(r, "welcome", u)
    <3> HIDE DEF u, account
    <3>1. QED
      BY <1>1, <2>1, <2>2, <2>3, WrittenWrites
  <2>4. QED
    BY <1>4, <2>1, <2>3 DEF Create
<1>5. QED
  BY <1>3, <1>4

LEMMA CallbackStep ==
  ASSUME TypeOK, RequestsAreFilled, FlowsAreTheirs, NEW r \in Requests,
         \/ FindProvider(r) \/ Exchange(r) \/ FindLink(r) \/ FindEmail(r) \/ Link(r) \/ Create(r)
  PROVE  /\ req[r].at \in InFlow
         /\ \/ Finish(r)
            \/ \E q : /\ req' = [req EXCEPT ![r] = q]
                      /\ Continues(q, req[r]) /\ IsFilled(q) /\ q.at \in InFlow
<1>1. req[r].at \in InFlow
  BY DEF FindProvider, Exchange, FindLink, FindEmail, Link, Create, At
<1>2. ASSUME FindProvider(r) \/ Exchange(r) \/ FindLink(r) \/ FindEmail(r)
      PROVE  \/ Finish(r)
             \/ \E q : /\ req' = [req EXCEPT ![r] = q]
                       /\ Continues(q, req[r]) /\ IsFilled(q) /\ q.at \in InFlow
  <2>1. CASE FindProvider(r)
    BY <2>1, FindProviderStep
  <2>2. CASE Exchange(r)
    BY <2>2, ExchangeStep
  <2>3. CASE FindLink(r)
    BY <2>3, FindLinkStep
  <2>4. CASE FindEmail(r)
    BY <2>4, FindEmailStep
  <2>5. QED
    BY <1>2, <2>1, <2>2, <2>3, <2>4
<1>3. ASSUME NEW u \in Names, GoesOnAs(r, "welcome", u)
      PROVE  \E q : /\ req' = [req EXCEPT ![r] = q]
                    /\ Continues(q, req[r]) /\ IsFilled(q) /\ q.at \in InFlow
  <2>1. req[r] \in RequestRecord /\ IsFilled(req[r]) /\ "welcome" \in Places
    BY Reads DEF Places
  <2>2. PICK q : /\ Continues(q, req[r]) /\ q.at = "welcome" /\ q.user = u
                 /\ req' = [req EXCEPT ![r] = q]
    BY <1>3, <2>1, Entering
  <2>3. IsFilled(q)
    BY <1>1, <2>1, <2>2 DEF IsFilled, Continues
  <2>4. QED
    BY <2>2, <2>3
<1>4. QED
  BY <1>1, <1>2, <1>3, AccountIsWritten

-----------------------------------------------------------------------------
(* Whose flow it is.                                                       *)

FlowInv == RequestsAreFilled /\ OnlyItsOwnFlow /\ FlowsAreTheirs

\* q may take the place of any request of its browser.
MayStand(q) ==
  /\ q \in RequestRecord /\ IsFilled(q)
  /\ q.at \in InFlow => flows[q.flow].browser = q.browser
  /\ q.session.flow # None => flows[q.session.flow].browser = q.browser

LEMMA IdleMayStand == MayStand(Idle)
BY IdleRecord DEF MayStand

LEMMA RequestStep ==
  ASSUME TypeOK, FlowInv, NEW r \in Requests, NEW q, MayStand(q),
         req' = [req EXCEPT ![r] = q], UNCHANGED <<flows, answer>>,
         \A b \in Browsers : cookie'[b].flow # None => flows[cookie'[b].flow].browser = b
  PROVE  FlowInv' /\ req' \in [Requests -> RequestRecord]
<1>1. /\ req'[r] = q /\ \A s \in Requests \ {r} : req'[s] = req[s]
      /\ req' \in [Requests -> RequestRecord]
  BY DEF TypeOK, MayStand
<1>2. RequestsAreFilled'
  BY <1>1 DEF FlowInv, RequestsAreFilled, IsFilled, MayStand
<1>3. OnlyItsOwnFlow'
  BY <1>1 DEF FlowInv, OnlyItsOwnFlow, MayStand
<1>4. FlowsAreTheirs'
  BY <1>1 DEF FlowInv, FlowsAreTheirs, MayStand
<1>5. QED
  BY <1>1, <1>2, <1>3, <1>4 DEF FlowInv

\* An answer that sets the cookie.
LEMMA ReplyStep ==
  ASSUME TypeOK, FlowInv, NEW r \in Requests, NEW session \in Session, Reply(r, session),
         UNCHANGED <<flows, answer>>, req[r].browser \in Browsers,
         session.flow # None => flows[session.flow].browser = req[r].browser
  PROVE  /\ FlowInv' /\ req' \in [Requests -> RequestRecord]
         /\ cookie' \in [Browsers -> Session]
<1>1. cookie' = [cookie EXCEPT ![req[r].browser] = session] /\ req' = [req EXCEPT ![r] = Idle]
  BY DEF Reply, Finish
<1>2. /\ cookie' \in [Browsers -> Session]
      /\ \A b \in Browsers : cookie'[b].flow # None => flows[cookie'[b].flow].browser = b
  BY <1>1 DEF TypeOK, FlowInv, FlowsAreTheirs
<1>3. QED
  BY <1>1, <1>2, RequestStep, IdleMayStand

LEMMA FinishStep ==
  ASSUME TypeOK, FlowInv, NEW r \in Requests, Finish(r), UNCHANGED <<cookie, flows, answer>>
  PROVE  FlowInv' /\ req' \in [Requests -> RequestRecord]
BY RequestStep, IdleMayStand DEF Finish, FlowInv, FlowsAreTheirs

\* An answer of a handler that changed nothing.
LEMMA RefuseStep ==
  ASSUME TypeOK, FlowInv, NEW r \in Requests, Refuse(r), UNCHANGED <<flows, answer>>,
         req[r].at # "idle"
  PROVE  /\ FlowInv' /\ req' \in [Requests -> RequestRecord]
         /\ cookie' \in [Browsers -> Session]
<1>1. CASE Finish(r) /\ UNCHANGED cookie
  BY <1>1, FinishStep DEF TypeOK
<1>2. CASE Reply(r, req[r].session)
  <2>1. req[r].session \in Session /\ req[r].browser \in Browsers
    BY Reads DEF FlowInv, IsFilled, RequestRecord
  <2>2. req[r].session.flow # None => flows[req[r].session.flow].browser = req[r].browser
    BY DEF FlowInv, FlowsAreTheirs
  <2>3. QED
    BY <1>2, <2>1, <2>2, ReplyStep
<1>3. QED
  BY <1>1, <1>2 DEF Refuse

\* A request that begins, with its browser's session.
LEMMA BeginStep ==
  ASSUME TypeOK, FlowInv, NEW r \in Requests, NEW b \in Browsers, NEW ask, Begin(r, b, ask),
         ask \in RequestRecord, ask.at \in {"login", "logout", "authorize", "callback"},
         ask.at = "login" => ask.name \in Locals,
         ask.at = "callback" =>
           ask.flow \in Flows /\ answer[ask.flow] # None /\ cookie[b].flow = ask.flow
  PROVE  FlowInv' /\ req' \in [Requests -> RequestRecord]
<1> DEFINE q == [ask EXCEPT !.browser = b, !.session = cookie[b]]
<1>1. /\ q \in RequestRecord /\ q.browser = b /\ q.session = cookie[b]
      /\ q.at = ask.at /\ q.name = ask.name /\ q.flow = ask.flow
  BY DEF TypeOK, RequestRecord
<1>2. req' = [req EXCEPT ![r] = q] /\ UNCHANGED <<cookie, flows, answer>>
  BY DEF Begin, outside
<1>3. \A c \in Browsers : cookie[c].flow # None => flows[cookie[c].flow].browser = c
  BY DEF FlowInv, FlowsAreTheirs
<1> HIDE DEF q
<1>4. IsFilled(q)
  BY <1>1 DEF IsFilled
<1>5. q.at \in InFlow => flows[q.flow].browser = q.browser
  <2>1. ASSUME q.at = "callback" PROVE flows[q.flow].browser = b
    <3>1. cookie[b].flow = q.flow /\ q.flow \in Flows
      BY <1>1, <2>1
    <3>2. cookie[b].flow # None
      BY <3>1, OidcAssumption
    <3>3. QED
      BY <1>3, <3>1, <3>2
  <2>2. QED
    BY <1>1, <2>1
<1>6. MayStand(q)
  BY <1>1, <1>3, <1>4, <1>5 DEF MayStand
<1>7. QED
  BY <1>2, <1>3, <1>6, RequestStep

LEMMA AskStep ==
  ASSUME TypeOK, FlowInv, NEW r \in Requests, Ask(r)
  PROVE  FlowInv' /\ req' \in [Requests -> RequestRecord]
<1>1. PICK b \in Browsers :
        AskLogin(r, b) \/ AskLogout(r, b) \/ AskAuthorize(r, b) \/ AskCallback(r, b)
  BY DEF Ask
<1>2. CASE AskLogin(r, b)
  <2>1. PICK u \in Locals : Begin(r, b, [Idle EXCEPT !.at = "login", !.name = u])
    BY <1>2 DEF AskLogin
  <2> DEFINE ask == [Idle EXCEPT !.at = "login", !.name = u]
  <2>2. ask \in RequestRecord /\ ask.at = "login" /\ ask.name = u
    <3>1. u \in Names
      BY DEF Names
    <3>2. QED
      BY <3>1, IdleRecord DEF RequestRecord, Places
  <2> HIDE DEF ask
  <2>3. Begin(r, b, ask)
    BY <2>1 DEF ask
  <2>4. QED
    BY <2>2, <2>3, BeginStep
<1>3. CASE AskLogout(r, b)
  <2> DEFINE ask == [Idle EXCEPT !.at = "logout"]
  <2>1. ask \in RequestRecord /\ ask.at = "logout"
    BY IdleRecord DEF RequestRecord, Places
  <2>2. Begin(r, b, ask)
    BY <1>3 DEF AskLogout
  <2> HIDE DEF ask
  <2>3. QED
    BY <2>1, <2>2, BeginStep
<1>4. CASE AskAuthorize(r, b)
  <2>1. PICK p \in Providers : Begin(r, b, [Idle EXCEPT !.at = "authorize", !.name = p])
    BY <1>4 DEF AskAuthorize
  <2> DEFINE ask == [Idle EXCEPT !.at = "authorize", !.name = p]
  <2>2. ask \in RequestRecord /\ ask.at = "authorize"
    BY IdleRecord DEF RequestRecord, Places
  <2> HIDE DEF ask
  <2>3. Begin(r, b, ask)
    BY <2>1 DEF ask
  <2>4. QED
    BY <2>2, <2>3, BeginStep
<1>5. CASE AskCallback(r, b)
  <2>1. PICK f \in Flows : /\ answer[f] # None /\ cookie[b].flow = f
                          /\ Begin(r, b, [Idle EXCEPT !.at = "callback", !.flow = f])
    BY <1>5 DEF AskCallback, FlowIsOwn
  <2> DEFINE ask == [Idle EXCEPT !.at = "callback", !.flow = f]
  <2>2. ask \in RequestRecord /\ ask.at = "callback" /\ ask.flow = f
    BY IdleRecord DEF RequestRecord, Places
  <2> HIDE DEF ask
  <2>3. Begin(r, b, ask)
    BY <2>1 DEF ask
  <2>4. QED
    BY <2>1, <2>2, <2>3, BeginStep
<1>6. QED
  BY <1>1, <1>2, <1>3, <1>4, <1>5

LEMMA AnswerStep ==
  ASSUME TypeOK, FlowInv, NEW r \in Requests, Login(r) \/ Logout(r) \/ Welcome(r)
  PROVE  /\ FlowInv' /\ req' \in [Requests -> RequestRecord]
         /\ cookie' \in [Browsers -> Session]
<1>1. /\ req[r].browser \in Browsers /\ req[r].session \in Session
      /\ req[r].session.flow # None => flows[req[r].session.flow].browser = req[r].browser
      /\ req[r].at = "login" => req[r].name \in Names
      /\ req[r].at = "welcome" => req[r].user \in Names
      /\ UNCHANGED <<flows, answer>>
  <2>1. req[r] \in RequestRecord /\ IsFilled(req[r])
    BY Reads DEF FlowInv
  <2>2. UNCHANGED <<flows, answer>> /\ req[r].at \in {"login", "logout", "welcome"}
    BY DEF Login, Logout, Welcome, outside, At
  <2>3. QED
    BY <2>1, <2>2 DEF IsFilled, RequestRecord, Names, FlowInv, FlowsAreTheirs
<1>2. CASE Refuse(r) /\ req[r].at # "idle"
  BY <1>1, <1>2, RefuseStep
<1>3. ASSUME NEW u \in Names \cup {None}, Reply(r, [req[r].session EXCEPT !.user = u])
      PROVE  /\ FlowInv' /\ req' \in [Requests -> RequestRecord]
             /\ cookie' \in [Browsers -> Session]
  <2> DEFINE session == [req[r].session EXCEPT !.user = u]
  <2>1. session \in Session /\ session.flow = req[r].session.flow
    BY <1>1 DEF Session
  <2> HIDE DEF session
  <2>2. Reply(r, session)
    BY <1>3 DEF session
  <2>3. QED
    BY <1>1, <2>1, <2>2, ReplyStep
<1>4. CASE Welcome(r)
  <2> DEFINE session == [user |-> req[r].user, flow |-> None]
  <2>1. session \in Session /\ session.flow = None
    BY <1>1, <1>4 DEF Session, Welcome, At
  <2> HIDE DEF session
  <2>2. Reply(r, session)
    BY <1>4 DEF Welcome, session
  <2>3. QED
    BY <1>1, <2>1, <2>2, ReplyStep
<1>5. CASE Login(r)
  BY <1>1, <1>2, <1>3, <1>5 DEF Login, Named, At
<1>6. CASE Logout(r)
  BY <1>3, <1>6 DEF Logout, Unnamed
<1>7. QED
  BY <1>4, <1>5, <1>6

\* A flow begins, with an answer that makes it the browser's: nobody knew it.
LEMMA AuthorizeStep ==
  ASSUME TypeOK, FlowInv, NEW r \in Requests, Authorize(r)
  PROVE  /\ FlowInv' /\ req' \in [Requests -> RequestRecord]
         /\ cookie' \in [Browsers -> Session]
         /\ flows' \in [Flows -> {NotBegun} \cup
                               [browser : Browsers, provider : Providers, issuer : Issuers]]
<1>1. CASE Refuse(r) /\ UNCHANGED flows
  BY <1>1, RefuseStep DEF Authorize, At, outside, TypeOK
<1>2. ASSUME NEW id \in Ids, NEW f \in Flows, providers[id].name = req[r].name,
             providers[id].enabled, flows[f] = NotBegun,
             flows' = [flows EXCEPT ![f] =
               [browser |-> req[r].browser, provider |-> req[r].name,
                issuer |-> providers[id].issuer]],
             Reply(r, Began(req[r].session, f))
      PROVE  /\ FlowInv' /\ req' \in [Requests -> RequestRecord]
             /\ cookie' \in [Browsers -> Session]
             /\ flows' \in [Flows -> {NotBegun} \cup
                                   [browser : Browsers, provider : Providers, issuer : Issuers]]
  <2> DEFINE b       == req[r].browser
             session == [req[r].session EXCEPT !.flow = f]
             flow    == [browser |-> b, provider |-> req[r].name, issuer |-> providers[id].issuer]
  <2>1. b \in Browsers /\ req[r].session \in Session /\ UNCHANGED answer
    BY Reads DEF FlowInv, IsFilled, RequestRecord, Authorize, At, outside
  <2>2. /\ req' = [req EXCEPT ![r] = Idle]
        /\ cookie' = [cookie EXCEPT ![b] = session]
    BY <1>2 DEF Reply, Finish, Began
  <2>3. session \in Session /\ session.flow = f
    BY <2>1 DEF Session
  <2>4. flow \in [browser : Browsers, provider : Providers, issuer : Issuers] /\ flow.browser = b
    <3>1. providers[id] \in [name : Providers, issuer : Issuers, enabled : BOOLEAN]
      BY <1>2 DEF TypeOK, NoRow
    <3>2. QED
      BY <1>2, <2>1, <3>1
  <2>5. NotBegun.browser = None
    BY DEF NotBegun
  <2> HIDE DEF session, flow
  <2>6. flows' = [flows EXCEPT ![f] = flow]
    BY <1>2 DEF flow
  <2>7. /\ flows'[f] = flow /\ \A g \in Flows \ {f} : flows'[g] = flows[g]
        /\ flows' \in [Flows -> {NotBegun} \cup
                              [browser : Browsers, provider : Providers, issuer : Issuers]]
    BY <2>4, <2>6 DEF TypeOK
  <2>8. /\ \A g \in Flows : flows[g].browser \in Browsers => g # f
        /\ \A g \in Flows : answer[g] # None => g # f
    BY <1>2, <2>5, OidcAssumption DEF FlowInv, FlowsAreTheirs
  <2>9. /\ req'[r] = Idle /\ \A s \in Requests \ {r} : req'[s] = req[s]
        /\ req' \in [Requests -> RequestRecord]
    BY <2>2, IdleRecord DEF TypeOK
  <2>10. /\ cookie' \in [Browsers -> Session]
         /\ cookie'[b] = session /\ \A c \in Browsers \ {b} : cookie'[c] = cookie[c]
    BY <2>1, <2>2, <2>3 DEF TypeOK
  <2>11. ASSUME NEW s \in Requests
         PROVE  /\ IsFilled(req[s])'
                /\ req'[s].at \in InFlow => flows'[req'[s].flow].browser = req'[s].browser
                /\ req'[s].session.flow # None =>
                     flows'[req'[s].session.flow].browser = req'[s].browser
    <3>1. CASE s = r
      BY <2>9, <3>1, IdleRecord DEF IsFilled
    <3>2. CASE s # r
      <4>1. req[s] \in RequestRecord /\ IsFilled(req[s]) /\ req'[s] = req[s]
        BY <2>9, <3>2, Reads DEF FlowInv
      <4>2. req[s].at \in InFlow =>
              /\ req[s].flow \in Flows \ {f}
              /\ flows[req[s].flow].browser = req[s].browser
        BY <2>8, <4>1 DEF FlowInv, OnlyItsOwnFlow, IsFilled
      <4>3. req[s].session.flow # None =>
              /\ req[s].session.flow \in Flows \ {f}
              /\ flows[req[s].session.flow].browser = req[s].browser
        <5>1. SUFFICES ASSUME req[s].session.flow # None
                       PROVE  /\ req[s].session.flow \in Flows \ {f}
                              /\ flows[req[s].session.flow].browser = req[s].browser
          OBVIOUS
        <5>2. req[s].session.flow \in Flows /\ req[s].at # "idle"
          BY <4>1, <5>1, IdleRecord DEF RequestRecord, Session, IsFilled
        <5>3. flows[req[s].session.flow].browser = req[s].browser
          BY <5>1 DEF FlowInv, FlowsAreTheirs
        <5>4. QED
          BY <2>8, <4>1, <5>2, <5>3 DEF IsFilled
      <4>4. IsFilled(req[s])'
        BY <2>1, <2>7, <4>1, <4>2 DEF IsFilled
      <4>5. QED
        BY <2>7, <4>1, <4>2, <4>3, <4>4
    <3>3. QED
      BY <3>1, <3>2
  <2>12. RequestsAreFilled'
    BY <2>11 DEF RequestsAreFilled
  <2>13. OnlyItsOwnFlow'
    BY <2>11 DEF OnlyItsOwnFlow
  <2>14. FlowsAreTheirs'
    <3>1. \A g \in Flows : answer'[g] # None =>
            flows'[g] # NotBegun /\ IssuerOf[answer'[g]] = flows'[g].issuer
      BY <2>1, <2>7, <2>8 DEF FlowInv, FlowsAreTheirs
    <3>2. ASSUME NEW c \in Browsers, cookie'[c].flow # None
          PROVE  flows'[cookie'[c].flow].browser = c
      <4>1. CASE c = b
        BY <2>3, <2>4, <2>7, <2>10, <4>1
      <4>2. CASE c # b
        <5>1. cookie'[c] = cookie[c] /\ cookie[c].flow \in Flows
          BY <2>10, <3>2, <4>2 DEF TypeOK, Session
        <5>2. flows[cookie[c].flow].browser = c
          BY <3>2, <5>1 DEF FlowInv, FlowsAreTheirs
        <5>3. QED
          BY <2>7, <2>8, <5>1, <5>2
      <4>3. QED
        BY <4>1, <4>2
    <3>3. QED
      BY <2>11, <3>1, <3>2 DEF FlowsAreTheirs
  <2>15. QED
    BY <2>7, <2>9, <2>10, <2>12, <2>13, <2>14 DEF FlowInv
<1>3. QED
  BY <1>1, <1>2 DEF Authorize, IsNextFlow

LEMMA IdentifyStep ==
  ASSUME TypeOK, FlowInv, NEW f \in Flows, NEW i \in Identities, Identify(f, i)
  PROVE  FlowInv' /\ TypeOK' /\ UNCHANGED <<tables, disturbed>>
<1>1. /\ UNCHANGED <<enforced, tables, cookie, flows, redeemed, req, history>>
      /\ answer' = [answer EXCEPT ![f] = i]
      /\ flows[f] # NotBegun /\ answer[f] = None /\ IssuerOf[i] = flows[f].issuer
  BY DEF Identify
<1>2. /\ answer'[f] = i /\ \A g \in Flows \ {f} : answer'[g] = answer[g]
      /\ answer' \in [Flows -> Identities \cup {None}]
  BY <1>1 DEF TypeOK
<1>3. TypeOK' /\ UNCHANGED <<tables, disturbed>>
  BY <1>1, <1>2 DEF TypeOK, tables, history
<1>4. ASSUME NEW r \in Requests PROVE IsFilled(req[r])'
  <2>1. IsFilled(req[r])
    BY DEF FlowInv, RequestsAreFilled
  <2>2. req[r].at \in InFlow => answer'[req[r].flow] = answer[req[r].flow]
    BY <1>1, <1>2, <2>1 DEF IsFilled
  <2>3. QED
    BY <1>1, <2>1, <2>2 DEF IsFilled
<1>5. OnlyItsOwnFlow'
  BY <1>1 DEF FlowInv, OnlyItsOwnFlow
<1>6. FlowsAreTheirs'
  BY <1>1, <1>2 DEF FlowInv, FlowsAreTheirs
<1>7. QED
  BY <1>3, <1>4, <1>5, <1>6 DEF FlowInv, RequestsAreFilled

-----------------------------------------------------------------------------
(* The tables.                                                             *)

LEMMA NoRowRow == NoRow \notin [name : Providers, issuer : Issuers, enabled : BOOLEAN]
BY OidcAssumption DEF NoRow

LEMMA NoUserAccount == NoUser \in Account /\ ~NoUser.stands /\ NoUser.link = Unlinked
BY DEF NoUser, Account

\* A change made in the portal leaves requests, sessions and flows alone.
LEMMA ChangeFrame ==
  ASSUME TypeOK, Portal
  PROVE  /\ Change
         /\ UNCHANGED <<enforced, cookie, flows, answer, redeemed, req, asks, overlapped>>
         /\ changes' \in Nat /\ orderly' \in BOOLEAN
         /\ orderly' => orderly /\ \A r \in Requests : req[r].at = "idle"
<1>1. Change
  BY DEF Portal, AddProvider, EditIssuer, Toggle, DeleteProvider, EditEmail, SwitchAccount,
    DeleteAccount
<1>2. /\ UNCHANGED <<enforced, cookie, flows, answer, redeemed, req, asks, overlapped>>
      /\ changes' \in Nat
  BY <1>1 DEF Change, outside, TypeOK
<1>3. orderly' = (orderly /\ \A r \in Requests : req[r].at = "idle")
  BY <1>1 DEF Change, At
<1>4. orderly' \in BOOLEAN
  BY <1>3, Zenon
<1>5. QED
  BY <1>1, <1>2, <1>3, <1>4

LEMMA PortalStep ==
  ASSUME TypeOK, AccountsAreWhole, Portal
  PROVE  TypeOK' /\ AccountsAreWhole'
<1>1. /\ UNCHANGED <<enforced, cookie, flows, answer, redeemed, req, asks, overlapped>>
      /\ changes' \in Nat /\ orderly' \in BOOLEAN
  BY ChangeFrame
<1> DEFINE Row     == [name : Providers, issuer : Issuers, enabled : BOOLEAN]
           Rest    == /\ providers' \in [Ids -> {NoRow} \cup Row]
                      /\ users' \in [Names -> Account]
                      /\ entitled' \in [Names -> SUBSET Identities]
                      /\ disturbed' \subseteq {"edited", "deactivated"}
<1>2. Rest => TypeOK'
  BY <1>1 DEF TypeOK
<1>3. CASE AddProvider \/ EditIssuer \/ Toggle
  <2>1. UNCHANGED <<users, entitled>> /\ disturbed' \in {disturbed, disturbed \cup {"edited"}}
    BY <1>3 DEF AddProvider, EditIssuer, Toggle
  <2>2. providers' \in [Ids -> {NoRow} \cup Row]
    <3>1. CASE AddProvider
      BY <3>1 DEF AddProvider, TypeOK
    <3>2. CASE EditIssuer
      BY <3>2 DEF EditIssuer, TypeOK, IsRow
    <3>3. CASE Toggle
      <4>1. PICK id \in Ids : IsRow(id) /\ providers' = [providers EXCEPT ![id].enabled = ~@]
        BY <3>3 DEF Toggle
      <4>2. providers[id] \in Row
        BY <4>1 DEF TypeOK, IsRow
      <4>3. (~providers[id].enabled) \in BOOLEAN
        BY Zenon
      <4>4. [providers[id] EXCEPT !.enabled = ~providers[id].enabled] \in Row
        BY <4>2, <4>3
      <4>5. providers' = [providers EXCEPT ![id] =
                            [providers[id] EXCEPT !.enabled = ~providers[id].enabled]]
        BY <4>1, Zenon
      <4>6. QED
        BY <4>4, <4>5 DEF TypeOK
    <3>4. QED
      BY <1>3, <3>1, <3>2, <3>3
  <2>3. Rest
    BY <2>1, <2>2 DEF TypeOK
  <2>4. AccountsAreWhole'
    BY <2>1 DEF AccountsAreWhole
  <2>5. QED
    BY <1>2, <2>3, <2>4
<1>4. CASE DeleteProvider
  <2>1. PICK id \in Ids : /\ providers' = [providers EXCEPT ![id] = NoRow]
                         /\ users' = NoLongerLinked(id)
    BY <1>4 DEF DeleteProvider
  <2>2. UNCHANGED <<entitled, disturbed>>
    BY <1>4 DEF DeleteProvider
  <2>3. ASSUME NEW u \in Names
        PROVE  /\ users'[u] \in Account
               /\ users'[u].link \in {users[u].link, Unlinked}
               /\ users'[u].stands = users[u].stands /\ users'[u].active = users[u].active
    <3>1. users'[u] = IF users[u].link[1] = id THEN [users[u] EXCEPT !.link = Unlinked]
                      ELSE users[u]
      BY <2>1 DEF NoLongerLinked
    <3>2. users[u] \in Account
      BY DEF TypeOK
    <3>3. QED
      BY <3>1, <3>2 DEF Account
  <2>4. Rest
    <3>1. users' \in [Names -> Account]
      BY <2>1, <2>3 DEF NoLongerLinked
    <3>2. QED
      BY <2>1, <2>2, <3>1 DEF TypeOK
  <2>5. AccountsAreWhole'
    BY <2>2, <2>3 DEF AccountsAreWhole
  <2>6. QED
    BY <1>2, <2>4, <2>5
<1>5. CASE EditEmail
  <2>1. PICK u \in Names, e \in Emails : users' = [users EXCEPT ![u].email = e]
    BY <1>5 DEF EditEmail
  <2>2. UNCHANGED <<providers, entitled, disturbed>>
    BY <1>5 DEF EditEmail
  <2>3. ASSUME NEW v \in Names
        PROVE  /\ users'[v] \in Account /\ users'[v].link = users[v].link
               /\ users'[v].stands = users[v].stands /\ users'[v].active = users[v].active
    BY <2>1 DEF TypeOK, Account
  <2>4. Rest
    <3>1. users' \in [Names -> Account]
      BY <2>1, <2>3 DEF TypeOK
    <3>2. QED
      BY <2>2, <3>1 DEF TypeOK
  <2>5. AccountsAreWhole'
    BY <2>2, <2>3 DEF AccountsAreWhole
  <2>6. QED
    BY <1>2, <2>4, <2>5
<1>6. CASE SwitchAccount
  <2>1. PICK u \in Names : users[u].stands /\ users' = [users EXCEPT ![u].active = ~@]
    BY <1>6 DEF SwitchAccount
  <2>2. UNCHANGED <<providers, entitled>> /\ disturbed' = disturbed \cup {"deactivated"}
    BY <1>6 DEF SwitchAccount
  <2>3. ASSUME NEW v \in Names
        PROVE  /\ users'[v] \in Account /\ users'[v].link = users[v].link
               /\ users'[v].stands = users[v].stands
    BY <2>1 DEF TypeOK, Account
  <2>4. Rest
    <3>1. users' \in [Names -> Account]
      BY <2>1, <2>3 DEF TypeOK
    <3>2. QED
      BY <2>2, <3>1 DEF TypeOK
  <2>5. AccountsAreWhole'
    BY <2>2, <2>3 DEF AccountsAreWhole
  <2>6. QED
    BY <1>2, <2>4, <2>5
<1>7. CASE DeleteAccount
  <2>1. PICK u \in Names : /\ users' = [users EXCEPT ![u] = NoUser]
                          /\ entitled' = [entitled EXCEPT ![u] = {}]
    BY <1>7 DEF DeleteAccount
  <2>2. UNCHANGED <<providers, disturbed>>
    BY <1>7 DEF DeleteAccount
  <2>3. users' \in [Names -> Account] /\ entitled' \in [Names -> SUBSET Identities]
    BY <2>1, NoUserAccount DEF TypeOK
  <2>4. Rest
    BY <2>2, <2>3 DEF TypeOK
  <2>5. AccountsAreWhole'
    BY <2>1, <2>2, NoUserAccount DEF AccountsAreWhole, TypeOK
  <2>6. QED
    BY <1>2, <2>4, <2>5
<1>8. QED
  BY <1>3, <1>4, <1>5, <1>6, <1>7 DEF Portal

\* What a handler's step leaves alone.
LEMMA HandlerFrame ==
  ASSUME NEW r \in Requests, Handle(r) \/ Abort(r)
  PROVE  /\ UNCHANGED <<enforced, providers, answer, asks, changes, orderly, overlapped,
                        disturbed>>
         /\ ~Authorize(r) => UNCHANGED flows
         /\ ~(Login(r) \/ Logout(r) \/ Welcome(r) \/ Authorize(r) \/ Refuse(r)) =>
              UNCHANGED cookie
         /\ req[r].at # "idle"
         /\ ~(Link(r) \/ Create(r)) => UNCHANGED <<users, entitled>>
         /\ redeemed' \in {redeemed, redeemed \cup {req[r].flow}}
         /\ ~Exchange(r) => UNCHANGED redeemed
BY DEF Handle, Abort, Login, Logout, Authorize, FindProvider, Exchange, FindLink, FindEmail,
  Link, Create, Welcome, At, tables, outside, history

LEMMA AskFrame ==
  ASSUME TypeOK, NEW r \in Requests, Ask(r)
  PROVE  /\ UNCHANGED <<enforced, providers, users, cookie, flows, answer, redeemed, entitled,
                        changes, disturbed>>
         /\ asks' \in Nat /\ overlapped' \subseteq Browsers /\ orderly' \in BOOLEAN
         /\ orderly' => orderly
<1>1. PICK b \in Browsers :
        AskLogin(r, b) \/ AskLogout(r, b) \/ AskAuthorize(r, b) \/ AskCallback(r, b)
  BY DEF Ask
<1>2. \E ask : Begin(r, b, ask)
  BY <1>1 DEF AskLogin, AskLogout, AskAuthorize, AskCallback
<1>3. orderly' = orderly \/ orderly' = (orderly /\ ~Busy(r))
  BY <1>1 DEF AskLogin, AskLogout, AskAuthorize, AskCallback
<1>4. orderly' \in BOOLEAN /\ (orderly' => orderly)
  <2>1. orderly \in BOOLEAN
    BY DEF TypeOK
  <2>2. CASE orderly' = orderly
    BY <2>1, <2>2
  <2>3. CASE orderly' = (orderly /\ ~Busy(r))
    BY <2>3, Zenon
  <2>4. QED
    BY <1>3, <2>2, <2>3
<1>5. overlapped' \subseteq Browsers /\ asks' \in Nat
  BY <1>2 DEF Begin, TypeOK
<1>6. QED
  BY <1>2, <1>4, <1>5 DEF Begin, tables, outside

LEMMA HandlerStep ==
  ASSUME LoginInv, NEW r \in Requests, Handle(r) \/ Abort(r)
  PROVE  LoginInv'
<1>1. TypeOK /\ FlowInv /\ AccountsAreWhole
  BY DEF LoginInv, FlowInv
<1>2. /\ FlowInv' /\ req' \in [Requests -> RequestRecord]
      /\ cookie' \in [Browsers -> Session]
      /\ flows' \in [Flows -> {NotBegun} \cup
                            [browser : Browsers, provider : Providers, issuer : Issuers]]
  <2>1. CASE Authorize(r)
    BY <1>1, <2>1, AuthorizeStep
  <2>2. CASE Login(r) \/ Logout(r) \/ Welcome(r)
    <3>1. UNCHANGED flows
      BY <2>2 DEF Login, Logout, Welcome
    <3>2. QED
      BY <1>1, <2>2, <3>1, AnswerStep DEF TypeOK
  <2>3. CASE Refuse(r) /\ ~Authorize(r)
    BY <1>1, <2>3, HandlerFrame, RefuseStep DEF TypeOK
  <2>4. CASE /\ ~(Login(r) \/ Logout(r) \/ Welcome(r) \/ Authorize(r) \/ Refuse(r))
             /\ \/ Abort(r)
                \/ FindProvider(r) \/ Exchange(r) \/ FindLink(r) \/ FindEmail(r) \/ Link(r)
                \/ Create(r)
    <3>1. UNCHANGED <<cookie, flows, answer>>
      BY <2>4, HandlerFrame
    <3>2. CASE Finish(r)
      BY <1>1, <3>1, <3>2, FinishStep DEF TypeOK
    <3>3. ASSUME req[r].at \in InFlow, NEW q, req' = [req EXCEPT ![r] = q],
                 Continues(q, req[r]), IsFilled(q)
          PROVE  FlowInv' /\ req' \in [Requests -> RequestRecord]
      <4>1. MayStand(q)
        BY <1>1, <3>3 DEF MayStand, Continues, FlowInv, OnlyItsOwnFlow, FlowsAreTheirs
      <4>2. \A b \in Browsers : cookie'[b].flow # None => flows[cookie'[b].flow].browser = b
        BY <1>1, <3>1 DEF FlowInv, FlowsAreTheirs
      <4>3. QED
        BY <1>1, <3>1, <3>3, <4>1, <4>2, RequestStep
    <3>4. \/ Finish(r)
          \/ \E q : /\ req[r].at \in InFlow /\ req' = [req EXCEPT ![r] = q]
                    /\ Continues(q, req[r]) /\ IsFilled(q)
      BY <1>1, <2>4, CallbackStep DEF Abort, FlowInv
    <3>5. QED
      BY <1>1, <3>1, <3>2, <3>3, <3>4 DEF TypeOK
  <2>5. QED
    BY <2>1, <2>2, <2>3, <2>4 DEF Handle
<1>3. /\ users' \in [Names -> Account] /\ entitled' \in [Names -> SUBSET Identities]
      /\ AccountsAreWhole'
  <2>1. CASE UNCHANGED <<users, entitled>>
    BY <1>1, <2>1, HandlerFrame DEF TypeOK, AccountsAreWhole
  <2>2. ASSUME NEW u \in Names, Writes(r, u)
        PROVE  /\ users' \in [Names -> Account] /\ entitled' \in [Names -> SUBSET Identities]
               /\ AccountsAreWhole'
    BY <1>1, <2>2, HandlerFrame DEF Writes, AccountsAreWhole
  <2>3. QED
    BY <1>1, <2>1, <2>2, AccountIsWritten, HandlerFrame DEF FlowInv
<1>4. redeemed' \subseteq Flows
  <2>1. Exchange(r) => req[r].flow \in Flows
    BY <1>1, Reads DEF Exchange, At, FlowInv, IsFilled
  <2>2. QED
    BY <1>1, <2>1, HandlerFrame DEF TypeOK
<1>5. TypeOK'
  BY <1>1, <1>2, <1>3, <1>4, HandlerFrame DEF TypeOK
<1>6. QED
  BY <1>2, <1>3, <1>5 DEF LoginInv, FlowInv

LEMMA InitLogin == Init => LoginInv
<1> SUFFICES ASSUME Init PROVE LoginInv
  OBVIOUS
<1>1. providers \in [Ids -> {NoRow} \cup [name : Providers, issuer : Issuers, enabled : BOOLEAN]]
  BY DEF Init
<1>2. users \in [Names -> Account] /\ AccountsAreWhole
  <2>1. PICK address \in [Locals -> Emails \cup {None}] :
          users = [u \in Names |->
            IF u \in Locals
            THEN [NoUser EXCEPT !.stands = TRUE, !.active = TRUE, !.email = address[u],
                                !.password = TRUE]
            ELSE NoUser]
    BY DEF Init
  <2>2. ASSUME NEW u \in Names
        PROVE  users[u] \in Account /\ users[u].link = Unlinked
               /\ (users[u].stands => users[u].active)
    <3>1. CASE u \in Locals
      BY <2>1, <3>1 DEF NoUser, Account
    <3>2. CASE u \notin Locals
      BY <2>1, <3>2, NoUserAccount
    <3>3. QED
      BY <3>1, <3>2
  <2>3. QED
    BY <2>1, <2>2 DEF AccountsAreWhole
<1>3. \A r \in Requests : req[r] = Idle
  BY DEF Init
<1>4. FlowInv
  BY <1>3, IdleRecord DEF Init, FlowInv, RequestsAreFilled, OnlyItsOwnFlow, FlowsAreTheirs,
    IsFilled, Anonymous
<1>5. cookie \in [Browsers -> Session] /\ req \in [Requests -> RequestRecord]
  BY IdleRecord DEF Init, Session, Anonymous
<1>6. TypeOK
  BY <1>1, <1>2, <1>5, OidcAssumption DEF Init, TypeOK
<1>7. QED
  BY <1>2, <1>4, <1>6 DEF LoginInv, FlowInv

LEMMA NextLogin == LoginInv /\ [Next]_vars => LoginInv'
<1> SUFFICES ASSUME LoginInv, [Next]_vars PROVE LoginInv'
  OBVIOUS
<1>1. TypeOK /\ FlowInv /\ AccountsAreWhole
  BY DEF LoginInv, FlowInv
<1>2. ASSUME NEW r \in Requests, Ask(r) PROVE LoginInv'
  <2>1. FlowInv' /\ req' \in [Requests -> RequestRecord]
    BY <1>1, <1>2, AskStep
  <2>2. TypeOK'
    BY <1>1, <1>2, <2>1, AskFrame DEF TypeOK
  <2>3. AccountsAreWhole'
    BY <1>1, <1>2, AskFrame DEF AccountsAreWhole
  <2>4. QED
    BY <2>1, <2>2, <2>3 DEF LoginInv, FlowInv
<1>3. ASSUME NEW r \in Requests, Handle(r) \/ Abort(r) PROVE LoginInv'
  BY <1>3, HandlerStep
<1>4. ASSUME NEW f \in Flows, NEW i \in Identities, Identify(f, i) PROVE LoginInv'
  <2>1. FlowInv' /\ TypeOK' /\ UNCHANGED <<tables, disturbed>>
    BY <1>1, <1>4, IdentifyStep
  <2>2. QED
    BY <1>1, <2>1 DEF LoginInv, FlowInv, AccountsAreWhole, tables
<1>5. ASSUME Portal \/ UNCHANGED vars PROVE LoginInv'
  <2>1. UNCHANGED <<cookie, flows, answer, req>>
    BY <1>1, <1>5, ChangeFrame DEF vars, outside
  <2>2. FlowInv'
    BY <1>1, <2>1 DEF FlowInv, RequestsAreFilled, IsFilled, OnlyItsOwnFlow, FlowsAreTheirs
  <2>3. TypeOK' /\ AccountsAreWhole'
    <3>1. CASE Portal
      BY <1>1, <3>1, PortalStep
    <3>2. CASE UNCHANGED vars
      BY <1>1, <3>2 DEF vars, tables, outside, history, TypeOK, AccountsAreWhole
    <3>3. QED
      BY <1>5, <3>1, <3>2
  <2>4. QED
    BY <2>2, <2>3 DEF LoginInv, FlowInv
<1>6. QED
  BY <1>2, <1>3, <1>4, <1>5 DEF Next

\* What is inductive about requests, flows and accounts, whatever else happens.
THEOREM LoginInvariant == Spec => []LoginInv
<1>1. QED
  BY InitLogin, NextLogin, PTL DEF Spec

\* Every variable stays in its domain; an account has both columns of a link or
\* neither, whatever delete_oidc_provider and link_oidc_to_user do in between.
THEOREM LoginTypeOK == Spec => []TypeOK
<1>1. LoginInv => TypeOK
  BY DEF LoginInv
<1>2. QED
  BY <1>1, LoginInvariant, PTL

\* The callback of /oidc/callback gets past the comparison of state, verifier and
\* nonce only in the browser that began the flow.
THEOREM FlowsStayWithTheirBrowsers == Spec => []OnlyItsOwnFlow
<1>1. LoginInv => OnlyItsOwnFlow
  BY DEF LoginInv
<1>2. QED
  BY <1>1, LoginInvariant, PTL

-----------------------------------------------------------------------------
(* The sessions of a browser that sends one request at a time.             *)

\* Its request works on the session the browser holds.
SessionsAreCurrent ==
  \A b \in Browsers \ overlapped :
    /\ \A r \in Requests : req[r].browser = b => req[r].session = cookie[b]
    /\ \A q, r \in Requests : req[q].browser = b /\ req[r].browser = b => q = r

LEMMA SessionsStay ==
  ASSUME LoginInv, SessionsAreCurrent, UNCHANGED overlapped, NEW r \in Requests,
         \/ Finish(r) /\ UNCHANGED cookie
         \/ \E session : Reply(r, session)
         \/ \E q : req' = [req EXCEPT ![r] = q] /\ Continues(q, req[r]) /\ UNCHANGED cookie
  PROVE  SessionsAreCurrent'
<1>1. Idle.browser = None /\ None \notin Browsers
  BY IdleRecord, OidcAssumption
<1>2. req \in [Requests -> RequestRecord] /\ cookie \in [Browsers -> Session]
  BY DEF LoginInv, TypeOK
<1>3. CASE Finish(r) /\ UNCHANGED cookie
  BY <1>1, <1>2, <1>3 DEF Finish, SessionsAreCurrent
<1>4. ASSUME NEW session, Reply(r, session) PROVE SessionsAreCurrent'
  <2>1. /\ req' = [req EXCEPT ![r] = Idle]
        /\ cookie' = [cookie EXCEPT ![req[r].browser] = session]
    BY <1>4 DEF Reply, Finish
  <2>2. req'[r] = Idle /\ \A s \in Requests \ {r} : req'[s] = req[s]
    BY <1>2, <2>1
  <2>3. \A b \in Browsers : b # req[r].browser => cookie'[b] = cookie[b]
    BY <1>2, <2>1
  <2>4. QED
    BY <1>1, <2>2, <2>3 DEF SessionsAreCurrent
<1>5. ASSUME NEW q, req' = [req EXCEPT ![r] = q], Continues(q, req[r]), UNCHANGED cookie
      PROVE  SessionsAreCurrent'
  BY <1>2, <1>5 DEF Continues, SessionsAreCurrent
<1>6. QED
  BY <1>3, <1>4, <1>5

LEMMA SessionsBegin ==
  ASSUME LoginInv, SessionsAreCurrent, NEW r \in Requests, NEW b \in Browsers,
         NEW ask \in RequestRecord, Begin(r, b, ask)
  PROVE  SessionsAreCurrent'
<1> DEFINE q == [ask EXCEPT !.browser = b, !.session = cookie[b]]
<1>1. q.browser = b /\ q.session = cookie[b]
  BY DEF RequestRecord
<1>2. /\ req' = [req EXCEPT ![r] = q] /\ cookie' = cookie
      /\ overlapped' = IF \E s \in Requests : req[s].browser = b THEN overlapped \cup {b}
                       ELSE overlapped
  BY DEF Begin
<1> HIDE DEF q
<1>3. req'[r] = q /\ \A s \in Requests \ {r} : req'[s] = req[s]
  BY <1>2 DEF LoginInv, TypeOK
<1>4. SUFFICES ASSUME NEW c \in Browsers, c \notin overlapped'
               PROVE  /\ \A s \in Requests : req'[s].browser = c => req'[s].session = cookie[c]
                      /\ \A s, t \in Requests :
                           req'[s].browser = c /\ req'[t].browser = c => s = t
  BY <1>2 DEF SessionsAreCurrent
<1>5. /\ \A s \in Requests : req[s].browser = c => req[s].session = cookie[c]
      /\ \A s, t \in Requests : req[s].browser = c /\ req[t].browser = c => s = t
      /\ c = b => \A s \in Requests : req[s].browser # c
  BY <1>2, <1>4 DEF SessionsAreCurrent
<1>6. QED
  BY <1>1, <1>3, <1>5

LEMMA AskBegins ==
  ASSUME NEW r \in Requests, Ask(r)
  PROVE  \E b \in Browsers, ask \in RequestRecord :
           /\ Begin(r, b, ask)
           /\ ask.at \in {"login", "logout", "authorize", "callback"}
           /\ orderly' => ask.at # "callback" \/ \A q \in Requests \ {r} : req[q].at = "idle"
<1>1. PICK b \in Browsers :
        AskLogin(r, b) \/ AskLogout(r, b) \/ AskAuthorize(r, b) \/ AskCallback(r, b)
  BY DEF Ask
<1>2. CASE AskLogin(r, b)
  <2>1. PICK u \in Locals : Begin(r, b, [Idle EXCEPT !.at = "login", !.name = u])
    BY <1>2 DEF AskLogin
  <2>2. u \in Names
    BY DEF Names
  <2>3. /\ [Idle EXCEPT !.at = "login", !.name = u] \in RequestRecord
        /\ [Idle EXCEPT !.at = "login", !.name = u].at = "login"
    BY <2>2, IdleRecord DEF RequestRecord, Places
  <2>4. QED
    BY <2>1, <2>3
<1>3. CASE AskLogout(r, b)
  <2>1. /\ [Idle EXCEPT !.at = "logout"] \in RequestRecord
        /\ [Idle EXCEPT !.at = "logout"].at = "logout"
    BY IdleRecord DEF RequestRecord, Places
  <2>2. QED
    BY <1>3, <2>1 DEF AskLogout
<1>4. CASE AskAuthorize(r, b)
  <2>1. PICK p \in Providers : Begin(r, b, [Idle EXCEPT !.at = "authorize", !.name = p])
    BY <1>4 DEF AskAuthorize
  <2>2. /\ [Idle EXCEPT !.at = "authorize", !.name = p] \in RequestRecord
        /\ [Idle EXCEPT !.at = "authorize", !.name = p].at = "authorize"
    BY IdleRecord DEF RequestRecord, Places
  <2>3. QED
    BY <2>1, <2>2
<1>5. CASE AskCallback(r, b)
  <2>1. PICK f \in Flows : Begin(r, b, [Idle EXCEPT !.at = "callback", !.flow = f])
    BY <1>5 DEF AskCallback
  <2>2. /\ [Idle EXCEPT !.at = "callback", !.flow = f] \in RequestRecord
        /\ [Idle EXCEPT !.at = "callback", !.flow = f].at = "callback"
    BY IdleRecord DEF RequestRecord, Places
  <2>3. orderly' => \A q \in Requests \ {r} : req[q].at = "idle"
    BY <1>5 DEF AskCallback, Busy, At
  <2>4. QED
    BY <2>1, <2>2, <2>3
<1>6. QED
  BY <1>1, <1>2, <1>3, <1>4, <1>5

\* A step of a handler ends the request, with or without setting the cookie, or
\* continues it.
LEMMA HandlerEnds ==
  ASSUME LoginInv, NEW r \in Requests, Handle(r) \/ Abort(r)
  PROVE  \/ Finish(r) /\ UNCHANGED cookie
         \/ \E session : Reply(r, session)
         \/ \E q : req' = [req EXCEPT ![r] = q] /\ Continues(q, req[r]) /\ UNCHANGED cookie
<1>1. CASE Login(r) \/ Logout(r) \/ Welcome(r) \/ Authorize(r) \/ Abort(r)
  BY <1>1 DEF Login, Logout, Welcome, Authorize, Refuse, Abort
<1>2. CASE Refuse(r)
  BY <1>2 DEF Refuse
<1>3. CASE /\ ~(Login(r) \/ Logout(r) \/ Welcome(r) \/ Authorize(r) \/ Refuse(r))
           /\ \/ FindProvider(r) \/ Exchange(r) \/ FindLink(r) \/ FindEmail(r) \/ Link(r)
              \/ Create(r)
  <2>1. UNCHANGED cookie
    BY <1>3, HandlerFrame DEF Handle
  <2>2. QED
    BY <1>3, <2>1, CallbackStep DEF LoginInv
<1>4. QED
  BY <1>1, <1>2, <1>3 DEF Handle

LEMMA NextSessions == LoginInv /\ SessionsAreCurrent /\ [Next]_vars => SessionsAreCurrent'
<1> SUFFICES ASSUME LoginInv, SessionsAreCurrent, [Next]_vars PROVE SessionsAreCurrent'
  OBVIOUS
<1>1. ASSUME NEW r \in Requests, Ask(r) PROVE SessionsAreCurrent'
  BY <1>1, AskBegins, SessionsBegin
<1>2. ASSUME NEW r \in Requests, Handle(r) \/ Abort(r) PROVE SessionsAreCurrent'
  BY <1>2, HandlerEnds, HandlerFrame, SessionsStay
<1>3. CASE \/ \E f \in Flows, i \in Identities : Identify(f, i)
           \/ Portal \/ UNCHANGED vars
  <2>1. UNCHANGED <<req, cookie, overlapped>>
    <3>1. CASE Portal
      BY <3>1, ChangeFrame DEF LoginInv
    <3>2. CASE (\E f \in Flows, i \in Identities : Identify(f, i)) \/ UNCHANGED vars
      BY <3>2 DEF Identify, history, vars
    <3>3. QED
      BY <1>3, <3>1, <3>2
  <2>2. QED
    BY <2>1 DEF SessionsAreCurrent
<1>4. QED
  BY <1>1, <1>2, <1>3 DEF Next

\* In a browser that sends one request at a time the name in the session changes
\* only by what login, logout and handle_oidc_callback do to it, whatever the
\* session middleware does with the answers of the others.
THEOREM NamesChangeByLogin == Spec => NamesChangeInTurn
<1>1. Init => SessionsAreCurrent
  <2>1. Init => \A r \in Requests : req[r].browser = None
    BY IdleRecord, Zenon DEF Init
  <2>2. None \notin Browsers
    BY OidcAssumption
  <2>3. QED
    BY <2>1, <2>2 DEF SessionsAreCurrent
<1>2. ASSUME LoginInv, SessionsAreCurrent, [Next]_vars, NEW b \in Browsers,
             b \notin overlapped, cookie'[b].user # cookie[b].user
      PROVE  \E r \in Requests :
               req[r].browser = b /\ req[r].at \in {"login", "logout", "welcome"}
  <2>1. PICK r \in Requests :
          /\ Handle(r) \/ Abort(r)
          /\ Login(r) \/ Logout(r) \/ Welcome(r) \/ Authorize(r) \/ Refuse(r)
    <3>1. ASSUME Portal \/ (\E f \in Flows, i \in Identities : Identify(f, i)) \/ UNCHANGED vars
          PROVE  cookie' = cookie
      BY <1>2, <3>1, ChangeFrame DEF LoginInv, Identify, vars
    <3>2. ASSUME NEW r \in Requests, Ask(r) PROVE cookie' = cookie
      BY <1>2, <3>2, AskFrame DEF LoginInv
    <3>3. ASSUME NEW r \in Requests, Handle(r) \/ Abort(r),
                 ~(Login(r) \/ Logout(r) \/ Welcome(r) \/ Authorize(r) \/ Refuse(r))
          PROVE  cookie' = cookie
      BY <3>3, HandlerFrame
    <3>4. QED
      BY <1>2, <3>1, <3>2, <3>3 DEF Next
  <2>2. cookie \in [Browsers -> Session] /\ req[r] \in RequestRecord
    BY <1>2 DEF LoginInv, TypeOK
  \* the name in the session that is sent, if it is sent
  <2>3. PICK session : /\ Reply(r, session)
                       /\ \/ session.user = req[r].session.user
                          \/ req[r].at \in {"login", "logout", "welcome"}
    <3>1. CASE Authorize(r)
      <4>1. \/ \E f \in Flows : Reply(r, Began(req[r].session, f))
            \/ Reply(r, req[r].session)
        BY <1>2, <3>1 DEF Authorize, Refuse
      <4>2. \A f \in Flows : Began(req[r].session, f).user = req[r].session.user
        BY <2>2 DEF Began, RequestRecord, Session
      <4>3. QED
        BY <4>1, <4>2
    <3>2. CASE Refuse(r)
      BY <1>2, <3>2 DEF Refuse
    <3>3. CASE (Login(r) \/ Logout(r) \/ Welcome(r)) /\ ~Refuse(r)
      BY <3>3 DEF Login, Logout, Welcome, At
    <3>4. QED
      BY <2>1, <3>1, <3>2, <3>3
  <2>4. req[r].browser = b /\ cookie'[b] = session
    BY <1>2, <2>2, <2>3 DEF Reply
  <2>5. req[r].session = cookie[b]
    BY <1>2, <2>4 DEF SessionsAreCurrent
  <2>6. QED
    BY <1>2, <2>3, <2>4, <2>5
<1>3. LoginInv /\ SessionsAreCurrent /\ [Next]_vars =>
        [\A b \in Browsers :
           b \notin overlapped /\ cookie'[b].user # cookie[b].user =>
             \E r \in Requests :
               req[r].browser = b /\ req[r].at \in {"login", "logout", "welcome"}]_vars
  BY <1>2
<1>4. QED
  BY <1>1, <1>3, NextSessions, LoginInvariant, PTL DEF Spec, NamesChangeInTurn

-----------------------------------------------------------------------------
(* Links.                                                                  *)

\* What a request has read still holds: the provider's row is there with the
\* issuer it had, and no account has the link that was looked up.
KnowsIssuer(q) == IsRow(q.id) /\ providers[q.id].issuer = q.issuer
NotLinked(q)   == \A u \in Names : users[u].link # <<q.id, SubOf[answer[q.flow]]>>

\* Callbacks that have the database for themselves know what is in it.
InTurn ==
  orderly =>
    /\ \A q, r \in Requests : req[q].at \in InFlow /\ req[r].at \in InFlow => q = r
    /\ \A r \in Requests : req[r].at \in LookedUp => KnowsIssuer(req[r])
    /\ "deactivated" \notin disturbed =>
         \A r \in Requests : req[r].at \in Unmatched => NotLinked(req[r])

\* Where foreign keys are enforced an id does not come back to a request.
IdsStay ==
  enforced /\ "edited" \notin disturbed =>
    \A r \in Requests : req[r].at \in LookedUp /\ IsRow(req[r].id) => KnowsIssuer(req[r])

\* A link is that of an identity of its provider's issuer, entitled to the account.
LinksAreEntitled ==
  (enforced \/ orderly) /\ "edited" \notin disturbed =>
    \A u \in Names : users[u].link # Unlinked =>
      \E i \in entitled[u] : /\ users[u].link[2] = SubOf[i]
                             /\ IssuerOf[i] = providers[users[u].link[1]].issuer

LinkInv ==
  /\ InTurn
  /\ IdsStay
  /\ LinksAreEntitled
  /\ LinksHaveTheirProviders
  /\ OneAccountPerIdentity

\* A step of a request that leaves the tables alone.
LEMMA QuietStep ==
  ASSUME LoginInv, LinkInv, NEW r \in Requests, NEW q, req' = [req EXCEPT ![r] = q],
         UNCHANGED <<enforced, providers, users, answer, entitled, disturbed>>,
         orderly' => orderly,
         orderly' /\ q.at \in InFlow =>
           req[r].at \in InFlow \/ \A s \in Requests \ {r} : req[s].at = "idle",
         q.at \in LookedUp /\ orderly => KnowsIssuer(q),
         q.at \in LookedUp /\ enforced /\ "edited" \notin disturbed /\ IsRow(q.id) =>
           KnowsIssuer(q),
         q.at \in Unmatched /\ orderly /\ "deactivated" \notin disturbed => NotLinked(q)
  PROVE  LinkInv'
<1>1. req'[r] = q /\ \A s \in Requests \ {r} : req'[s] = req[s]
  BY DEF LoginInv, TypeOK
<1>2. InTurn'
  <2>1. SUFFICES ASSUME orderly'
                 PROVE  /\ \A s, t \in Requests :
                             req'[s].at \in InFlow /\ req'[t].at \in InFlow => s = t
                        /\ \A s \in Requests : req'[s].at \in LookedUp => KnowsIssuer(req[s])'
                        /\ "deactivated" \notin disturbed =>
                             \A s \in Requests :
                               req'[s].at \in Unmatched => NotLinked(req[s])'
    BY DEF InTurn
  <2>2. /\ \A s, t \in Requests : req[s].at \in InFlow /\ req[t].at \in InFlow => s = t
        /\ \A s \in Requests : req[s].at \in LookedUp => KnowsIssuer(req[s])
        /\ "deactivated" \notin disturbed =>
             \A s \in Requests : req[s].at \in Unmatched => NotLinked(req[s])
    BY <2>1 DEF LinkInv, InTurn
  <2>3. \A s, t \in Requests : req'[s].at \in InFlow /\ req'[t].at \in InFlow => s = t
    BY <1>1, <2>1, <2>2
  <2>4. ASSUME NEW s \in Requests
        PROVE  /\ req'[s].at \in LookedUp => KnowsIssuer(req[s])'
               /\ "deactivated" \notin disturbed /\ req'[s].at \in Unmatched =>
                    NotLinked(req[s])'
    <3>1. CASE s = r
      BY <1>1, <2>1, <3>1 DEF KnowsIssuer, NotLinked, IsRow
    <3>2. CASE s # r
      BY <1>1, <2>2, <3>2 DEF KnowsIssuer, NotLinked, IsRow
    <3>3. QED
      BY <3>1, <3>2
  <2>5. QED
    BY <2>3, <2>4
<1>3. IdsStay'
  BY <1>1 DEF LinkInv, IdsStay, KnowsIssuer, IsRow
<1>4. LinksAreEntitled' /\ LinksHaveTheirProviders' /\ OneAccountPerIdentity'
  BY DEF LinkInv, LinksAreEntitled, LinksHaveTheirProviders, OneAccountPerIdentity, IsRow
<1>5. QED
  BY <1>2, <1>3, <1>4 DEF LinkInv

\* What a request that is about to write knows of its provider.
LEMMA WriterKnows ==
  ASSUME LoginInv, LinkInv, NEW r \in Requests, req[r].at \in Exchanged,
         enforced \/ orderly, enforced => IsRow(req[r].id)
  PROVE  /\ IsRow(req[r].id)
         /\ "edited" \notin disturbed => IssuerOf[Who(r)] = providers[req[r].id].issuer
<1>1. IssuerOf[Who(r)] = req[r].issuer
  BY Reads DEF LoginInv, IsFilled
<1>2. CASE orderly
  BY <1>1, <1>2 DEF LinkInv, InTurn, KnowsIssuer
<1>3. CASE enforced
  BY <1>1, <1>3 DEF LinkInv, IdsStay, KnowsIssuer
<1>4. QED
  BY <1>2, <1>3

\* link_oidc_to_user and create_oidc_user commit.
LEMMA WriteStep ==
  ASSUME LoginInv, LinkInv, NEW r \in Requests, req[r].at \in {"link", "create"},
         NEW u \in Names, Writes(r, u), GoesOnAs(r, "welcome", u),
         UNCHANGED <<enforced, providers, answer, orderly, disturbed>>
  PROVE  LinkInv'
<1>1. req[r] \in RequestRecord /\ "welcome" \in Places
  BY Reads DEF LoginInv, Places
<1>2. PICK q : q.at = "welcome" /\ req' = [req EXCEPT ![r] = q]
  BY <1>1, Entering
<1>3. req'[r].at = "welcome" /\ \A s \in Requests \ {r} : req'[s] = req[s]
  BY <1>2 DEF LoginInv, TypeOK
<1> DEFINE link == <<req[r].id, SubOf[Who(r)]>>
<1>4. users'[u].link = link /\ \A v \in Names \ {u} : users'[v].link = users[v].link
  BY DEF Writes
<1>5. enforced \/ orderly =>
        /\ IsRow(req[r].id)
        /\ "edited" \notin disturbed => IssuerOf[Who(r)] = providers[req[r].id].issuer
  BY WriterKnows DEF Writes, ProviderStands
<1>6. link[1] = req[r].id /\ link[2] = SubOf[Who(r)]
  OBVIOUS
<1> HIDE DEF link
<1>7. InTurn'
  <2>1. ASSUME orderly
        PROVE  \A s \in Requests : req'[s].at \in InFlow => s = r
    BY <1>3, <2>1 DEF LinkInv, InTurn
  <2>2. QED
    BY <1>3, <2>1 DEF InTurn
<1>8. IdsStay'
  BY <1>3 DEF LinkInv, IdsStay, KnowsIssuer, IsRow
<1>9. LinksAreEntitled'
  <2>1. SUFFICES ASSUME enforced \/ orderly, "edited" \notin disturbed, NEW v \in Names,
                        users'[v].link # Unlinked
                 PROVE  \E i \in entitled'[v] :
                          /\ users'[v].link[2] = SubOf[i]
                          /\ IssuerOf[i] = providers[users'[v].link[1]].issuer
    BY DEF LinksAreEntitled
  <2>2. CASE v = u
    <3>1. Who(r) \in entitled'[u]
      BY DEF Writes
    <3>2. QED
      BY <1>4, <1>5, <1>6, <2>1, <2>2, <3>1
  <2>3. CASE v # u
    <3>1. entitled'[v] = entitled[v] /\ users'[v].link = users[v].link
      BY <1>4, <2>3 DEF Writes
    <3>2. QED
      BY <2>1, <3>1 DEF LinkInv, LinksAreEntitled
  <2>4. QED
    BY <2>2, <2>3
<1>10. LinksHaveTheirProviders'
  BY <1>4, <1>5, <1>6 DEF LinkInv, LinksHaveTheirProviders, IsRow
<1>11. OneAccountPerIdentity'
  <2>1. SUFFICES ASSUME orderly, "deactivated" \notin disturbed, NEW v \in Names, NEW w \in Names,
                        users'[v].link # Unlinked, users'[v].link = users'[w].link
                 PROVE  v = w
    BY DEF OneAccountPerIdentity
  <2>2. \A x \in Names : users[x].link # link
    BY <2>1 DEF LinkInv, InTurn, NotLinked, Who, link
  <2>3. QED
    BY <1>4, <2>1, <2>2 DEF LinkInv, OneAccountPerIdentity
<1>12. QED
  BY <1>7, <1>8, <1>9, <1>10, <1>11 DEF LinkInv

LEMMA AskLinks ==
  ASSUME LoginInv, LinkInv, NEW r \in Requests, Ask(r)
  PROVE  LinkInv'
<1>1. PICK b \in Browsers, ask \in RequestRecord :
        /\ Begin(r, b, ask)
        /\ ask.at \in {"login", "logout", "authorize", "callback"}
        /\ orderly' => ask.at # "callback" \/ \A s \in Requests \ {r} : req[s].at = "idle"
  BY AskBegins
<1> DEFINE q == [ask EXCEPT !.browser = b, !.session = cookie[b]]
<1>2. q.at = ask.at /\ req' = [req EXCEPT ![r] = q]
  BY <1>1 DEF RequestRecord, Begin
<1> HIDE DEF q
<1>3. /\ UNCHANGED <<enforced, providers, users, answer, entitled, disturbed>>
      /\ orderly' => orderly
  BY AskFrame DEF LoginInv
<1>4. QED
  BY <1>1, <1>2, <1>3, QuietStep

\* The lookups of a callback: what they find is so, and stays so as far as needed.
LEMMA LookupLinks ==
  ASSUME LoginInv, LinkInv, NEW r \in Requests,
         FindProvider(r) \/ Exchange(r) \/ FindLink(r) \/ FindEmail(r)
  PROVE  LinkInv'
<1>1. /\ UNCHANGED <<enforced, providers, users, answer, entitled, disturbed, orderly>>
      /\ req[r].at \in InFlow
  BY DEF FindProvider, Exchange, FindLink, FindEmail, tables, outside, history, At
<1>2. ASSUME Finish(r) PROVE LinkInv'
  BY <1>1, <1>2, QuietStep, IdleRecord DEF Finish
<1>3. TypeOK /\ RequestsAreFilled /\ FlowsAreTheirs /\ AccountsAreWhole
  BY DEF LoginInv
<1>4. CASE FindProvider(r)
  <2>1. ASSUME NEW q, req' = [req EXCEPT ![r] = q], q.at = "exchange", KnowsIssuer(q)
        PROVE  LinkInv'
    BY <1>1, <2>1, QuietStep
  <2>2. QED
    BY <1>2, <1>3, <1>4, <2>1, FindProviderStep DEF KnowsIssuer
\* the request has the provider's row it had
<1>5. ASSUME NEW q, req' = [req EXCEPT ![r] = q], q.id = req[r].id, q.issuer = req[r].issuer,
             req[r].at \in LookedUp,
             q.at \in Unmatched /\ orderly /\ "deactivated" \notin disturbed => NotLinked(q)
      PROVE  LinkInv'
  <2>1. orderly => KnowsIssuer(req[r])
    BY <1>5 DEF LinkInv, InTurn
  <2>2. enforced /\ "edited" \notin disturbed /\ IsRow(req[r].id) => KnowsIssuer(req[r])
    BY <1>5 DEF LinkInv, IdsStay
  <2>3. /\ orderly => KnowsIssuer(q)
        /\ enforced /\ "edited" \notin disturbed /\ IsRow(q.id) => KnowsIssuer(q)
    BY <1>5, <2>1, <2>2 DEF KnowsIssuer
  <2>4. QED
    BY <1>1, <1>5, <2>3, QuietStep
<1>6. CASE Exchange(r)
  <2>1. req[r].at = "exchange"
    BY <1>6 DEF Exchange, At
  <2>2. QED
    BY <1>2, <1>3, <1>5, <1>6, <2>1, ExchangeStep
<1>7. CASE FindLink(r)
  <2>1. req[r].at = "findLink"
    BY <1>7 DEF FindLink, At
  <2>2. ASSUME NEW q, Continues(q, req[r]), q.id = req[r].id, "deactivated" \notin disturbed,
               \A u \in LinkedTo(q.id, SubOf[Who(r)]) : ~IsActive(u)
        PROVE  NotLinked(q)
    <3>1. ASSUME NEW u \in Names, users[u].link = <<q.id, SubOf[Who(r)]>> PROVE FALSE
      <4>1. q.id \in Ids /\ users[u].link[1] = q.id
        BY <1>3, <2>1, <2>2, <3>1, Reads DEF IsFilled
      <4>2. users[u].stands
        BY <1>3, <4>1, OidcAssumption DEF AccountsAreWhole, Unlinked
      <4>3. QED
        BY <1>3, <2>2, <3>1, <4>2 DEF AccountsAreWhole, LinkedTo, IsActive
    <3>2. QED
      BY <2>2, <3>1 DEF NotLinked, Continues, Who
  <2>3. QED
    BY <1>2, <1>3, <1>5, <1>7, <2>1, <2>2, FindLinkStep
<1>8. CASE FindEmail(r)
  <2>1. req[r].at = "findEmail"
    BY <1>8 DEF FindEmail, At
  <2>2. ASSUME NEW q, Continues(q, req[r]), q.id = req[r].id, orderly,
               "deactivated" \notin disturbed
        PROVE  NotLinked(q)
    BY <2>1, <2>2 DEF LinkInv, InTurn, NotLinked, Continues
  <2>3. QED
    BY <1>2, <1>3, <1>5, <1>8, <2>1, <2>2, FindEmailStep
<1>9. QED
  BY <1>4, <1>6, <1>7, <1>8

LEMMA HandlerLinks ==
  ASSUME LoginInv, LinkInv, NEW r \in Requests, Handle(r) \/ Abort(r)
  PROVE  LinkInv'
<1>1. UNCHANGED <<enforced, providers, answer, orderly, disturbed>>
  BY HandlerFrame
<1>2. ASSUME Finish(r), UNCHANGED <<users, entitled>> PROVE LinkInv'
  BY <1>1, <1>2, QuietStep, IdleRecord DEF Finish
<1>3. CASE Login(r) \/ Logout(r) \/ Welcome(r) \/ Authorize(r) \/ Abort(r)
  BY <1>2, <1>3 DEF Login, Logout, Welcome, Authorize, Abort, Refuse, Reply, tables, history
<1>4. CASE FindProvider(r) \/ Exchange(r) \/ FindLink(r) \/ FindEmail(r)
  BY <1>4, LookupLinks
<1>5. CASE Link(r) \/ Create(r)
  <2>1. req[r].at \in {"link", "create"}
    BY <1>5 DEF Link, Create, At
  <2>2. QED
    BY <1>1, <1>2, <1>5, <2>1, AccountIsWritten, WriteStep DEF LoginInv
<1>6. QED
  BY <1>3, <1>4, <1>5 DEF Handle

-----------------------------------------------------------------------------
(* What the portal may do to rows and links.                               *)

\* A provider's row that stays; its issuer changes only when it is edited.
StaysRow(id) ==
  IsRow(id) => /\ IsRow(id)'
               /\ "edited" \notin disturbed' => providers'[id].issuer = providers[id].issuer

\* A row that was there already.
WasRow(id) == IsRow(id)' => IsRow(id) /\ StaysRow(id)

\* Links are kept as they are, with their providers, or cleared.
LinksStay ==
  \A u \in Names : users'[u].link # Unlinked =>
    /\ users'[u].link = users[u].link
    /\ entitled'[u] = entitled[u]
    /\ StaysRow(users[u].link[1])

LEMMA PortalLinks ==
  ASSUME LoginInv, LinkInv, Portal, LinksStay, disturbed \subseteq disturbed',
         enforced => \A r \in Requests : req[r].at \in LookedUp => WasRow(req[r].id)
  PROVE  LinkInv'
<1>1. /\ UNCHANGED <<enforced, answer, req>>
      /\ orderly' => orderly /\ \A r \in Requests : req[r].at = "idle"
  BY ChangeFrame DEF LoginInv
<1>2. InTurn'
  BY <1>1 DEF InTurn
<1>3. IdsStay'
  <2>1. SUFFICES ASSUME enforced, "edited" \notin disturbed', NEW r \in Requests,
                        req[r].at \in LookedUp, IsRow(req[r].id)'
                 PROVE  KnowsIssuer(req[r])'
    BY <1>1 DEF IdsStay
  <2>2. IsRow(req[r].id) /\ providers'[req[r].id].issuer = providers[req[r].id].issuer
    BY <2>1 DEF WasRow, StaysRow
  <2>3. KnowsIssuer(req[r])
    BY <2>1, <2>2 DEF LinkInv, IdsStay
  <2>4. QED
    BY <1>1, <2>1, <2>2, <2>3 DEF KnowsIssuer
<1>4. ASSUME enforced \/ orderly', NEW u \in Names, users'[u].link # Unlinked
      PROVE  /\ users'[u].link = users[u].link /\ entitled'[u] = entitled[u]
             /\ IsRow(users[u].link[1]) /\ StaysRow(users[u].link[1])
  BY <1>1, <1>4 DEF LinksStay, LinkInv, LinksHaveTheirProviders
<1>5. LinksHaveTheirProviders'
  BY <1>1, <1>4 DEF LinksHaveTheirProviders, StaysRow
<1>6. LinksAreEntitled'
  <2>1. SUFFICES ASSUME enforced \/ orderly', "edited" \notin disturbed', NEW u \in Names,
                        users'[u].link # Unlinked
                 PROVE  \E i \in entitled'[u] :
                          /\ users'[u].link[2] = SubOf[i]
                          /\ IssuerOf[i] = providers'[users'[u].link[1]].issuer
    BY <1>1 DEF LinksAreEntitled
  <2>2. PICK i \in entitled[u] : /\ users[u].link[2] = SubOf[i]
                                 /\ IssuerOf[i] = providers[users[u].link[1]].issuer
    BY <1>1, <1>4, <2>1 DEF LinkInv, LinksAreEntitled
  <2>3. QED
    BY <1>4, <2>1, <2>2 DEF StaysRow
<1>7. OneAccountPerIdentity'
  BY <1>1 DEF LinkInv, OneAccountPerIdentity, LinksStay
<1>8. QED
  BY <1>2, <1>3, <1>5, <1>6, <1>7 DEF LinkInv

LEMMA LinksNameIds ==
  ASSUME TypeOK, NEW u \in Names, users[u].link # Unlinked
  PROVE  users[u].link[1] \in Ids
<1>1. users[u].link \in (Ids \X Subs) \cup {Unlinked}
  BY DEF TypeOK, Account
<1>2. QED
  BY <1>1

LEMMA PortalKeepsLinks ==
  ASSUME LoginInv, Portal
  PROVE  /\ LinksStay /\ disturbed \subseteq disturbed'
         /\ enforced => \A r \in Requests : req[r].at \in LookedUp => WasRow(req[r].id)
<1>1. /\ TypeOK
      /\ \A r \in Requests : req[r].at \in LookedUp => req[r].id \in Ids
      /\ providers \in [Ids -> {NoRow} \cup [name : Providers, issuer : Issuers,
                                             enabled : BOOLEAN]]
  BY Reads DEF LoginInv, IsFilled, TypeOK
<1>2. CASE AddProvider
  <2>1. PICK p \in Providers, issuer \in Issuers, id \in Ids :
          /\ IsNextId(id)
          /\ providers' = [providers EXCEPT ![id] =
                             [name |-> p, issuer |-> issuer, enabled |-> TRUE]]
    BY <1>2 DEF AddProvider
  <2>2. UNCHANGED <<users, entitled, disturbed>>
    BY <1>2 DEF AddProvider
  <2>3. ~IsRow(id)
    BY <2>1, OidcAssumption DEF IsNextId
  <2>4. \A i \in Ids \ {id} : providers'[i] = providers[i]
    BY <1>1, <2>1
  <2>5. \A i \in Ids : StaysRow(i)
    BY <2>3, <2>4 DEF StaysRow, IsRow
  <2>6. LinksStay
    BY <1>1, <2>2, <2>5, LinksNameIds DEF LinksStay
  <2>7. enforced => \A r \in Requests : req[r].id # id
    BY <2>1 DEF IsNextId
  <2>8. \A i \in Ids \ {id} : WasRow(i)
    BY <2>4, <2>5 DEF WasRow, IsRow
  <2>9. QED
    BY <1>1, <2>2, <2>6, <2>7, <2>8
<1>3. CASE EditIssuer
  <2>1. PICK id \in Ids, issuer \in Issuers :
          IsRow(id) /\ providers' = [providers EXCEPT ![id].issuer = issuer]
    BY <1>3 DEF EditIssuer
  <2>2. UNCHANGED <<users, entitled>> /\ disturbed' = disturbed \cup {"edited"}
    BY <1>3 DEF EditIssuer
  <2>3. providers[id] \in [name : Providers, issuer : Issuers, enabled : BOOLEAN]
    BY <1>1, <2>1 DEF IsRow
  <2>4. providers'[id] \in [name : Providers, issuer : Issuers, enabled : BOOLEAN]
    BY <1>1, <2>1, <2>3
  <2>5. \A i \in Ids \ {id} : providers'[i] = providers[i]
    BY <1>1, <2>1
  <2>6. \A i \in Ids : WasRow(i) /\ StaysRow(i)
    BY <2>1, <2>2, <2>4, <2>5, NoRowRow DEF WasRow, StaysRow, IsRow
  <2>7. QED
    BY <1>1, <2>2, <2>6, LinksNameIds DEF LinksStay
<1>4. CASE Toggle
  <2>1. PICK id \in Ids : IsRow(id) /\ providers' = [providers EXCEPT ![id].enabled = ~@]
    BY <1>4 DEF Toggle
  <2>2. UNCHANGED <<users, entitled, disturbed>>
    BY <1>4 DEF Toggle
  <2>3. providers[id] \in [name : Providers, issuer : Issuers, enabled : BOOLEAN]
    BY <1>1, <2>1 DEF IsRow
  <2>4. /\ providers'[id].issuer = providers[id].issuer
        /\ providers'[id].name = providers[id].name
    BY <1>1, <2>1, <2>3
  <2>5. \A i \in Ids \ {id} : providers'[i] = providers[i]
    BY <1>1, <2>1
  <2>6. IsRow(id)'
    BY <2>3, <2>4, OidcAssumption DEF IsRow, NoRow
  <2>7. \A i \in Ids : WasRow(i) /\ StaysRow(i)
    BY <2>1, <2>4, <2>5, <2>6 DEF WasRow, StaysRow, IsRow
  <2>8. QED
    BY <1>1, <2>2, <2>7, LinksNameIds DEF LinksStay
<1>5. CASE DeleteProvider
  <2>1. PICK id \in Ids : /\ IsRow(id) /\ providers' = [providers EXCEPT ![id] = NoRow]
                         /\ users' = NoLongerLinked(id)
    BY <1>5 DEF DeleteProvider
  <2>2. UNCHANGED <<entitled, disturbed>>
    BY <1>5 DEF DeleteProvider
  <2>3. providers'[id] = NoRow /\ \A i \in Ids \ {id} : providers'[i] = providers[i]
    BY <1>1, <2>1
  <2>4. \A i \in Ids : WasRow(i) /\ (i # id => StaysRow(i))
    BY <2>3 DEF WasRow, StaysRow, IsRow
  <2>5. ASSUME NEW u \in Names, users'[u].link # Unlinked
        PROVE  users'[u].link = users[u].link /\ users[u].link[1] # id
    <3>1. users'[u] = IF users[u].link[1] = id THEN [users[u] EXCEPT !.link = Unlinked]
                      ELSE users[u]
      BY <2>1 DEF NoLongerLinked
    <3>2. users[u] \in Account
      BY <1>1 DEF TypeOK
    <3>3. QED
      BY <2>5, <3>1, <3>2 DEF Account
  <2>6. LinksStay
    BY <1>1, <2>2, <2>4, <2>5, LinksNameIds DEF LinksStay
  <2>7. QED
    BY <1>1, <2>2, <2>4, <2>6
\* the rest leave the providers alone
<1>6. ASSUME UNCHANGED providers, disturbed \subseteq disturbed',
             \A u \in Names : users'[u].link # Unlinked =>
               users'[u].link = users[u].link /\ entitled'[u] = entitled[u]
      PROVE  /\ LinksStay
             /\ enforced => \A r \in Requests : req[r].at \in LookedUp => WasRow(req[r].id)
  <2>1. \A id : StaysRow(id) /\ WasRow(id)
    BY <1>6 DEF WasRow, StaysRow, IsRow
  <2>2. QED
    BY <1>6, <2>1 DEF LinksStay
<1>7. CASE EditEmail
  <2>1. PICK u \in Names, e \in Emails : users' = [users EXCEPT ![u].email = e]
    BY <1>7 DEF EditEmail
  <2>2. \A v \in Names : users'[v].link = users[v].link
    BY <1>1, <2>1 DEF TypeOK, Account
  <2>3. QED
    BY <1>6, <1>7, <2>2 DEF EditEmail
<1>8. CASE SwitchAccount
  <2>1. PICK u \in Names : users[u].stands /\ users' = [users EXCEPT ![u].active = ~@]
    BY <1>8 DEF SwitchAccount
  <2>2. \A v \in Names : users'[v].link = users[v].link
    BY <1>1, <2>1 DEF TypeOK, Account
  <2>3. QED
    BY <1>6, <1>8, <2>2 DEF SwitchAccount
<1>9. CASE DeleteAccount
  <2>1. PICK u \in Names : /\ users' = [users EXCEPT ![u] = NoUser]
                          /\ entitled' = [entitled EXCEPT ![u] = {}]
    BY <1>9 DEF DeleteAccount
  <2>2. UNCHANGED <<providers, disturbed>>
    BY <1>9 DEF DeleteAccount
  <2>3. \A v \in Names : users'[v].link # Unlinked =>
          users'[v].link = users[v].link /\ entitled'[v] = entitled[v]
    BY <1>1, <2>1, NoUserAccount DEF TypeOK
  <2>4. QED
    BY <1>6, <2>2, <2>3
<1>10. QED
  BY <1>2, <1>3, <1>4, <1>5, <1>7, <1>8, <1>9 DEF Portal

\* What the issuer answers is for a flow no request has come back with yet.
LEMMA IdentifyLinks ==
  ASSUME LoginInv, LinkInv, NEW f \in Flows, NEW i \in Identities, Identify(f, i)
  PROVE  LinkInv'
<1>1. /\ UNCHANGED <<enforced, providers, users, req, entitled, disturbed, orderly>>
      /\ answer' = [answer EXCEPT ![f] = i] /\ answer[f] = None
  BY DEF Identify, tables, history
<1>2. ASSUME NEW r \in Requests, req[r].at \in InFlow
      PROVE  answer'[req[r].flow] = answer[req[r].flow]
  <2>1. req[r].flow \in Flows \ {f}
    BY <1>1, <1>2 DEF LoginInv, RequestsAreFilled, IsFilled
  <2>2. QED
    BY <1>1, <2>1 DEF LoginInv, TypeOK
<1>3. InTurn'
  BY <1>1, <1>2 DEF LinkInv, InTurn, KnowsIssuer, NotLinked, IsRow
<1>4. IdsStay' /\ LinksAreEntitled' /\ LinksHaveTheirProviders' /\ OneAccountPerIdentity'
  BY <1>1 DEF LinkInv, IdsStay, KnowsIssuer, LinksAreEntitled, LinksHaveTheirProviders,
    OneAccountPerIdentity, IsRow
<1>5. QED
  BY <1>3, <1>4 DEF LinkInv

LEMMA InitLinks == Init => LinkInv
<1> SUFFICES ASSUME Init PROVE LinkInv
  OBVIOUS
<1>1. \A r \in Requests : req[r].at = "idle"
  BY IdleRecord DEF Init
<1>2. \A u \in Names : users[u].link = Unlinked
  <2>1. PICK address \in [Locals -> Emails \cup {None}] :
          users = [u \in Names |->
            IF u \in Locals
            THEN [NoUser EXCEPT !.stands = TRUE, !.active = TRUE, !.email = address[u],
                                !.password = TRUE]
            ELSE NoUser]
    BY DEF Init
  <2>2. QED
    BY <2>1 DEF NoUser
<1>3. QED
  BY <1>1, <1>2 DEF LinkInv, InTurn, IdsStay, LinksAreEntitled, LinksHaveTheirProviders,
    OneAccountPerIdentity

LEMMA NextLinks == LoginInv /\ LinkInv /\ [Next]_vars => LinkInv'
<1> SUFFICES ASSUME LoginInv, LinkInv, [Next]_vars PROVE LinkInv'
  OBVIOUS
<1>1. CASE Portal
  BY <1>1, PortalLinks, PortalKeepsLinks
<1>2. CASE UNCHANGED vars
  BY <1>2 DEF vars, tables, outside, history, LinkInv, InTurn, IdsStay, KnowsIssuer, NotLinked,
    LinksAreEntitled, LinksHaveTheirProviders, OneAccountPerIdentity, IsRow
<1>3. QED
  BY <1>1, <1>2, AskLinks, HandlerLinks, IdentifyLinks DEF Next

\* What is inductive about links, the rows they name and the requests on their
\* way to one.
THEOREM LinksInvariant == Spec => []LinkInv
<1>1. QED
  BY InitLinks, NextLinks, LoginInvariant, PTL DEF Spec

\* What delete_oidc_provider clears is all there is to clear, where foreign keys
\* are enforced or callbacks are not disturbed.
THEOREM LinksNameTheirProviders == Spec => []LinksHaveTheirProviders
<1>1. LinkInv => LinksHaveTheirProviders
  BY DEF LinkInv
<1>2. QED
  BY <1>1, LinksInvariant, PTL

\* The read of _link_or_create_user and its later write give an identity one
\* account, if callbacks are not disturbed and no account was deactivated.
THEOREM IdentitiesHaveOneAccount == Spec => []OneAccountPerIdentity
<1>1. LinkInv => OneAccountPerIdentity
  BY DEF LinkInv
<1>2. QED
  BY <1>1, LinksInvariant, PTL

\* A request gets to the account that get_user_by_oidc found, or that it has
\* written: either is its identity's.
LEMMA EnteringIsEntitled ==
  ASSUME LoginInv, LinkInv, [Next]_vars, enforced \/ orderly', "edited" \notin disturbed,
         NEW r \in Requests, req'[r].at = "welcome", req[r].at # "welcome"
  PROVE  Who(r) \in entitled'[req'[r].user]
<1>1. TypeOK /\ RequestsAreFilled /\ FlowsAreTheirs
  BY DEF LoginInv
<1>2. ASSUME NEW s \in Requests, NEW q, req' = [req EXCEPT ![s] = q], q.at # "welcome"
      PROVE  FALSE
  BY <1>1, <1>2 DEF TypeOK
<1>3. ASSUME NEW s \in Requests, Finish(s) PROVE FALSE
  BY <1>2, <1>3, IdleRecord DEF Finish
<1>4. ASSUME NEW s \in Requests, Ask(s) PROVE FALSE
  <2>1. PICK b \in Browsers, ask \in RequestRecord :
          /\ Begin(s, b, ask)
          /\ ask.at \in {"login", "logout", "authorize", "callback"}
    BY <1>4, AskBegins
  <2> DEFINE q == [ask EXCEPT !.browser = b, !.session = cookie[b]]
  <2>2. q.at = ask.at /\ req' = [req EXCEPT ![s] = q]
    BY <2>1 DEF RequestRecord, Begin
  <2> HIDE DEF q
  <2>3. QED
    BY <1>2, <2>1, <2>2
<1>5. UNCHANGED req => FALSE
  OBVIOUS
<1>6. PICK s \in Requests : FindLink(s) \/ Link(s) \/ Create(s)
  <2>1. PICK s \in Requests : Handle(s) \/ Abort(s)
    BY <1>4, <1>5, ChangeFrame, <1>1 DEF Next, Identify, vars
  <2>2. ~(Login(s) \/ Logout(s) \/ Authorize(s) \/ Welcome(s) \/ Abort(s))
    BY <1>3 DEF Login, Logout, Authorize, Welcome, Abort, Refuse, Reply
  <2>3. ~FindProvider(s)
    BY <1>1, <1>2, <1>3, FindProviderStep
  <2>4. ~Exchange(s)
    BY <1>1, <1>2, <1>3, ExchangeStep
  <2>5. ~FindEmail(s)
    BY <1>1, <1>2, <1>3, FindEmailStep
  <2>6. QED
    BY <2>1, <2>2, <2>3, <2>4, <2>5 DEF Handle
<1>7. s = r
  <2>1. \E q : req' = [req EXCEPT ![s] = q]
    BY <1>1, <1>6, CallbackStep DEF Finish
  <2>2. QED
    BY <1>1, <2>1 DEF TypeOK
<1>8. UNCHANGED <<enforced, orderly, providers, answer>>
  BY <1>6, HandlerFrame DEF Handle
<1>9. CASE FindLink(r)
  <2>1. req[r].at = "findLink" /\ UNCHANGED entitled
    BY <1>9 DEF FindLink, At, history
  <2>2. PICK q : /\ req' = [req EXCEPT ![r] = q] /\ Continues(q, req[r])
                 /\ q.id = req[r].id
                 /\ q.at = "welcome" /\ q.user \in LinkedTo(q.id, SubOf[Who(r)])
    BY <1>1, <1>2, <1>3, <1>9, FindLinkStep
  <2> DEFINE u == q.user
  <2>3. /\ req'[r].user = u /\ u \in Names
        /\ users[u].link = <<req[r].id, SubOf[Who(r)]>>
    BY <1>1, <2>2 DEF TypeOK, LinkedTo
  <2>4. /\ req[r].id \in Ids /\ Who(r) \in Identities
        /\ users[u].link[1] = req[r].id /\ users[u].link[2] = SubOf[Who(r)]
    BY <1>1, <2>1, <2>3, Reads DEF IsFilled
  <2>5. users[u].link # Unlinked
    BY <2>4, OidcAssumption DEF Unlinked
  <2> HIDE DEF u
  <2>6. IsRow(req[r].id)
    BY <1>8, <2>3, <2>4, <2>5 DEF LinkInv, LinksHaveTheirProviders
  <2>7. IssuerOf[Who(r)] = providers[req[r].id].issuer
    BY <1>8, <2>1, <2>6, WriterKnows
  <2>8. PICK i \in entitled[u] : /\ SubOf[Who(r)] = SubOf[i]
                                 /\ IssuerOf[i] = providers[req[r].id].issuer
    BY <1>8, <2>3, <2>4, <2>5 DEF LinkInv, LinksAreEntitled
  <2>9. i \in Identities
    BY <1>1, <2>3 DEF TypeOK
  <2>10. i = Who(r)
    BY <2>4, <2>7, <2>8, <2>9, OidcAssumption
  <2>11. QED
    BY <2>1, <2>3, <2>8, <2>10
<1>10. CASE Link(r) \/ Create(r)
  <2>1. PICK u \in Names : Writes(r, u) /\ GoesOnAs(r, "welcome", u)
    BY <1>1, <1>3, <1>10, AccountIsWritten
  <2>2. req[r] \in RequestRecord /\ "welcome" \in Places
    BY <1>1, Reads DEF Places
  <2>3. PICK q : q.user = u /\ req' = [req EXCEPT ![r] = q]
    BY <2>1, <2>2, Entering
  <2>4. req'[r].user = u
    BY <1>1, <2>3 DEF TypeOK
  <2>5. QED
    BY <2>1, <2>4 DEF Writes
<1>11. QED
  BY <1>6, <1>7, <1>9, <1>10

\* handle_oidc_callback enters an account for the identity it was made for or
\* linked to, whatever was deleted and added again in the portal.
THEOREM AccountsAreEnteredByTheirOwn == Spec => EnteredByItsOwn
<1>1. LoginInv /\ LinkInv /\ [Next]_vars =>
        [(enforced \/ orderly') /\ "edited" \notin disturbed =>
           \A r \in Requests :
             req'[r].at = "welcome" =>
               req[r].at = "welcome" \/ Who(r) \in entitled'[req'[r].user]]_vars
  BY EnteringIsEntitled
<1>2. QED
  BY <1>1, LoginInvariant, LinksInvariant, PTL DEF Spec, EnteredByItsOwn

=============================================================================
