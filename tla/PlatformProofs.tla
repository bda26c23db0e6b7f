--------------------------- MODULE PlatformProofs ---------------------------
(***************************************************************************)
(* Theorems about the platform around the engine, part by part: accounts,  *)
(* the tenant registry, webhooks, the login throttle and the rights of     *)
(* users.                                                                  *)
(***************************************************************************)
EXTENDS MCPlatform, TLAPS, FiniteSetTheorems

----------------------------------------------------------------------------
(* Accounts: an administrator remains, and old sessions end, for any number *)
(* of people, browsers, tenants and requests that cross.                    *)

Person == [status : {"none", "active", "disabled"}, roles : SUBSET Roles, pw : 0..MaxPasswords]

\* A request that gives a role gives one there is.
RolesExist == \A q \in requests : q.op \in {"create", "grant", "add"} => q.role \in Roles

\* A proof of identity is still good: its person is active and has the password it was made with.
Good(s) ==
    s # None /\ ~s.late => person[s.who].status = "active" /\ s.pw = person[s.who].pw

\* That holds of the sessions there are and of those about to be opened.
AllGood == \A b \in Browsers : Good(session[b]) /\ Good(signin[b])

AccountsInv == AccountsTypeOK /\ RolesExist /\ AllGood /\ AdministratorRemains

\* Somebody who is gone is still described.
LEMMA GoneIsPerson == Gone \in Person
  BY AccountsAssumption DEF Gone, Person, AccountsAssumption

\* No session is nobody's, and none is no session.
LEMMA NoneIsNobody == None.who \notin People /\ \A u \in People : \A pw : Proves(u, pw) # None
  BY AccountsAssumption DEF None, Proves, AccountsAssumption

\* Every request is about somebody.
LEMMA RequestAbout ==
    ASSUME AccountsTypeOK, NEW q \in requests
    PROVE  /\ q.who \in People /\ person[q.who] \in Person /\ q.role \in Roles \cup {"none"}
           /\ q \in [op : AccountOps, who : People, role : Roles \cup {"none"}]
  BY DEF AccountsTypeOK, Person

----------------------------------------------------------------------------
(* Steps that change one person *)

\* The people keep to their types when one of them becomes p.
LEMMA OneChanges ==
    ASSUME AccountsTypeOK, NEW u \in People, NEW p \in Person,
           person' = [person EXCEPT ![u] = p],
           p.status = "none" => p = Gone /\ u \notin invite',
           invite' \subseteq invite \cup {u}
    PROVE  /\ person' \in [People -> Person] /\ invite' \subseteq People
           /\ \A v \in People : person'[v].status = "none" => person'[v] = Gone /\ v \notin invite'
  <1>1. person \in [People -> Person] /\ invite \subseteq People
    BY DEF AccountsTypeOK, Person
  <1>2. \A v \in People : person'[v] = IF v = u THEN p ELSE person[v]
    BY <1>1
  <1> QED BY <1>1, <1>2 DEF AccountsTypeOK

\* Nobody who was active stops to be, and nobody's password changes.
Steady ==
    \A v \in People : person[v].status = "active" =>
        person'[v].status = "active" /\ person'[v].pw = person[v].pw

\* Then everything stays good.
LEMMA SteadyKeepsGood ==
    ASSUME AccountsTypeOK, AllGood, Steady, UNCHANGED << session, signin >>
    PROVE  AllGood'
  <1> SUFFICES ASSUME NEW b \in Browsers PROVE Good(session[b])' /\ Good(signin[b])'
    BY DEF AllGood
  <1>1. session[b] \in Proof \cup {None} /\ signin[b] \in Proof \cup {None}
    BY DEF AccountsTypeOK
  <1>2. (session[b] # None => session[b].who \in People) /\ (signin[b] # None => signin[b].who \in People)
    BY <1>1 DEF Proof
  <1>3. session'[b] = session[b] /\ signin'[b] = signin[b]
    OBVIOUS
  <1> QED BY <1>2, <1>3 DEF AllGood, Good, Steady

\* A change that KeepsAdministrator allows leaves an administrator, or makes one.
LEMMA KeptRemains ==
    ASSUME AccountsTypeOK, AdministratorRemains, NEW u \in People, NEW p \in Person, rolledBack' = rolledBack,
           person' = [person EXCEPT ![u] = p], KeepsAdministrator(u, p) \/ Administers(p)
    PROVE  AdministratorRemains'
  <1>1. \A v \in People : person'[v] = IF v = u THEN p ELSE person[v]
    BY DEF AccountsTypeOK
  <1>2. CASE Administrators = {}
    BY <1>2 DEF AdministratorRemains
  <1>3. CASE Administers(p)
    BY <1>1, <1>3 DEF AdministratorRemains, Administrators
  <1>4. CASE Administrators # {} /\ ~Administers(p)
    <2>1. PICK v \in Administrators : v # u
      <3>1. CASE Administers(person[u])
        BY <1>4, <3>1 DEF KeepsAdministrator
      <3>2. CASE ~Administers(person[u])
        BY <1>4, <3>2 DEF Administrators
      <3> QED BY <3>1, <3>2
    <2> QED BY <1>1, <2>1 DEF AdministratorRemains, Administrators
  <1> QED BY <1>2, <1>3, <1>4

\* A person changes who neither stops to be active, nor gets another password, nor is the last administrator.
LEMMA HarmlessChange ==
    ASSUME AccountsInv, NEW u \in People, NEW p \in Person,
           person' = [person EXCEPT ![u] = p],
           p.status = "none" => p = Gone /\ u \notin invite', invite' \subseteq invite \cup {u},
           person[u].status = "active" => p.status = "active" /\ p.pw = person[u].pw,
           KeepsAdministrator(u, p) \/ Administers(p),
           NEW q, q \in [op : AccountOps, who : People, role : Roles \cup {"none"}],
           q.op \in {"create", "grant", "add"} => q.role \in Roles,
           requests' \subseteq requests \cup {q},
           asked' \in 0..MaxRequests, UNCHANGED << session, signin, rolledBack >>
    PROVE  AccountsInv'
  <1> USE DEF AccountsInv
  <1>1. AccountsTypeOK'
    BY OneChanges DEF AccountsTypeOK, Person
  <1>2. RolesExist'
    BY DEF RolesExist
  <1>3. Steady
    BY DEF Steady, AccountsTypeOK
  <1>4. AllGood'
    BY <1>3, SteadyKeepsGood
  <1>5. AdministratorRemains'
    BY KeptRemains
  <1> QED BY <1>1, <1>2, <1>4, <1>5

\* Nobody changes.
LEMMA NobodyChanges ==
    ASSUME AccountsInv, UNCHANGED person, invite' \subseteq People,
           \A u \in invite' : person[u].status # "none",
           NEW q, q \in [op : AccountOps, who : People, role : Roles \cup {"none"}],
           q.op \in {"create", "grant", "add"} => q.role \in Roles,
           requests' \subseteq requests \cup {q},
           asked' \in 0..MaxRequests, rolledBack' = rolledBack,
           session' \in [Browsers -> Proof \cup {None}], signin' \in [Browsers -> Proof \cup {None}],
           \A b \in Browsers : session'[b] \in {None, session[b], signin[b]},
           \A b \in Browsers : signin'[b] \in {None, signin[b]} \/ Good(signin'[b])
    PROVE  AccountsInv'
  <1> USE DEF AccountsInv
  <1>1. AccountsTypeOK'
    BY DEF AccountsTypeOK
  <1>2. RolesExist'
    BY DEF RolesExist
  <1>3. AllGood'
    BY DEF AllGood, Good
  <1>4. AdministratorRemains'
    BY DEF AdministratorRemains, Administrators
  <1> QED BY <1>1, <1>2, <1>3, <1>4

----------------------------------------------------------------------------
(* Requests *)

\* A request that passed its checks waits to take effect.
LEMMA AskKeeps == AccountsInv /\ Ask => AccountsInv'
  <1> SUFFICES ASSUME AccountsInv, Ask PROVE AccountsInv'
    OBVIOUS
  <1>1. PICK q \in [op : AccountOps, who : People, role : Roles \cup {"none"}] :
          Admit(q) /\ (q.op \in {"create", "grant", "add"} => q.role \in Roles)
    <2> DEFINE Types == [op : AccountOps, who : People, role : Roles \cup {"none"}]
    <2>1. PICK a \in Principals, u \in People :
            \/ \E r \in Roles : AskCreate(a, u, r) \/ AskAddMembership(a, u, r) \/ AskRemoveMembership(a, u, r)
            \/ \E op \in {"enable", "disable"} : AskSetStatus(a, u, op)
            \/ AskReinvite(a, u)
      BY DEF Ask
    <2>2. \A op \in AccountOps, r \in Roles \cup {"none"} : Request(op, u, r) \in Types
      BY DEF Request
    <2>3. \A op, r : Request(op, u, r).op = op /\ Request(op, u, r).role = r
      BY DEF Request
    <2>4. CASE \E r \in Roles : AskCreate(a, u, r) \/ AskAddMembership(a, u, r) \/ AskRemoveMembership(a, u, r)
      <3>1. PICK r \in Roles : Admit(Request("create", u, r)) \/ Admit(Request("add", u, r)) \/ Admit(Request("remove", u, r))
        BY <2>4 DEF AskCreate, AskAddMembership, AskRemoveMembership
      <3> QED BY <2>2, <2>3, <3>1 DEF AccountOps
    <2>5. CASE (\E op \in {"enable", "disable"} : AskSetStatus(a, u, op)) \/ AskReinvite(a, u)
      <3>1. PICK op \in {"enable", "disable", "reinvite"} : Admit(Request(op, u, "none"))
        BY <2>5 DEF AskSetStatus, AskReinvite
      <3> QED BY <2>2, <2>3, <3>1 DEF AccountOps
    <2> QED BY <2>1, <2>4, <2>5
  <1>2. /\ requests' = requests \cup {q} /\ asked' = asked + 1 /\ asked < MaxRequests
        /\ UNCHANGED << person, invite, session, signin, rolledBack >>
    BY <1>1 DEF Admit
  <1>3. asked' \in 0..MaxRequests
    BY <1>2, AccountsAssumption DEF AccountsInv, AccountsTypeOK, AccountsAssumption
  <1>4. \A u \in invite' : person[u].status # "none"
    BY <1>2 DEF AccountsInv, AccountsTypeOK
  <1> QED BY <1>1, <1>2, <1>3, <1>4, NobodyChanges DEF AccountsInv, AccountsTypeOK

\* A request takes effect without harm: creating, granting, inviting, enabling, adding, removing.
LEMMA HarmlessRequest ==
    ASSUME AccountsInv, NEW q \in requests,
           \/ CreateUser(q) \/ GrantFirst(q) \/ InviteFirst(q) \/ Enable(q)
           \/ AddMembership(q) \/ RemoveMembership(q) \/ Reinvite(q)
    PROVE  AccountsInv'
  <1> DEFINE RequestType == [op : AccountOps, who : People, role : Roles \cup {"none"}]
             u == q.who
  <1>1. u \in People /\ person[u] \in Person /\ q \in RequestType
    BY RequestAbout DEF AccountsInv
  <1>2. q.op \in {"create", "grant", "add"} => q.role \in Roles
    BY DEF AccountsInv, RolesExist
  <1>3. asked \in 0..MaxRequests /\ invite \subseteq People /\ person \in [People -> Person]
    BY DEF AccountsInv, AccountsTypeOK, Person
  <1>4. /\ \A v \in invite : person[v].status # "none"
        /\ person[u].status = "none" => person[u] = Gone /\ u \notin invite
        /\ session \in [Browsers -> Proof \cup {None}] /\ signin \in [Browsers -> Proof \cup {None}]
    BY <1>1 DEF AccountsInv, AccountsTypeOK
  <1>5. UNCHANGED << session, signin, asked, rolledBack >>
    BY DEF CreateUser, GrantFirst, InviteFirst, Enable, AddMembership, RemoveMembership, Reinvite
  <1>6. CASE InviteFirst(q) \/ Reinvite(q) \/ (UNCHANGED << person, invite >> /\ requests' = requests \ {q})
    <2>1. UNCHANGED person /\ invite' \subseteq People /\ requests' \subseteq requests \cup {q}
      BY <1>1, <1>3, <1>6 DEF InviteFirst, Reinvite
    <2>2. \A v \in invite' : person[v].status # "none"
      BY <1>4, <1>6 DEF InviteFirst, Reinvite
    <2> QED BY <1>1, <1>2, <1>3, <1>4, <1>5, <2>1, <2>2, NobodyChanges
  <1>7. CASE CreateUser(q)
    <2>1. CASE person[u].status = "none"
      <3> DEFINE p == [status |-> "active", roles |-> {}, pw |-> 0]
                 g == [q EXCEPT !.op = "grant"]
      <3>1. p \in Person /\ person' = [person EXCEPT ![u] = p] /\ invite' = invite
        BY <1>7, <2>1, AccountsAssumption DEF CreateUser, Person, AccountsAssumption
      <3>2. g \in RequestType /\ g.role \in Roles
        BY <1>1, <1>2, <1>7 DEF CreateUser, AccountOps
      <3>3. requests' \subseteq requests \cup {g}
        BY <1>7, <2>1 DEF CreateUser
      <3>4. KeepsAdministrator(u, p)
        BY <2>1 DEF KeepsAdministrator, Administers
      <3> HIDE DEF p, g
      <3>5. p.status = "active"
        BY DEF p
      <3> QED BY <1>1, <1>3, <1>5, <2>1, <3>1, <3>2, <3>3, <3>4, <3>5, HarmlessChange
    <2>2. CASE person[u].status # "none"
      BY <1>6, <1>7, <2>2 DEF CreateUser
    <2> QED BY <2>1, <2>2
  <1>8. CASE GrantFirst(q)
    <2> DEFINE p == [person[u] EXCEPT !.roles = @ \cup {q.role}]
               g == [q EXCEPT !.op = "invite"]
    <2>1. q.role \in Roles /\ person[u].status # "none"
      BY <1>2, <1>8 DEF GrantFirst
    <2>2. person' = [person EXCEPT ![u] = p] /\ invite' = invite
      BY <1>8 DEF GrantFirst
    <2>3. p \in Person /\ p.status = person[u].status /\ p.pw = person[u].pw /\ p.roles = person[u].roles \cup {q.role}
      BY <1>1, <2>1 DEF Person
    <2>4. g \in RequestType /\ g.op = "invite" /\ requests' \subseteq requests \cup {g}
      BY <1>1, <1>8 DEF GrantFirst, AccountOps
    <2>5. KeepsAdministrator(u, p)
      BY <2>3 DEF KeepsAdministrator, Administers
    <2> HIDE DEF p, g
    <2> QED BY <1>1, <1>3, <1>5, <2>1, <2>2, <2>3, <2>4, <2>5, HarmlessChange
  <1>9. CASE Enable(q)
    <2> DEFINE p == [person[u] EXCEPT !.status = IF @ = "none" THEN @ ELSE "active"]
    <2>1. person' = [person EXCEPT ![u] = p] /\ invite' = invite /\ requests' \subseteq requests \cup {q}
      BY <1>9 DEF Enable
    <2>2. p \in Person /\ p.pw = person[u].pw /\ p.roles = person[u].roles
          /\ p.status = IF person[u].status = "none" THEN "none" ELSE "active"
      BY <1>1 DEF Person
    <2>3. KeepsAdministrator(u, p)
      BY <2>2 DEF KeepsAdministrator, Administers
    <2>4. p.status = "none" => p = Gone
      <3> SUFFICES ASSUME person[u].status = "none" PROVE p = Gone
        BY <2>2
      <3>1. p = person[u]
        BY <1>1 DEF Person
      <3> QED BY <1>4, <3>1
    <2> HIDE DEF p
    <2> QED BY <1>1, <1>2, <1>3, <1>4, <1>5, <2>1, <2>2, <2>3, <2>4, HarmlessChange
  <1>10. CASE AddMembership(q)
    <2> DEFINE p == [person[u] EXCEPT !.roles = IF person[u].status = "none" THEN @ ELSE @ \cup {q.role}]
    <2>1. person' = [person EXCEPT ![u] = p] /\ invite' = invite /\ requests' \subseteq requests \cup {q} /\ q.role \in Roles
      BY <1>2, <1>10 DEF AddMembership
    <2>2. p \in Person /\ p.pw = person[u].pw /\ p.status = person[u].status
          /\ p.roles = IF person[u].status = "none" THEN person[u].roles ELSE person[u].roles \cup {q.role}
      BY <1>1, <2>1 DEF Person
    <2>3. KeepsAdministrator(u, p)
      BY <2>2 DEF KeepsAdministrator, Administers
    <2>4. p.status = "none" => p = Gone
      BY <1>1, <1>4, <2>2 DEF Person, Gone
    <2> HIDE DEF p
    <2> QED BY <1>1, <1>2, <1>3, <1>4, <1>5, <2>1, <2>2, <2>3, <2>4, HarmlessChange
  <1>11. CASE RemoveMembership(q)
    <2> DEFINE p == [person[u] EXCEPT !.roles = @ \ {q.role}]
    <2>1. CASE q.role \in PlatformRoles => KeepsAdministrator(u, p)
      <3>1. person' = [person EXCEPT ![u] = p] /\ invite' = invite /\ requests' \subseteq requests \cup {q}
        BY <1>11, <2>1 DEF RemoveMembership
      <3>2. p \in Person /\ p.pw = person[u].pw /\ p.status = person[u].status /\ p.roles = person[u].roles \ {q.role}
        BY <1>1 DEF Person
      <3>3. KeepsAdministrator(u, p)
        <4>1. CASE q.role \in PlatformRoles
          BY <2>1, <4>1
        <4>2. CASE q.role \notin PlatformRoles
          BY <3>2, <4>2 DEF KeepsAdministrator, Administers
        <4> QED BY <4>1, <4>2
      <3>4. p.status = "none" => p = Gone
        <4> SUFFICES ASSUME person[u].status = "none" PROVE p = Gone
          BY <3>2
        <4>1. person[u].roles \ {q.role} = person[u].roles
          BY <1>4 DEF Gone
        <4>2. p = person[u]
          BY <1>1, <4>1 DEF Person
        <4> QED BY <1>4, <4>2
      <3> HIDE DEF p
      <3> QED BY <1>1, <1>2, <1>3, <1>4, <1>5, <3>1, <3>2, <3>3, <3>4, HarmlessChange
    <2>2. CASE ~(q.role \in PlatformRoles => KeepsAdministrator(u, p))
      BY <1>6, <1>11, <2>2 DEF RemoveMembership
    <2> QED BY <2>1, <2>2
  <1> QED BY <1>6, <1>7, <1>8, <1>9, <1>10, <1>11

----------------------------------------------------------------------------
(* Steps that end sessions *)

\* The sessions of a person are gone, and their sign-ins know nothing of it but are late.
LEMMA SessionsEnd ==
    ASSUME AccountsTypeOK, NEW u \in People
    PROVE  /\ SessionsWithout(u) \in [Browsers -> Proof \cup {None}]
           /\ SigninsLate(u) \in [Browsers -> Proof \cup {None}]
           /\ \A b \in Browsers :
                /\ SessionsWithout(u)[b] = None \/ (SessionsWithout(u)[b] = session[b] /\ session[b].who # u)
                /\ SigninsLate(u)[b].late \/ (SigninsLate(u)[b] = signin[b] /\ signin[b].who # u)
  <1>1. \A b \in Browsers : session[b] \in Proof \cup {None} /\ signin[b] \in Proof \cup {None}
    BY DEF AccountsTypeOK
  <1>2. ASSUME NEW b \in Browsers, signin[b].who = u
        PROVE  [signin[b] EXCEPT !.late = TRUE] \in Proof /\ [signin[b] EXCEPT !.late = TRUE].late
    <2>1. signin[b] \in Proof
      BY <1>1, <1>2, NoneIsNobody
    <2> QED BY <2>1 DEF Proof
  <1> QED BY <1>1, <1>2 DEF SessionsWithout, SigninsLate

\* UserStore.setStatus, refused or not.
LEMMA DisableKeeps ==
    ASSUME AccountsInv, NEW q \in requests, Disable(q)
    PROVE  AccountsInv'
  <1> USE DEF AccountsInv
  <1> DEFINE u == q.who
             p == [person[u] EXCEPT !.status = "disabled"]
  <1>1. u \in People /\ person[u] \in Person /\ q \in [op : AccountOps, who : People, role : Roles \cup {"none"}]
    BY RequestAbout
  <1>2. RolesExist' /\ requests' \subseteq requests /\ UNCHANGED << invite, asked, rolledBack >>
    BY DEF Disable, RolesExist
  <1>3. CASE person[u].status # "none" /\ KeepsAdministrator(u, p)
    <2>1. /\ person' = [person EXCEPT ![u] = p]
          /\ session' = SessionsWithout(u) /\ signin' = SigninsLate(u)
      BY <1>3 DEF Disable
    <2>2. p \in Person /\ p.status = "disabled"
      BY <1>1 DEF Person
    <2>3. AdministratorRemains'
      BY <1>1, <1>2, <1>3, <2>1, <2>2, KeptRemains
    <2>4. AccountsTypeOK'
      BY <1>1, <1>2, <2>1, <2>2, OneChanges, SessionsEnd DEF AccountsTypeOK, Person
    <2>5. \A v \in People \ {u} : person'[v] = person[v]
      BY <2>1 DEF AccountsTypeOK
    <2>6. ASSUME NEW b \in Browsers PROVE Good(session[b])' /\ Good(signin[b])'
      <3>1. Good(session[b]) /\ Good(signin[b]) /\ session[b] \in Proof \cup {None} /\ signin[b] \in Proof \cup {None}
        BY DEF AllGood, AccountsTypeOK
      <3>2. Good(session[b])'
        <4>1. CASE session'[b] = None
          BY <4>1 DEF Good
        <4>2. CASE session'[b] = session[b] /\ session[b].who # u
          BY <1>1, <2>5, <3>1, <4>2 DEF Good, Proof
        <4> QED BY <1>1, <2>1, <4>1, <4>2, SessionsEnd
      <3>3. Good(signin[b])'
        <4>1. CASE signin'[b].late
          BY <4>1 DEF Good
        <4>2. CASE signin'[b] = signin[b] /\ signin[b].who # u
          BY <1>1, <2>5, <3>1, <4>2 DEF Good, Proof
        <4> QED BY <1>1, <2>1, <4>1, <4>2, SessionsEnd
      <3> QED BY <3>2, <3>3
    <2> QED BY <1>2, <2>3, <2>4, <2>6 DEF AllGood
  <1>4. CASE ~(person[u].status # "none" /\ KeepsAdministrator(u, p))
    <2>1. UNCHANGED << person, session, signin >>
      BY <1>4 DEF Disable
    <2> QED BY <1>2, <2>1 DEF AccountsTypeOK, AllGood, Good, AdministratorRemains, Administrators
  <1> QED BY <1>3, <1>4

\* The person whose creation failed goes, and all that hangs off them; if they administered, rolledBack says so.
LEMMA DeleteUserKeeps ==
    ASSUME AccountsInv, NEW q \in requests, DeleteUser(q)
    PROVE  AccountsInv'
  <1> USE DEF AccountsInv
  <1> DEFINE u == q.who
  <1>1. u \in People /\ person[u] \in Person
    BY RequestAbout
  <1>2. /\ person' = [person EXCEPT ![u] = Gone] /\ invite' = invite \ {u}
        /\ session' = SessionsWithout(u)
        /\ signin' = [b \in Browsers |-> IF signin[b].who = u THEN None ELSE signin[b]]
        /\ requests' \subseteq requests
        /\ rolledBack' = (rolledBack \/ person[u].roles \cap PlatformRoles # {}) /\ UNCHANGED asked
    BY DEF DeleteUser
  <1>3. RolesExist'
    BY <1>2 DEF RolesExist
  <1>4. rolledBack' \in BOOLEAN /\ signin' \in [Browsers -> Proof \cup {None}]
    BY <1>2 DEF AccountsTypeOK
  <1>5. AccountsTypeOK'
    BY <1>1, <1>2, <1>4, OneChanges, GoneIsPerson, SessionsEnd DEF AccountsTypeOK, Person
  <1>6. \A v \in People \ {u} : person'[v] = person[v]
    BY <1>2 DEF AccountsTypeOK
  <1>7. ASSUME NEW b \in Browsers PROVE Good(session[b])' /\ Good(signin[b])'
    <2>1. Good(session[b]) /\ Good(signin[b]) /\ session[b] \in Proof \cup {None} /\ signin[b] \in Proof \cup {None}
      BY DEF AllGood, AccountsTypeOK
    <2>2. session'[b] = None \/ (session'[b] = session[b] /\ session[b].who # u)
      BY <1>1, <1>2, SessionsEnd
    <2>3. signin'[b] = None \/ (signin'[b] = signin[b] /\ signin[b].who # u)
      BY <1>2
    <2> QED BY <1>1, <1>6, <2>1, <2>2, <2>3 DEF Good, Proof
  <1>8. AdministratorRemains'
    <2>1. CASE person[u].roles \cap PlatformRoles # {}
      BY <1>2, <2>1 DEF AdministratorRemains
    <2>2. CASE person[u].roles \cap PlatformRoles = {}
      <3>1. u \notin Administrators
        BY <2>2 DEF Administrators, Administers
      <3>2. Administrators \subseteq Administrators'
        BY <1>6, <3>1 DEF Administrators
      <3> QED BY <1>2, <2>2, <3>2 DEF AdministratorRemains
    <2> QED BY <2>1, <2>2
  <1> QED BY <1>3, <1>5, <1>7, <1>8 DEF AllGood

\* The new password goes with its sign-in only.
LEMMA AcceptInviteKeeps ==
    ASSUME AccountsInv, NEW b \in Browsers, NEW u \in People, AcceptInvite(b, u)
    PROVE  AccountsInv'
  <1> USE DEF AccountsInv
  <1> DEFINE p == [person[u] EXCEPT !.pw = @ + 1]
             s == Proves(u, person[u].pw + 1)
  <1>1. /\ person' = [person EXCEPT ![u] = p] /\ invite' = invite \ {u}
        /\ session' = SessionsWithout(u) /\ signin' = [SigninsLate(u) EXCEPT ![b] = s]
        /\ UNCHANGED << requests, asked, rolledBack >>
        /\ person[u].status = "active" /\ person[u].pw < MaxPasswords
    BY DEF AcceptInvite
  <1>2. person[u] \in Person
    BY DEF AccountsTypeOK, Person
  <1>3. person[u].pw + 1 \in 1..MaxPasswords
    BY <1>1, <1>2, AccountsAssumption DEF Person, AccountsAssumption
  <1>4. p \in Person /\ p.status = "active" /\ p.pw = person[u].pw + 1 /\ p.roles = person[u].roles
    BY <1>1, <1>2, <1>3 DEF Person
  <1>5. s \in Proof /\ s.who = u /\ s.pw = p.pw
    BY <1>3, <1>4 DEF Proof, Proves
  <1>6. signin' \in [Browsers -> Proof \cup {None}]
    BY <1>1, <1>5, SessionsEnd
  <1>7. AccountsTypeOK'
    BY <1>1, <1>4, <1>6, OneChanges, SessionsEnd DEF AccountsTypeOK, Person
  <1>8. AdministratorRemains'
    <2>1. KeepsAdministrator(u, p)
      BY <1>1, <1>4 DEF KeepsAdministrator, Administers
    <2> QED BY <1>1, <1>4, <2>1, KeptRemains
  <1>9. /\ \A v \in People \ {u} : person'[v] = person[v]
        /\ person'[u] = p
    BY <1>1 DEF AccountsTypeOK
  <1>10. ASSUME NEW c \in Browsers PROVE Good(session[c])' /\ Good(signin[c])'
    <2>1. Good(session[c]) /\ Good(signin[c]) /\ session[c] \in Proof \cup {None} /\ signin[c] \in Proof \cup {None}
      BY DEF AllGood, AccountsTypeOK
    <2>2. session'[c] = None \/ (session'[c] = session[c] /\ session[c].who # u)
      BY <1>1, SessionsEnd
    <2>3. Good(session[c])'
      BY <1>9, <2>1, <2>2 DEF Good, Proof
    <2>4. CASE c = b
      <3>1. signin'[c] = s
        BY <1>1, <2>4, SessionsEnd
      <3> QED BY <1>4, <1>5, <1>9, <2>3, <3>1 DEF Good
    <2>5. CASE c # b
      <3>1. signin'[c] = SigninsLate(u)[c]
        BY <1>1, <2>5
      <3>2. signin'[c].late \/ (signin'[c] = signin[c] /\ signin[c].who # u)
        BY <3>1, SessionsEnd
      <3> QED BY <1>9, <2>1, <2>3, <3>2 DEF Good, Proof
    <2> QED BY <2>4, <2>5
  <1>11. RolesExist'
    BY <1>1 DEF RolesExist
  <1> QED BY <1>7, <1>8, <1>10, <1>11 DEF AllGood

----------------------------------------------------------------------------
(* Signing in and out, and the command line *)

\* No account changes.
LEMMA SessionStep ==
    ASSUME AccountsInv, NEW b \in Browsers,
           StartSession(b) \/ EndSession(b) \/ \E u \in People : Login(b, u)
    PROVE  AccountsInv'
  <1> DEFINE q0 == [op |-> "enable", who |-> First, role |-> "none"]
  <1>1. q0 \in [op : AccountOps, who : People, role : Roles \cup {"none"}] /\ q0.op = "enable"
    BY AccountsAssumption DEF AccountsAssumption, AccountOps
  <1>2. UNCHANGED << person, invite, requests, asked, rolledBack >>
    BY DEF StartSession, EndSession, Login
  <1>3. /\ session \in [Browsers -> Proof \cup {None}] /\ signin \in [Browsers -> Proof \cup {None}]
        /\ asked \in 0..MaxRequests /\ invite \subseteq People
        /\ \A v \in invite : person[v].status # "none"
    BY DEF AccountsInv, AccountsTypeOK
  <1>4. CASE StartSession(b) \/ EndSession(b)
    <2>1. /\ session' \in [Browsers -> Proof \cup {None}] /\ signin' \in [Browsers -> Proof \cup {None}]
          /\ \A c \in Browsers : session'[c] \in {None, session[c], signin[c]} /\ signin'[c] \in {None, signin[c]}
      BY <1>3, <1>4 DEF StartSession, EndSession
    <2> HIDE DEF q0
    <2> QED BY <1>1, <1>2, <1>3, <2>1, NobodyChanges
  <1>5. CASE \E u \in People : Login(b, u)
    <2>1. PICK u \in People : Login(b, u)
      BY <1>5
    <2>2. person[u] \in Person
      BY DEF AccountsInv, AccountsTypeOK, Person
    <2>3. Proves(u, person[u].pw) \in Proof /\ Good(Proves(u, person[u].pw))
      BY <2>1, <2>2 DEF Login, Proof, Proves, Good, Person
    <2>4. session' = session /\ signin' = [signin EXCEPT ![b] = Proves(u, person[u].pw)]
      BY <2>1 DEF Login
    <2>5. signin' \in [Browsers -> Proof \cup {None}]
      BY <1>3, <2>3, <2>4
    <2>6. \A c \in Browsers : signin'[c] \in {None, signin[c]} \/ Good(signin'[c])
      BY <1>3, <2>3, <2>4
    <2> HIDE DEF q0
    <2> QED BY <1>1, <1>2, <1>3, <2>4, <2>5, <2>6, NobodyChanges
  <1> QED BY <1>4, <1>5

\* One account changes at most.
LEMMA PersonStep ==
    ASSUME AccountsInv, NEW u \in People,
           LapseInvite(u) \/ CommandLineRemove(u) \/ \E r \in PlatformRoles : CommandLineGrant(u, r)
    PROVE  AccountsInv'
  <1> DEFINE q0 == [op |-> "enable", who |-> First, role |-> "none"]
  <1>1. q0 \in [op : AccountOps, who : People, role : Roles \cup {"none"}] /\ q0.op = "enable"
    BY AccountsAssumption DEF AccountsAssumption, AccountOps
  <1>2. /\ session \in [Browsers -> Proof \cup {None}] /\ signin \in [Browsers -> Proof \cup {None}]
        /\ asked \in 0..MaxRequests /\ invite \subseteq People
        /\ \A v \in invite : person[v].status # "none"
        /\ person[u] \in Person /\ (person[u].status = "none" => person[u] = Gone)
    BY DEF AccountsInv, AccountsTypeOK, Person
  <1>3. UNCHANGED << session, signin, requests, rolledBack >>
    BY DEF LapseInvite, CommandLineRemove, CommandLineGrant
  <1>4. asked' \in 0..MaxRequests
    BY <1>2, AccountsAssumption DEF LapseInvite, CommandLineRemove, CommandLineGrant, AccountsAssumption
  <1>5. CASE LapseInvite(u)
    <2>1. person' = person /\ invite' = invite \ {u}
      BY <1>5 DEF LapseInvite
    <2> HIDE DEF q0
    <2> QED BY <1>1, <1>2, <1>3, <1>4, <2>1, NobodyChanges
  <1>6. CASE CommandLineRemove(u)
    <2> DEFINE p == [person[u] EXCEPT !.roles = @ \ {"system_admin"}]
    <2>1. /\ person' = [person EXCEPT ![u] = p] /\ invite' = invite /\ KeepsAdministrator(u, p)
          /\ "system_admin" \in person[u].roles
      BY <1>6 DEF CommandLineRemove
    <2>2. p \in Person /\ p.status = person[u].status /\ p.pw = person[u].pw /\ p.status # "none"
      BY <1>2, <2>1 DEF Person, Gone
    <2> HIDE DEF p, q0
    <2> QED BY <1>1, <1>2, <1>3, <1>4, <2>1, <2>2, HarmlessChange
  <1>7. CASE \E r \in PlatformRoles : CommandLineGrant(u, r)
    <2>1. PICK r \in PlatformRoles : CommandLineGrant(u, r)
      BY <1>7
    <2> DEFINE p == [person[u] EXCEPT !.status = "active", !.roles = @ \cup {r}]
    <2>2. person' = [person EXCEPT ![u] = p] /\ invite' = invite \cup {u}
      BY <2>1 DEF CommandLineGrant
    <2>3. p \in Person /\ p.status = "active" /\ p.pw = person[u].pw /\ r \in p.roles
      BY <1>2, <2>1 DEF Person, Roles
    <2>4. Administers(p)
      BY <2>1, <2>3 DEF Administers
    <2> HIDE DEF p, q0
    <2> QED BY <1>1, <1>2, <1>3, <1>4, <2>2, <2>3, <2>4, HarmlessChange
  <1> QED BY <1>5, <1>6, <1>7

----------------------------------------------------------------------------
\* Every step keeps the invariant.
LEMMA AccountsStep == AccountsInv /\ [AccountsNext]_accountsVars => AccountsInv'
  <1> SUFFICES ASSUME AccountsInv, [AccountsNext]_accountsVars PROVE AccountsInv'
    OBVIOUS
  <1>1. CASE Ask
    BY <1>1, AskKeeps
  <1>2. CASE TakeEffect
    BY <1>2, HarmlessRequest, DisableKeeps, DeleteUserKeeps DEF TakeEffect
  <1>3. CASE SignIn
    BY <1>3, SessionStep, AcceptInviteKeeps DEF SignIn
  <1>4. CASE \E u \in People : LapseInvite(u) \/ CommandLineRemove(u) \/ \E r \in PlatformRoles : CommandLineGrant(u, r)
    BY <1>4, PersonStep
  <1>5. CASE UNCHANGED accountsVars
    BY <1>5 DEF accountsVars, AccountsInv, AccountsTypeOK, RolesExist, AllGood, Good, AdministratorRemains, Administrators
  <1> QED BY <1>1, <1>2, <1>3, <1>4, <1>5 DEF AccountsNext

\* At the start the first operator is active.
LEMMA AccountsStart == AccountsInit => AccountsInv
  <1> SUFFICES ASSUME AccountsInit PROVE AccountsInv
    OBVIOUS
  <1>1. AccountsTypeOK
    <2> USE AccountsAssumption DEF AccountsAssumption
    <2>1. [status |-> "active", roles |-> {"operator"}, pw |-> 0] \in Person
      BY DEF Person, Roles, PlatformRoles
    <2>2. person \in [People -> Person]
      BY <2>1, GoneIsPerson DEF AccountsInit
    <2>3. \A u \in People : person[u].status = "none" => person[u] = Gone /\ u \notin invite
      BY DEF AccountsInit, Gone
    <2>4. session \in [Browsers -> Proof \cup {None}] /\ signin \in [Browsers -> Proof \cup {None}]
      BY DEF AccountsInit
    <2>5. requests = {} /\ asked = 0 /\ rolledBack = FALSE /\ invite = {First}
      BY DEF AccountsInit
    <2>6. asked \in 0..MaxRequests
      BY <2>5, 0 \in 0..MaxRequests
    <2>8. rolledBack \in BOOLEAN /\ invite \subseteq People
      BY <2>5
    <2>7. requests \subseteq [op : AccountOps, who : People, role : Roles \cup {"none"}]
      BY <2>5
    <2> QED BY <2>2, <2>3, <2>4, <2>6, <2>7, <2>8 DEF AccountsTypeOK, Person
  <1>2. RolesExist /\ AllGood
    BY DEF AccountsInit, RolesExist, AllGood, Good
  <1>3. First \in Administrators
    BY AccountsAssumption DEF AccountsInit, Administrators, Administers, PlatformRoles, AccountsAssumption
  <1> QED BY <1>1, <1>2, <1>3 DEF AccountsInv, AdministratorRemains

\* Accounts: whatever requests, sign-ins and commands cross, types are kept, an administrator remains
\* and what is signed in or about to be is good or late.
THEOREM AccountsInvariance == AccountsSpec => []AccountsInv
  BY AccountsStart, AccountsStep, PTL DEF AccountsSpec

\* UserStore: "The platform always keeps an active operator or system admin": requests that passed their
\* checks long ago never take the last one away; only the undoing of a creation that failed does.
THEOREM AnAdministratorRemains == AccountsSpec => []AdministratorRemains
  BY AccountsInvariance, PTL DEF AccountsInv

\* Disabling a person or setting a password ends the sessions there are.
THEOREM SessionsOfOldPasswordsEnd == AccountsSpec => []OldSessionsEnd
  <1>1. AccountsInv => OldSessionsEnd
    BY DEF AccountsInv, AllGood, Good, OldSessionsEnd
  <1> QED BY <1>1, AccountsInvariance, PTL

----------------------------------------------------------------------------
(* The tenant registry: at most one set of workers that nobody has told to  *)
(* stop, for any number of tenants, requests, syncs and restarts.           *)

\* What the manager knows of a tenant is a set of workers of that tenant, on its way or there.
KnownAreAlive ==
    \A t \in TenantIds : running[t] # 0 =>
        workers[running[t]].of = t /\ workers[running[t]].stage \in {"starting", "on"}

RegistryInv == RegistryTypeOK /\ KnownAreAlive /\ OneSetPerTenant

\* The three say what they say of the manager and its sets of workers.
ManagerOK ==
    /\ running \in [TenantIds -> WorkerSets \cup {0}]
    /\ workers \in [WorkerSets -> [of : TenantIds \cup {NoTenant}, stage : Stages]]
    /\ \A w \in WorkerSets : workers[w].stage = "unused" <=> workers[w].of = NoTenant
    /\ KnownAreAlive /\ OneSetPerTenant

\* And of everything else.
RecordsOK ==
    /\ row \in [TenantIds -> {"none", "active", "suspended", "deleting"}]
    /\ schema \in [TenantIds -> 0..Latest]
    /\ key \in [TenantIds -> {"none", "active", "revoked"}]
    /\ behind \subseteq TenantIds
    /\ sync \in [at : {"idle", "read", "ensured"}, list : SUBSET TenantIds]
    /\ jobs \subseteq [op : RegistryOps, of : TenantIds, at : {"provision", "mark", "stop", "drop", "purge", "ensure"}]
    /\ restarts \in 0..MaxRestarts

\* The invariant in two parts, which different steps disturb.
LEMMA RegistryInvSplit == RegistryInv <=> ManagerOK /\ RecordsOK
  BY DEF RegistryInv, RegistryTypeOK, ManagerOK, RecordsOK

\* No set of workers is the number 0, which stands for none.
LEMMA WorkerSetsAreNumbers == \A w \in WorkerSets : w \in Nat /\ w # 0
  BY RegistryAssumption DEF WorkerSets, RegistryAssumption

\* No two tenants share a set of workers.
LEMMA NotShared ==
    ASSUME ManagerOK, NEW s \in TenantIds, NEW t \in TenantIds, running[s] = running[t], running[s] # 0
    PROVE  s = t
  BY DEF ManagerOK, KnownAreAlive

----------------------------------------------------------------------------
\* A request or a sync makes sure of the workers of some tenants: those that have none get unused sets,
\* no two of them the same.
LEMMA EnsuredKeeps ==
    ASSUME ManagerOK, NEW ts \in SUBSET TenantIds, Ensured(ts)
    PROVE  ManagerOK'
  <1> DEFINE new == {t \in ts : running[t] = 0}
  <1> USE WorkerSetsAreNumbers
  <1>1. PICK f \in [new -> Unused \cup {0}] :
          /\ \A s, t \in new : s # t /\ f[s] = f[t] => f[s] = 0
          /\ running' = [t \in TenantIds |-> IF t \in new THEN f[t] ELSE running[t]]
          /\ workers' = [w \in WorkerSets |->
               IF \E t \in new : f[t] = w
               THEN [of |-> CHOOSE t \in new : f[t] = w, stage |-> "starting"] ELSE workers[w]]
    BY DEF Ensured
  <1>2. \A t \in new : f[t] \in WorkerSets \cup {0}
    BY DEF Unused
  <1>3. \A t \in TenantIds : running[t] \in WorkerSets \cup {0}
    BY DEF ManagerOK
  <1>4. running' \in [TenantIds -> WorkerSets \cup {0}]
    BY <1>1, <1>2, <1>3
  \* The sets that are given out, and to whom.
  <1>5. ASSUME NEW t \in new, f[t] # 0
        PROVE  /\ f[t] \in WorkerSets /\ workers[f[t]].stage = "unused"
               /\ workers'[f[t]] = [of |-> t, stage |-> "starting"]
    <2>1. f[t] \in WorkerSets /\ workers[f[t]].stage = "unused"
      BY <1>5 DEF Unused
    <2>2. (CHOOSE u \in new : f[u] = f[t]) \in new /\ f[CHOOSE u \in new : f[u] = f[t]] = f[t]
      OBVIOUS
    <2>3. (CHOOSE u \in new : f[u] = f[t]) = t
      BY <1>1, <1>5, <2>2
    <2> QED BY <1>1, <2>1, <2>3
  <1>6. ASSUME NEW w \in WorkerSets, ~\E t \in new : f[t] = w PROVE workers'[w] = workers[w]
    BY <1>1, <1>6
  <1>7. \A w \in WorkerSets :
          /\ workers'[w] \in [of : TenantIds \cup {NoTenant}, stage : Stages]
          /\ workers'[w].stage = "unused" <=> workers'[w].of = NoTenant
    <2> SUFFICES ASSUME NEW w \in WorkerSets
                 PROVE  /\ workers'[w] \in [of : TenantIds \cup {NoTenant}, stage : Stages]
                        /\ workers'[w].stage = "unused" <=> workers'[w].of = NoTenant
      OBVIOUS
    <2>1. CASE \E t \in new : f[t] = w
      <3>1. PICK t \in new : f[t] = w
        BY <2>1
      <3>2. workers'[w] = [of |-> t, stage |-> "starting"]
        BY <1>5, <3>1
      <3> QED BY <3>2, RegistryAssumption DEF Stages, RegistryAssumption
    <2>2. CASE ~\E t \in new : f[t] = w
      BY <1>6, <2>2 DEF ManagerOK
    <2> QED BY <2>1, <2>2
  <1>8. workers' \in [WorkerSets -> [of : TenantIds \cup {NoTenant}, stage : Stages]]
    BY <1>1, <1>7
  <1>9. KnownAreAlive'
    <2> SUFFICES ASSUME NEW t \in TenantIds, running'[t] # 0
                 PROVE  workers'[running'[t]].of = t /\ workers'[running'[t]].stage \in {"starting", "on"}
      BY DEF KnownAreAlive
    <2>1. CASE t \in new
      BY <1>1, <1>5, <2>1
    <2>2. CASE t \notin new
      <3>1. running'[t] = running[t]
        BY <1>1, <2>2
      <3>2. workers[running[t]].of = t /\ workers[running[t]].stage \in {"starting", "on"}
        BY <3>1 DEF ManagerOK, KnownAreAlive
      <3>3. ~\E u \in new : f[u] = running[t]
        BY <1>5, <3>1, <3>2
      <3> QED BY <1>3, <1>6, <3>1, <3>2, <3>3
    <2> QED BY <2>1, <2>2
  <1>10. OneSetPerTenant'
    <2> SUFFICES ASSUME NEW w \in WorkerSets, workers'[w].stage \in {"starting", "on"}
                 PROVE  running'[workers'[w].of] = w
      BY DEF OneSetPerTenant
    <2>1. CASE \E t \in new : f[t] = w
      <3>1. PICK t \in new : f[t] = w
        BY <2>1
      <3> QED BY <1>1, <1>5, <3>1
    <2>2. CASE ~\E t \in new : f[t] = w
      <3>1. workers'[w] = workers[w]
        BY <1>6, <2>2
      <3>2. running[workers[w].of] = w /\ workers[w].of \in TenantIds
        BY <3>1 DEF ManagerOK, OneSetPerTenant
      <3>3. workers[w].of \notin new
        BY <3>2
      <3> QED BY <1>1, <3>1, <3>2, <3>3
    <2> QED BY <2>1, <2>2
  <1> QED BY <1>4, <1>7, <1>8, <1>9, <1>10 DEF ManagerOK

\* The workers of some tenants are told to stop, and the manager forgets them.
LEMMA StoppedKeeps ==
    ASSUME ManagerOK, NEW ts \in SUBSET TenantIds, Stopped(ts)
    PROVE  ManagerOK'
  <1> USE WorkerSetsAreNumbers
  <1>1. /\ running' = [t \in TenantIds |-> IF t \in ts THEN 0 ELSE running[t]]
        /\ workers' = [w \in WorkerSets |->
             IF \E t \in ts : running[t] = w THEN [workers[w] EXCEPT !.stage = "condemned"] ELSE workers[w]]
    BY DEF Stopped
  <1>2. running' \in [TenantIds -> WorkerSets \cup {0}]
    BY <1>1 DEF ManagerOK
  <1>3. \A w \in WorkerSets : workers[w] \in [of : TenantIds \cup {NoTenant}, stage : Stages]
    BY DEF ManagerOK
  <1>4. ASSUME NEW w \in WorkerSets, \E t \in ts : running[t] = w
        PROVE  /\ workers'[w].of = workers[w].of /\ workers'[w].stage = "condemned"
               /\ workers[w].of # NoTenant
               /\ workers'[w] \in [of : TenantIds \cup {NoTenant}, stage : Stages]
    <2>1. workers[w].of # NoTenant
      BY <1>4, RegistryAssumption DEF ManagerOK, KnownAreAlive, RegistryAssumption
    <2>2. workers'[w] = [workers[w] EXCEPT !.stage = "condemned"]
      BY <1>1, <1>4
    <2> QED BY <1>3, <2>1, <2>2 DEF Stages
  <1>5. ASSUME NEW w \in WorkerSets, ~\E t \in ts : running[t] = w PROVE workers'[w] = workers[w]
    BY <1>1, <1>5
  <1>6. \A w \in WorkerSets :
          /\ workers'[w] \in [of : TenantIds \cup {NoTenant}, stage : Stages]
          /\ workers'[w].stage = "unused" <=> workers'[w].of = NoTenant
    BY <1>3, <1>4, <1>5 DEF ManagerOK
  <1>7. workers' \in [WorkerSets -> [of : TenantIds \cup {NoTenant}, stage : Stages]]
    BY <1>1, <1>6
  <1>8. KnownAreAlive'
    <2> SUFFICES ASSUME NEW t \in TenantIds, running'[t] # 0
                 PROVE  workers'[running'[t]].of = t /\ workers'[running'[t]].stage \in {"starting", "on"}
      BY DEF KnownAreAlive
    <2>1. t \notin ts /\ running'[t] = running[t]
      BY <1>1
    <2>2. ~\E s \in ts : running[s] = running[t]
      BY <2>1, NotShared
    <2>3. running[t] \in WorkerSets
      BY <2>1 DEF ManagerOK
    <2> QED BY <1>5, <2>1, <2>2, <2>3 DEF ManagerOK, KnownAreAlive
  <1>9. OneSetPerTenant'
    <2> SUFFICES ASSUME NEW w \in WorkerSets, workers'[w].stage \in {"starting", "on"}
                 PROVE  running'[workers'[w].of] = w
      BY DEF OneSetPerTenant
    <2>1. ~\E t \in ts : running[t] = w
      BY <1>4
    <2>2. workers'[w] = workers[w]
      BY <1>5, <2>1
    <2>3. running[workers[w].of] = w /\ workers[w].of \in TenantIds
      BY <2>2 DEF ManagerOK, OneSetPerTenant
    <2> QED BY <1>1, <2>1, <2>2, <2>3
  <1> QED BY <1>2, <1>6, <1>7, <1>8, <1>9 DEF ManagerOK

\* One set of workers goes on to another stage, and the manager forgets it if it was never to start.
LEMMA StageKeeps ==
    ASSUME ManagerOK, NEW w \in WorkerSets, Started(w) \/ StartFails(w) \/ StopEnds(w)
    PROVE  ManagerOK'
  <1> USE WorkerSetsAreNumbers DEF ManagerOK
  <1>1. workers[w] \in [of : TenantIds \cup {NoTenant}, stage : Stages]
    OBVIOUS
  <1>2. CASE Started(w)
    <2>1. workers' = [workers EXCEPT ![w].stage = "on"] /\ running' = running
      BY <1>2 DEF Started, Registry
    <2>2. workers[w].stage = "starting"
      BY <1>2 DEF Started
    <2>3. workers' \in [WorkerSets -> [of : TenantIds \cup {NoTenant}, stage : Stages]]
      BY <2>1 DEF Stages
    <2> QED BY <2>1, <2>2, <2>3 DEF KnownAreAlive, OneSetPerTenant
  <1>3. CASE StartFails(w) \/ StopEnds(w)
    <2>1. workers' = [workers EXCEPT ![w].stage = "ended"] /\ workers[w].stage \in {"starting", "condemned"}
      BY <1>3 DEF StartFails, StopEnds
    <2>2. \A t \in TenantIds : running[t] = w => workers[w].stage \in {"starting", "on"}
      BY DEF KnownAreAlive
    <2>3. running' = [t \in TenantIds |-> IF running[t] = w THEN 0 ELSE running[t]]
      <3>1. CASE StartFails(w)
        BY <3>1 DEF StartFails
      <3>2. CASE StopEnds(w)
        <4>1. running' = running /\ \A t \in TenantIds : running[t] # w
          BY <3>2, <2>2 DEF StopEnds
        <4> QED BY <4>1
      <3> QED BY <1>3, <3>1, <3>2
    <2>4. running' \in [TenantIds -> WorkerSets \cup {0}]
      BY <2>3
    <2>5. workers' \in [WorkerSets -> [of : TenantIds \cup {NoTenant}, stage : Stages]]
      BY <2>1 DEF Stages
    <2>6. KnownAreAlive'
      BY <2>1, <2>3 DEF KnownAreAlive
    <2>7. OneSetPerTenant'
      BY <2>1, <2>3 DEF OneSetPerTenant
    <2>8. \A v \in WorkerSets : workers'[v].stage = "unused" <=> workers'[v].of = NoTenant
      BY <2>1
    <2> QED BY <2>4, <2>5, <2>6, <2>7, <2>8
  <1> QED BY <1>2, <1>3

----------------------------------------------------------------------------
\* A job stays well formed wherever it goes next.
LEMMA JobsStay ==
    ASSUME RecordsOK, NEW j \in jobs, NEW at \in {"provision", "mark", "stop", "drop", "purge", "ensure"},
           Goes(j, at) \/ Ends(j)
    PROVE  jobs' \subseteq [op : RegistryOps, of : TenantIds, at : {"provision", "mark", "stop", "drop", "purge", "ensure"}]
  BY DEF RecordsOK, Goes, Ends

\* Rows, schemas, keys, jobs and the list of a sync keep to their types.
LEMMA RecordsStep == RecordsOK /\ [RegistryNext]_registryVars => RecordsOK'
  <1> SUFFICES ASSUME RecordsOK, [RegistryNext]_registryVars PROVE RecordsOK'
    OBVIOUS
  <1> USE RegistryAssumption DEF RegistryAssumption
  <1> DEFINE Ats == {"provision", "mark", "stop", "drop", "purge", "ensure"}
             JobType == [op : RegistryOps, of : TenantIds, at : Ats]
  <1>1. CASE SyncReads \/ SyncEnsures \/ SyncStops
    BY <1>1 DEF SyncReads, SyncEnsures, SyncStops, RecordsOK, Registry, Manager, NoSync
  <1>2. CASE \E w \in WorkerSets : Started(w) \/ StartFails(w) \/ StopEnds(w)
    BY <1>2 DEF Started, StartFails, StopEnds, RecordsOK, Registry
  <1>3. CASE Restart
    <2>1. PICK failed \in SUBSET TenantIds, due \in SUBSET TenantIds :
            behind' = failed /\ schema' = [t \in TenantIds |-> IF t \in due \ failed THEN Latest ELSE schema[t]]
      BY <1>3 DEF Restart
    <2>2. /\ restarts' = restarts + 1 /\ restarts < MaxRestarts /\ jobs' = {} /\ sync' = NoSync
          /\ row' = row /\ key' = key
      BY <1>3 DEF Restart
    <2> QED BY <2>1, <2>2 DEF RecordsOK, NoSync
  <1>4. ASSUME NEW t \in TenantIds,
               Create(t) \/ Repair(t) \/ Suspend(t) \/ DeleteTenant(t) \/ Authenticate(t)
        PROVE  RecordsOK'
    <2>1. PICK op \in RegistryOps, at \in Ats : jobs' = jobs \cup {Job(op, t, at)}
      BY <1>4 DEF Create, Repair, Suspend, DeleteTenant, Authenticate, Receives, RegistryOps
    <2>2. jobs' \subseteq JobType
      BY <2>1 DEF Job, RecordsOK
    <2>3. row' \in [TenantIds -> {"none", "active", "suspended", "deleting"}]
      BY <1>4 DEF Create, Repair, Suspend, DeleteTenant, Authenticate, RecordsOK, Registry
    <2> QED BY <1>4, <2>2, <2>3 DEF Create, Repair, Suspend, DeleteTenant, Authenticate, RecordsOK, Registry
  <1>5. ASSUME NEW t \in TenantIds, Reactivate(t) \/ CreateKey(t) \/ RevokeKey(t)
        PROVE  RecordsOK'
    BY <1>5 DEF Reactivate, CreateKey, RevokeKey, RecordsOK
  <1>6. ASSUME NEW j \in jobs, Migrate(j) PROVE RecordsOK'
    <2>1. j.of \in TenantIds /\ schema[j.of] \in 0..Latest /\ schema[j.of] < Latest
      BY <1>6 DEF Migrate, RecordsOK
    <2>2. schema[j.of] + 1 \in 0..Latest
      BY <2>1
    <2>3. schema' \in [TenantIds -> 0..Latest]
      BY <1>6, <2>1, <2>2 DEF Migrate, RecordsOK
    <2> QED BY <1>6, <2>3 DEF Migrate, RecordsOK
  <1>7. ASSUME NEW j \in jobs,
               Provisioned(j) \/ ProvisionFails(j) \/ MarkDeleting(j) \/ Deactivate(j) \/ DropSchema(j)
               \/ DeleteTenantAndKeys(j) \/ StepFails(j) \/ EnsureWorkers(j)
        PROVE  RecordsOK'
    <2>1. j.of \in TenantIds
      BY DEF RecordsOK
    <2>2. Ends(j) \/ \E at \in Ats : Goes(j, at)
      BY <1>7 DEF Provisioned, ProvisionFails, MarkDeleting, Deactivate, DropSchema, DeleteTenantAndKeys,
                  StepFails, EnsureWorkers
    <2>3. jobs' \subseteq JobType
      BY <2>2, JobsStay
    <2>4. row' \in [TenantIds -> {"none", "active", "suspended", "deleting"}]
      BY <1>7, <2>1 DEF Provisioned, ProvisionFails, MarkDeleting, Deactivate, DropSchema, DeleteTenantAndKeys,
                        StepFails, EnsureWorkers, RecordsOK, Registry
    <2>5. key' \in [TenantIds -> {"none", "active", "revoked"}] /\ schema' \in [TenantIds -> 0..Latest]
      BY <1>7, <2>1 DEF Provisioned, ProvisionFails, MarkDeleting, Deactivate, DropSchema, DeleteTenantAndKeys,
                        StepFails, EnsureWorkers, RecordsOK, Registry
    <2>6. UNCHANGED << behind, sync, restarts >>
      BY <1>7 DEF Provisioned, ProvisionFails, MarkDeleting, Deactivate, DropSchema, DeleteTenantAndKeys,
                  StepFails, EnsureWorkers
    <2> QED BY <2>3, <2>4, <2>5, <2>6 DEF RecordsOK
  <1>8. CASE UNCHANGED registryVars
    BY <1>8 DEF registryVars, RecordsOK
  <1> QED BY <1>1, <1>2, <1>3, <1>4, <1>5, <1>6, <1>7, <1>8 DEF RegistryNext, WorkersStep

\* Whoever starts and stops workers, the manager and its sets stay in step.
LEMMA ManagerStep == ManagerOK /\ RecordsOK /\ [RegistryNext]_registryVars => ManagerOK'
  <1> SUFFICES ASSUME ManagerOK, RecordsOK, [RegistryNext]_registryVars PROVE ManagerOK'
    OBVIOUS
  <1>1. ASSUME UNCHANGED << running, workers >> PROVE ManagerOK'
    BY <1>1 DEF ManagerOK, KnownAreAlive, OneSetPerTenant
  <1>2. CASE SyncReads
    BY <1>1, <1>2 DEF SyncReads, Manager
  <1>3. CASE SyncEnsures
    <2>1. sync.list \in SUBSET TenantIds /\ Ensured(sync.list)
      BY <1>3 DEF SyncEnsures, RecordsOK
    <2> QED BY <2>1, EnsuredKeeps
  <1>4. CASE SyncStops
    <2>1. TenantIds \ sync.list \in SUBSET TenantIds /\ Stopped(TenantIds \ sync.list)
      BY <1>4 DEF SyncStops
    <2> QED BY <2>1, StoppedKeeps
  <1>5. CASE \E w \in WorkerSets : Started(w) \/ StartFails(w) \/ StopEnds(w)
    BY <1>5, StageKeeps
  <1>6. CASE Restart
    <2>1. /\ running' = [t \in TenantIds |-> 0]
          /\ workers' = [w \in WorkerSets |-> IF workers[w].stage = "unused" THEN workers[w]
                                              ELSE [workers[w] EXCEPT !.stage = "ended"]]
      BY <1>6 DEF Restart
    <2>2. running' \in [TenantIds -> WorkerSets \cup {0}] /\ KnownAreAlive'
      BY <2>1 DEF KnownAreAlive
    <2>3. ASSUME NEW w \in WorkerSets
          PROVE  /\ workers'[w] \in [of : TenantIds \cup {NoTenant}, stage : Stages]
                 /\ workers'[w].stage \in {"unused", "ended"}
                 /\ workers'[w].stage = "unused" <=> workers'[w].of = NoTenant
      <3>1. workers[w] \in [of : TenantIds \cup {NoTenant}, stage : Stages]
        BY DEF ManagerOK
      <3>2. CASE workers[w].stage = "unused"
        BY <2>1, <3>1, <3>2 DEF ManagerOK
      <3>3. CASE workers[w].stage # "unused"
        BY <2>1, <3>1, <3>3 DEF ManagerOK, Stages
      <3> QED BY <3>2, <3>3
    <2>4. OneSetPerTenant'
      BY <2>3 DEF OneSetPerTenant
    <2> QED BY <2>1, <2>2, <2>3, <2>4 DEF ManagerOK
  <1>7. ASSUME NEW t \in TenantIds,
               \/ Create(t) \/ Repair(t) \/ Suspend(t) \/ Reactivate(t) \/ DeleteTenant(t)
               \/ CreateKey(t) \/ RevokeKey(t) \/ Authenticate(t)
        PROVE  ManagerOK'
    BY <1>1, <1>7 DEF Create, Repair, Suspend, Reactivate, DeleteTenant, CreateKey, RevokeKey, Authenticate, Manager
  <1>8. ASSUME NEW j \in jobs, Deactivate(j) PROVE ManagerOK'
    <2>1. {j.of} \in SUBSET TenantIds /\ Stopped({j.of})
      BY <1>8 DEF Deactivate, RecordsOK
    <2> QED BY <2>1, StoppedKeeps
  <1>9. ASSUME NEW j \in jobs, EnsureWorkers(j) PROVE ManagerOK'
    <2>1. {j.of} \in SUBSET TenantIds /\ Ensured({j.of})
      BY <1>9 DEF EnsureWorkers, RecordsOK
    <2> QED BY <2>1, EnsuredKeeps
  <1>10. ASSUME NEW j \in jobs,
                \/ Migrate(j) \/ Provisioned(j) \/ ProvisionFails(j) \/ MarkDeleting(j) \/ DropSchema(j)
                \/ DeleteTenantAndKeys(j) \/ StepFails(j)
         PROVE  ManagerOK'
    BY <1>1, <1>10 DEF Migrate, Provisioned, ProvisionFails, MarkDeleting, DropSchema, DeleteTenantAndKeys,
                       StepFails, Manager
  <1>11. CASE UNCHANGED registryVars
    BY <1>1, <1>11 DEF registryVars
  <1> QED BY <1>2, <1>3, <1>4, <1>5, <1>6, <1>7, <1>8, <1>9, <1>10, <1>11 DEF RegistryNext, WorkersStep

----------------------------------------------------------------------------
\* At the start there are no tenants.
LEMMA RegistryStart == RegistryInit => RegistryInv
  <1> SUFFICES ASSUME RegistryInit PROVE ManagerOK /\ RecordsOK
    BY RegistryInvSplit
  <1>1. ManagerOK
    BY RegistryAssumption DEF RegistryInit, ManagerOK, KnownAreAlive, OneSetPerTenant, RegistryAssumption, Stages
  <1>2. RecordsOK
    BY RegistryAssumption DEF RegistryInit, RecordsOK, RegistryAssumption, NoSync
  <1> QED BY <1>1, <1>2

\* Every step of the registry and its manager keeps both halves.
LEMMA RegistryStep == RegistryInv /\ [RegistryNext]_registryVars => RegistryInv'
  <1> SUFFICES ASSUME ManagerOK, RecordsOK, [RegistryNext]_registryVars PROVE ManagerOK' /\ RecordsOK'
    BY RegistryInvSplit DEF RegistryInv, RegistryTypeOK, ManagerOK, RecordsOK
  <1> QED BY ManagerStep, RecordsStep

\* TenantWorkerManager: however requests, syncs, suspensions, deletions, failed starts and restarts
\* meet, the registry and the manager keep to their types, the manager only knows sets that are alive,
\* and a tenant has at most one of them.
THEOREM RegistryInvariance == RegistrySpec => []RegistryInv
  BY RegistryStart, RegistryStep, PTL DEF RegistrySpec

\* Two processes at the start of one tenant's workers would handle its events twice: there is never
\* more than one set of workers for a tenant that nobody has told to stop, and the manager knows it.
THEOREM AtMostOneSet == RegistrySpec => []OneSetPerTenant
  BY RegistryInvariance, PTL DEF RegistryInv

\* Rows, schemas, keys and jobs of tenants keep to their types; a set of workers that is used has a tenant.
THEOREM RegistryTypes == RegistrySpec => []RegistryTypeOK
  BY RegistryInvariance, PTL DEF RegistryInv

----------------------------------------------------------------------------
(* Webhooks: a delivery keeps to its limits for any number of webhooks,     *)
(* events, addresses and attempts, wherever names come to point.            *)

DeliveryType == [stage : DeliveryStages, attempt : 0..MaxAttempts, left : SUBSET Addresses]

\* What a delivery in progress is about to connect to was checked, and there is another attempt after a failure
\* only if one is left.
OnTheWay ==
    \A d \in Ids :
        /\ \A a \in delivery[d].left : ~IsBlockedAddress(a, HostOf(d[1]))
        /\ delivery[d].stage = "waiting" => delivery[d].attempt < MaxAttempts
        /\ delivery[d].stage \in {"sending", "connecting"} => delivery[d].attempt > 0
        /\ delivery[d].stage = "none" => delivery[d] = NotStarted
        /\ delivery[d].stage # "none" => d[2] \in published

WebhooksInv == WebhooksTypeOK /\ OnTheWay /\ DeliveriesKeepToLimits

\* The part of it about one delivery.
Fits(d, x, n) ==
    /\ x \in DeliveryType /\ n \in Nat
    /\ x.left # {} <=> x.stage = "connecting"
    /\ \A a \in x.left : ~IsBlockedAddress(a, HostOf(d[1]))
    /\ x.stage = "waiting" => x.attempt < MaxAttempts
    /\ x.stage \in {"sending", "connecting"} => x.attempt > 0
    /\ x.stage = "none" => x = NotStarted
    /\ n <= x.attempt
    /\ x.stage \in {"sending", "connecting"} => n <= x.attempt - 1

\* And the rest of it.
RestFits ==
    /\ registration \in [Hooks -> {"new", "saved", "deleted"}]
    /\ published \subseteq Events
    /\ pointsTo \in [Hosts -> SUBSET Addresses]
    /\ contacted \subseteq Hosts \X Addresses
    /\ subscribed \in BOOLEAN
    /\ delivery \in [Ids -> DeliveryType] /\ connected \in [Ids -> Nat]
    /\ \A c \in contacted : ~IsBlockedAddress(c[2], c[1])
    /\ \A d \in Ids : delivery[d].stage # "none" => d[2] \in published

\* The invariant, delivery by delivery.
LEMMA DeliveryInvSplit == WebhooksInv <=> RestFits /\ \A d \in Ids : Fits(d, delivery[d], connected[d])
  <1> USE WebhookAssumption DEF WebhookAssumption
  <1>1. WebhooksInv => RestFits /\ \A d \in Ids : Fits(d, delivery[d], connected[d])
    <2> SUFFICES ASSUME WebhooksInv PROVE RestFits /\ \A d \in Ids : Fits(d, delivery[d], connected[d])
      OBVIOUS
    <2>1. RestFits
      BY DEF WebhooksInv, WebhooksTypeOK, RestFits, DeliveryType, DeliveriesKeepToLimits, OnTheWay
    <2>2. ASSUME NEW d \in Ids PROVE Fits(d, delivery[d], connected[d])
      <3>1. delivery[d] \in DeliveryType /\ connected[d] \in Nat
        BY DEF WebhooksInv, WebhooksTypeOK, DeliveryType
      <3> QED BY <3>1 DEF WebhooksInv, WebhooksTypeOK, OnTheWay, DeliveriesKeepToLimits, Fits
    <2> QED BY <2>1, <2>2
  <1>2. ASSUME RestFits, \A d \in Ids : Fits(d, delivery[d], connected[d]) PROVE WebhooksInv
    <2>1. WebhooksTypeOK
      BY <1>2 DEF RestFits, Fits, WebhooksTypeOK, DeliveryType
    <2>2. OnTheWay
      BY <1>2 DEF Fits, OnTheWay, RestFits
    <2>3. DeliveriesKeepToLimits
      <3>1. ASSUME NEW d \in Ids
            PROVE  /\ connected[d] <= delivery[d].attempt
                   /\ delivery[d].stage \in {"sending", "connecting", "waiting"} =>
                        connected[d] <= delivery[d].attempt - (IF delivery[d].stage = "waiting" THEN 0 ELSE 1)
        <4>1. Fits(d, delivery[d], connected[d])
          BY <1>2
        <4>2. delivery[d].attempt \in Nat /\ connected[d] \in Nat
          BY <4>1 DEF Fits, DeliveryType
        <4> QED BY <4>1, <4>2 DEF Fits
      <3> QED BY <1>2, <3>1 DEF RestFits, DeliveriesKeepToLimits
    <2> QED BY <2>1, <2>2, <2>3 DEF WebhooksInv
  <1> QED BY <1>1, <1>2

\* The invariant after a step.
LEMMA InvSplitPrime == RestFits' /\ (\A d \in Ids : Fits(d, delivery'[d], connected'[d])) => WebhooksInv'
  <1> SUFFICES ASSUME RestFits', \A d \in Ids : Fits(d, delivery'[d], connected'[d]) PROVE WebhooksInv'
    OBVIOUS
  <1> USE WebhookAssumption DEF WebhookAssumption
  <1>1. WebhooksTypeOK'
    BY DEF RestFits, Fits, WebhooksTypeOK, DeliveryType
  <1>2. OnTheWay'
    BY DEF Fits, OnTheWay, RestFits
  <1>3. DeliveriesKeepToLimits'
    <2>1. ASSUME NEW d \in Ids
          PROVE  /\ connected'[d] <= delivery'[d].attempt
                 /\ delivery'[d].stage \in {"sending", "connecting", "waiting"} =>
                      connected'[d] <= delivery'[d].attempt - (IF delivery'[d].stage = "waiting" THEN 0 ELSE 1)
      <3>1. Fits(d, delivery'[d], connected'[d])
        OBVIOUS
      <3>2. delivery'[d].attempt \in Nat /\ connected'[d] \in Nat
        BY <3>1 DEF Fits, DeliveryType
      <3> QED BY <3>1, <3>2 DEF Fits
    <2> QED BY <2>1 DEF RestFits, DeliveriesKeepToLimits
  <1> QED BY <1>1, <1>2, <1>3 DEF WebhooksInv

----------------------------------------------------------------------------
\* One delivery goes on and the others stay as they are.
LEMMA OneGoesOn ==
    ASSUME WebhooksInv, NEW d \in Ids, NEW x, NEW n,
           delivery' = [delivery EXCEPT ![d] = x], connected' = [connected EXCEPT ![d] = n],
           Fits(d, x, n), delivery[d].stage # "none", UNCHANGED << registration, published, pointsTo, subscribed >>,
           contacted' \subseteq Hosts \X Addresses, \A c \in contacted' : ~IsBlockedAddress(c[2], c[1])
    PROVE  WebhooksInv'
  <1>1. RestFits /\ \A e \in Ids : Fits(e, delivery[e], connected[e])
    BY DeliveryInvSplit
  <1>2. \A e \in Ids : delivery'[e] = (IF e = d THEN x ELSE delivery[e])
                       /\ connected'[e] = (IF e = d THEN n ELSE connected[e])
    BY <1>1 DEF RestFits
  <1>3. \A e \in Ids : Fits(e, delivery'[e], connected'[e])
    BY <1>1, <1>2
  <1>4. delivery' \in [Ids -> DeliveryType] /\ connected' \in [Ids -> Nat]
    BY <1>1 DEF RestFits, Fits
  <1>5. RestFits'
    BY <1>1, <1>2, <1>4 DEF RestFits
  <1> QED BY <1>3, <1>5, InvSplitPrime

\* What a failure makes of a delivery.
AfterFailure(x) ==
    [x EXCEPT !.stage = IF subscribed /\ x.attempt < MaxAttempts THEN "waiting" ELSE "failed", !.left = {}]

\* It fits as long as the delivery was connected to once per attempt at most.
LEMMA FailureFits ==
    ASSUME NEW d \in Ids, NEW x \in DeliveryType, NEW n \in Nat, n <= x.attempt
    PROVE  Fits(d, AfterFailure(x), n)
  <1> DEFINE y == AfterFailure(x)
  <1>1. y \in DeliveryType /\ y.attempt = x.attempt /\ y.left = {}
        /\ y.stage = IF subscribed /\ x.attempt < MaxAttempts THEN "waiting" ELSE "failed"
    BY DEF AfterFailure, DeliveryType, DeliveryStages
  <1>2. x.attempt \in Nat
    BY DEF DeliveryType
  <1> HIDE DEF y
  <1>3. Fits(d, y, n)
    BY <1>1, <1>2 DEF Fits
  <1> QED BY <1>3 DEF y

\* Nobody is connected to.
LEMMA QuietStep ==
    ASSUME WebhooksInv, NEW d \in Ids,
           \/ Resolve(d) \/ NoTarget(d) \/ Retry(d) \/ \E a \in Addresses : Unreachable(d, a)
    PROVE  WebhooksInv'
  <1> DEFINE x == delivery[d]
             n == connected[d]
  <1>1. RestFits /\ Fits(d, x, n)
    BY DeliveryInvSplit
  <1>2. x \in DeliveryType /\ n \in Nat /\ x.attempt \in Nat /\ n <= x.attempt
    BY <1>1 DEF Fits, DeliveryType
  <1>3. /\ UNCHANGED << registration, published, pointsTo, subscribed, connected, contacted >>
        /\ connected' = [connected EXCEPT ![d] = n]
        /\ contacted' \subseteq Hosts \X Addresses /\ \A c \in contacted' : ~IsBlockedAddress(c[2], c[1])
    <2>1. UNCHANGED << registration, published, pointsTo, subscribed, connected, contacted >>
      BY DEF Resolve, NoTarget, Retry, Unreachable
    <2>2. [connected EXCEPT ![d] = n] = connected
      BY <1>1 DEF RestFits
    <2> QED BY <1>1, <2>1, <2>2 DEF RestFits
  <1>9. x.stage # "none"
    BY DEF Resolve, NoTarget, Retry, Unreachable
  <1>4. ASSUME Failed(d) PROVE WebhooksInv'
    <2>1. delivery' = [delivery EXCEPT ![d] = AfterFailure(x)]
      BY <1>4 DEF Failed, Becomes, AfterFailure
    <2> QED BY <1>2, <1>3, <1>9, <2>1, FailureFits, OneGoesOn
  <1>5. CASE Resolve(d)
    <2> DEFINE answers == pointsTo[HostOf(d[1])]
               y == [x EXCEPT !.stage = "connecting", !.left = answers]
    <2>1. HostOf(d[1]) \in Hosts
      BY WebhookAssumption DEF WebhookAssumption, Ids
    <2>2. answers \in SUBSET Addresses /\ answers # {} /\ \A a \in answers : ~IsBlockedAddress(a, HostOf(d[1]))
      BY <1>1, <1>5, <2>1 DEF Resolve, Target, RestFits
    <2>3. delivery' = [delivery EXCEPT ![d] = y]
      BY <1>5 DEF Resolve, Becomes
    <2>4. y \in DeliveryType /\ y.stage = "connecting" /\ y.left = answers /\ y.attempt = x.attempt
      BY <1>2, <2>2 DEF DeliveryType, DeliveryStages
    <2>5. x.attempt > 0 /\ n <= x.attempt - 1
      BY <1>1, <1>5 DEF Resolve, Fits
    <2> HIDE DEF y, answers
    <2>6. Fits(d, y, n)
      BY <1>2, <2>2, <2>4, <2>5 DEF Fits
    <2> QED BY <1>3, <1>9, <2>3, <2>6, OneGoesOn
  <1>6. CASE NoTarget(d)
    BY <1>4, <1>6 DEF NoTarget
  <1>7. CASE Retry(d)
    <2> DEFINE y == [x EXCEPT !.stage = "sending", !.attempt = @ + 1]
    <2>1. x.stage = "waiting" /\ delivery' = [delivery EXCEPT ![d] = y]
      BY <1>7 DEF Retry, Becomes
    <2>2. x.attempt + 1 \in 0..MaxAttempts /\ x.left = {}
      BY <1>1, <1>2, <2>1, WebhookAssumption DEF Fits, WebhookAssumption
    <2>3. y \in DeliveryType /\ y.stage = "sending" /\ y.left = {} /\ y.attempt = x.attempt + 1
      BY <1>2, <2>2 DEF DeliveryType, DeliveryStages
    <2> HIDE DEF y
    <2>4. Fits(d, y, n)
      BY <1>2, <2>3 DEF Fits
    <2> QED BY <1>3, <1>9, <2>1, <2>4, OneGoesOn
  <1>8. ASSUME NEW a \in Addresses, Unreachable(d, a) PROVE WebhooksInv'
    <2>1. CASE x.left = {a}
      BY <1>4, <1>8, <2>1 DEF Unreachable
    <2>2. CASE x.left # {a}
      <3> DEFINE y == [x EXCEPT !.left = @ \ {a}]
      <3>1. x.stage = "connecting" /\ a \in x.left /\ delivery' = [delivery EXCEPT ![d] = y]
        BY <1>8, <2>2 DEF Unreachable, Becomes
      <3>2. y \in DeliveryType /\ y.stage = "connecting" /\ y.left = x.left \ {a} /\ y.attempt = x.attempt
        BY <1>2, <3>1 DEF DeliveryType
      <3>3. y.left # {}
        BY <2>2, <3>1, <3>2
      <3> HIDE DEF y
      <3>4. Fits(d, y, n)
        BY <1>1, <1>2, <3>1, <3>2, <3>3 DEF Fits
      <3> QED BY <1>3, <1>9, <3>1, <3>4, OneGoesOn
    <2> QED BY <2>1, <2>2
  <1> QED BY <1>5, <1>6, <1>7, <1>8

\* A server is reached, at an address that was checked: once more, and no more in this attempt.
LEMMA ReachingStep ==
    ASSUME WebhooksInv, NEW d \in Ids, NEW a \in Addresses, Accepted(d, a) \/ Rejected(d, a)
    PROVE  WebhooksInv'
  <1> DEFINE x == delivery[d]
             n == connected[d] + 1
  <1>1. RestFits /\ Fits(d, x, connected[d])
    BY DeliveryInvSplit
  <1>2. x.stage = "connecting" /\ a \in x.left
        /\ connected' = [connected EXCEPT ![d] = n]
        /\ contacted' = contacted \cup {<< HostOf(d[1]), a >>}
        /\ UNCHANGED << registration, published, pointsTo, subscribed >>
    BY DEF Accepted, Rejected, Reaches
  <1>3. x \in DeliveryType /\ n \in Nat /\ x.attempt \in Nat /\ n <= x.attempt
    BY <1>1, <1>2 DEF Fits, DeliveryType
  <1>4. ~IsBlockedAddress(a, HostOf(d[1])) /\ HostOf(d[1]) \in Hosts
    BY <1>1, <1>2, WebhookAssumption DEF Fits, WebhookAssumption, Ids
  <1>5. contacted' \subseteq Hosts \X Addresses /\ \A c \in contacted' : ~IsBlockedAddress(c[2], c[1])
    BY <1>1, <1>2, <1>4 DEF RestFits
  <1>6. CASE Accepted(d, a)
    <2> DEFINE y == [x EXCEPT !.stage = "ok", !.left = {}]
    <2>1. delivery' = [delivery EXCEPT ![d] = y]
      BY <1>6 DEF Accepted, Becomes
    <2>2. y \in DeliveryType /\ y.stage = "ok" /\ y.left = {} /\ y.attempt = x.attempt
      BY <1>3 DEF DeliveryType, DeliveryStages
    <2> HIDE DEF y, n
    <2>3. Fits(d, y, n)
      BY <1>3, <2>2 DEF Fits
    <2> QED BY <1>2, <1>5, <2>1, <2>3, OneGoesOn
  <1>7. CASE Rejected(d, a)
    <2>1. delivery' = [delivery EXCEPT ![d] = AfterFailure(x)]
      BY <1>7 DEF Rejected, Failed, Becomes, AfterFailure
    <2>2. Fits(d, AfterFailure(x), n)
      BY <1>3, FailureFits
    <2> HIDE DEF n
    <2> QED BY <1>2, <1>5, <2>1, <2>2, OneGoesOn
  <1> QED BY <1>6, <1>7

\* An event is published, and a delivery of its own starts for each webhook that is listed.
LEMMA DispatchStep ==
    ASSUME WebhooksInv, NEW e \in Events, Dispatch(e)
    PROVE  WebhooksInv'
  <1> DEFINE new == [stage |-> "sending", attempt |-> 1, left |-> {}]
  <1>1. RestFits /\ \A d \in Ids : Fits(d, delivery[d], connected[d])
    BY DeliveryInvSplit
  <1>2. PICK listed \in SUBSET Hooks :
          delivery' = [d \in Ids |-> IF d[1] \in listed /\ d[2] = e THEN new ELSE delivery[d]]
    BY DEF Dispatch
  <1>3. published' = published \cup {e} /\ e \notin published
        /\ UNCHANGED << registration, pointsTo, connected, contacted, subscribed >>
    BY DEF Dispatch
  <1>4. new \in DeliveryType
    BY WebhookAssumption DEF WebhookAssumption, DeliveryType, DeliveryStages
  <1>5. ASSUME NEW d \in Ids PROVE Fits(d, delivery'[d], connected'[d])
    <2>1. CASE d[1] \in listed /\ d[2] = e
      <3>1. delivery'[d] = new /\ delivery[d] = NotStarted
        BY <1>1, <1>2, <1>3, <2>1 DEF RestFits, Fits
      <3>2. connected'[d] = 0
        BY <1>1, <1>3, <3>1 DEF Fits, NotStarted
      <3> QED BY <1>4, <3>1, <3>2 DEF Fits
    <2>2. CASE ~(d[1] \in listed /\ d[2] = e)
      BY <1>1, <1>2, <1>3, <2>2
    <2> QED BY <2>1, <2>2
  <1>6. delivery' \in [Ids -> DeliveryType]
    BY <1>1, <1>2, <1>4 DEF RestFits
  <1>7. \A d \in Ids : delivery'[d].stage # "none" => d[2] \in published'
    BY <1>1, <1>2, <1>3 DEF RestFits
  <1>8. RestFits'
    BY <1>1, <1>3, <1>6, <1>7 DEF RestFits
  <1> QED BY <1>5, <1>8, InvSplitPrime

\* Deliveries under way are lost with the process.
LEMMA ProcessEndsStep ==
    ASSUME WebhooksInv, ProcessEnds
    PROVE  WebhooksInv'
  <1>1. RestFits /\ \A d \in Ids : Fits(d, delivery[d], connected[d])
    BY DeliveryInvSplit
  <1>2. /\ delivery' = [d \in Ids |-> IF delivery[d].stage \in {"sending", "connecting", "waiting"}
                                   THEN [delivery[d] EXCEPT !.stage = "lost", !.left = {}] ELSE delivery[d]]
        /\ subscribed' = FALSE /\ UNCHANGED << registration, published, pointsTo, connected, contacted >>
    BY DEF ProcessEnds
  <1>3. ASSUME NEW d \in Ids
        PROVE  Fits(d, delivery'[d], connected'[d]) /\ delivery'[d] \in DeliveryType
               /\ (delivery'[d].stage # "none" => delivery[d].stage # "none")
    <2> DEFINE x == delivery[d]
               y == [x EXCEPT !.stage = "lost", !.left = {}]
    <2>1. x \in DeliveryType /\ connected'[d] = connected[d]
      BY <1>1, <1>2 DEF RestFits
    <2>2. CASE x.stage \in {"sending", "connecting", "waiting"}
      <3>1. delivery'[d] = y
        BY <1>2, <2>2
      <3>2. y \in DeliveryType /\ y.stage = "lost" /\ y.left = {} /\ y.attempt = x.attempt
        BY <2>1 DEF DeliveryType, DeliveryStages
      <3> HIDE DEF y
      <3> QED BY <1>1, <2>1, <2>2, <3>1, <3>2 DEF Fits
    <2>3. CASE x.stage \notin {"sending", "connecting", "waiting"}
      BY <1>1, <1>2, <2>1, <2>3
    <2> QED BY <2>2, <2>3
  <1>4. delivery' \in [Ids -> DeliveryType]
    BY <1>2, <1>3
  <1>5. RestFits'
    BY <1>1, <1>2, <1>3, <1>4 DEF RestFits
  <1> QED BY <1>3, <1>5, InvSplitPrime

\* Webhooks come and go and names are pointed elsewhere: deliveries do not notice.
LEMMA OutsideStep ==
    ASSUME WebhooksInv,
           \/ \E h \in Hooks : Register(h) \/ DeleteWebhook(h)
           \/ \E host \in Hosts : Repoint(host)
           \/ StopDispatcher
           \/ UNCHANGED webhookVars
    PROVE  WebhooksInv'
  <1>1. RestFits /\ \A d \in Ids : Fits(d, delivery[d], connected[d])
    BY DeliveryInvSplit
  <1>2. UNCHANGED << published, delivery, connected, contacted >>
    BY DEF Register, DeleteWebhook, Repoint, StopDispatcher, webhookVars
  <1>3. registration' \in [Hooks -> {"new", "saved", "deleted"}] /\ subscribed' \in BOOLEAN
        /\ pointsTo' \in [Hosts -> SUBSET Addresses]
    BY <1>1 DEF Register, DeleteWebhook, Repoint, StopDispatcher, webhookVars, RestFits
  <1>4. RestFits'
    BY <1>1, <1>2, <1>3 DEF RestFits
  <1> QED BY <1>1, <1>2, <1>4, InvSplitPrime

----------------------------------------------------------------------------
\* At the start nothing is on its way.
LEMMA WebhooksStart == WebhooksInit => WebhooksInv
  <1> SUFFICES ASSUME WebhooksInit PROVE RestFits /\ \A d \in Ids : Fits(d, delivery[d], connected[d])
    BY DeliveryInvSplit
  <1>1. NotStarted \in DeliveryType
    BY WebhookAssumption DEF NotStarted, DeliveryType, DeliveryStages, WebhookAssumption
  <1>2. delivery \in [Ids -> DeliveryType] /\ connected \in [Ids -> Nat]
    BY <1>1 DEF WebhooksInit
  <1>3. RestFits
    BY <1>2 DEF WebhooksInit, RestFits, NotStarted
  <1>4. \A d \in Ids : Fits(d, delivery[d], connected[d])
    BY <1>1 DEF WebhooksInit, Fits, NotStarted
  <1> QED BY <1>3, <1>4

\* Every step of a delivery, and those around it.
LEMMA WebhooksStep == WebhooksInv /\ [WebhooksNext]_webhookVars => WebhooksInv'
  BY QuietStep, ReachingStep, DispatchStep, ProcessEndsStep, OutsideStep DEF WebhooksNext, Deliver

\* WebhookDispatcher: types, checked addresses and numbers of attempts are kept, whatever is delivered, deleted,
\* repointed and stopped at the same time.
THEOREM WebhooksInvariance == WebhooksSpec => []WebhooksInv
  BY WebhooksStart, WebhooksStep, PTL DEF WebhooksSpec

\* A receiver is reached once per attempt at most and not again after it accepted; connections go to checked
\* addresses only.
THEOREM LimitsAreKept == WebhooksSpec => []DeliveriesKeepToLimits
  BY WebhooksInvariance, PTL DEF WebhooksInv

----------------------------------------------------------------------------
(* The login throttle: its limits hold for any number of attempts, guards   *)
(* and tables.                                                              *)

\* What is tracked of a guard; the attempts under way are finitely many, so that they can be counted.
EntryType == [tracked : BOOLEAN, failures : Nat, pending : SUBSET Attempts, locked : BOOLEAN]
Countable(x) == x \in EntryType /\ IsFiniteSet(x.pending) /\ (~x.tracked => x = Untracked)

\* Unless its entry was disturbed, a guard knows of every attempt under way that uses it.
Registered ==
    \A a \in Attempts, g \in Guards :
        attempt[a] = "checking" /\ g \in Uses(a) /\ g \notin disturbed => a \in entry[g].pending

ThrottleInv == ThrottleTypeOK /\ Registered /\ LimitHolds /\ \A g \in Guards : Countable(entry[g])

\* What is in use by the entry x.
Used(x) == x.failures + Cardinality(x.pending)

\* The part of the invariant about one guard after a step that makes its entry x and leaves it locked or not.
Sits(g, x) ==
    /\ Countable(x)
    /\ g \notin disturbed' => Used(x) <= MaxFailures(g)
    /\ g \in locks' => x.tracked /\ x.locked
    /\ \A a \in Attempts : attempt'[a] = "checking" /\ g \in Uses(a) /\ g \notin disturbed' => a \in x.pending

\* A step keeps the invariant if it does for every guard.
LEMMA ThrottleParts ==
    ASSUME attempt' \in [Attempts -> {"new", "checking", "right", "wrong", "refused"}],
           disturbed' \subseteq Guards, locks' \subseteq Guards,
           entry' = [g \in Guards |-> entry'[g]], \A g \in Guards : Sits(g, entry'[g])
    PROVE  ThrottleInv'
  BY DEF ThrottleInv, ThrottleTypeOK, Registered, LimitHolds, InUse, Used, Sits, Countable, EntryType

\* And the invariant is what it says of every guard.
LEMMA GuardFacts ==
    ASSUME ThrottleInv, NEW g \in Guards
    PROVE  /\ Countable(entry[g])
           /\ g \notin disturbed => Used(entry[g]) <= MaxFailures(g)
           /\ g \in locks => entry[g].tracked /\ entry[g].locked
           /\ \A a \in Attempts : attempt[a] = "checking" /\ g \in Uses(a) /\ g \notin disturbed => a \in entry[g].pending
           /\ MaxFailures(g) \in Nat \ {0}
  BY ThrottleAssumption DEF ThrottleInv, Registered, LimitHolds, InUse, Used, ThrottleAssumption

\* Attempts are counted one by one.
LEMMA UsedFacts ==
    ASSUME NEW x, Countable(x), NEW a \in Attempts
    PROVE  /\ Used(x) \in Nat /\ Cardinality(x.pending) \in Nat
           /\ Countable([x EXCEPT !.pending = @ \ {a}])
           /\ IsFiniteSet(x.pending \cup {a}) /\ Cardinality(x.pending \cup {a}) <= Cardinality(x.pending) + 1
           /\ IsFiniteSet(x.pending \ {a})
           /\ Cardinality(x.pending \ {a}) = IF a \in x.pending THEN Cardinality(x.pending) - 1 ELSE Cardinality(x.pending)
<1>1. Cardinality(x.pending) \in Nat
  BY FS_CardinalityType DEF Countable
<1>2. IsFiniteSet(x.pending \cup {a}) /\ Cardinality(x.pending \cup {a}) <= Cardinality(x.pending) + 1
  BY <1>1, FS_AddElement DEF Countable
<1>3. /\ IsFiniteSet(x.pending \ {a})
      /\ Cardinality(x.pending \ {a}) = IF a \in x.pending THEN Cardinality(x.pending) - 1 ELSE Cardinality(x.pending)
  BY FS_RemoveElement DEF Countable
<1>4. Countable([x EXCEPT !.pending = @ \ {a}])
  <2> DEFINE y == [x EXCEPT !.pending = @ \ {a}]
  <2>1. x \in EntryType /\ (~x.tracked => x = Untracked)
    BY DEF Countable
  <2>2. y \in EntryType /\ y.pending = x.pending \ {a} /\ y.tracked = x.tracked
    BY <2>1 DEF EntryType
  <2>3. ~y.tracked => y = Untracked
    <3>1. SUFFICES ASSUME x = Untracked PROVE y = Untracked
      BY <2>1, <2>2
    <3>2. x.pending = {} /\ x.pending \ {a} = {}
      BY <3>1 DEF Untracked
    <3>3. y = [Untracked EXCEPT !.pending = {}]
      BY <3>1, <3>2
    <3> QED
      BY <3>3 DEF Untracked
  <2> QED
    BY <1>3, <2>2, <2>3 DEF Countable
<1> QED
  BY <1>1, <1>2, <1>3, <1>4 DEF Used, Countable, EntryType

\* Nothing is in use of a guard that is not tracked, or has just been entered.
LEMMA NothingUsed ==
    /\ Countable(Untracked) /\ Used(Untracked) = 0
    /\ Countable(Fresh) /\ Used(Fresh) = 0
<1>1. IsFiniteSet({}) /\ Cardinality({}) = 0
  BY FS_EmptySet
<1>2. Untracked \in EntryType /\ Untracked.pending = {} /\ Untracked.failures = 0 /\ Untracked.tracked = FALSE
  BY DEF EntryType, Untracked
<1>3. Fresh \in EntryType /\ Fresh.pending = {} /\ Fresh.failures = 0 /\ Fresh.tracked = TRUE
  BY DEF EntryType, Untracked, Fresh
<1> QED
  BY <1>1, <1>2, <1>3 DEF Countable, Used

\* makeRoom never drops a lock.
LEMMA LocksAreKept ==
    ASSUME ThrottleInv, NEW a \in Attempts, NEW dropped \in Droppings(a)
    PROVE  dropped \subseteq Guards /\ \A g \in dropped : ~entry[g].locked
<1>1. dropped \subseteq Guards
  BY DEF Droppings
<1>2. ASSUME NEW g \in dropped
      PROVE  ~entry[g].locked
  <2>1. PICK T \in Tables : g \in T
    BY <1>1, ThrottleAssumption DEF ThrottleAssumption
  <2>2. dropped \cap T \in Victims(T)
    BY <2>1 DEF Droppings
  <2>3. ASSUME NEW S \in Victims(T), NEW v \in S
        PROVE  ~entry[v].locked
    BY <2>3 DEF Victims, Stale
  <2> QED
    BY <2>1, <2>2, <2>3
<1> QED
  BY <1>1, <1>2

\* A guard that is not used by the attempt of a step keeps to its limits, dropped or not.
LEMMA BystanderSits ==
    ASSUME ThrottleInv, NEW a \in Attempts, NEW dropped \in Droppings(a), NEW g \in Guards,
           g \notin Uses(a) \/ attempt'[a] # "checking",
           \A b \in Attempts \ {a} : attempt'[b] = attempt[b],
           disturbed' = disturbed \cup Disturbs(dropped), g \in locks' <=> g \in locks
    PROVE  Sits(g, Kept(g, dropped))
<1>1. CASE g \notin dropped
  BY <1>1, GuardFacts DEF Sits, Kept
<1>2. CASE g \in dropped
  <2>1. ~entry[g].locked /\ g \notin locks
    BY <1>2, LocksAreKept, GuardFacts
  <2>2. ASSUME g \notin disturbed'
        PROVE  entry[g].pending = {}
    <3>1. g \notin disturbed /\ ~(InUse(g) > 0)
      BY <1>2, <2>2 DEF Disturbs
    <3>2. Countable(entry[g])
      BY GuardFacts
    <3>3. Cardinality(entry[g].pending) \in Nat /\ entry[g].failures \in Nat
      BY <3>2, FS_CardinalityType DEF Countable, EntryType
    <3>4. Cardinality(entry[g].pending) = 0
      BY <3>1, <3>3 DEF InUse
    <3> QED
      BY <3>2, <3>4, FS_EmptySet DEF Countable
  <2>3. Kept(g, dropped) = Untracked /\ Untracked.pending = {}
    BY <1>2 DEF Kept, Untracked
  <2>4. g \notin disturbed' => g \notin disturbed
    OBVIOUS
  <2>5. \A b \in Attempts : attempt'[b] = "checking" /\ g \in Uses(b) /\ g \notin disturbed' => b \in Untracked.pending
    BY <2>2, <2>3, <2>4, GuardFacts
  <2> QED
    BY <2>1, <2>3, <2>5, NothingUsed, GuardFacts DEF Sits
<1> QED
  BY <1>1, <1>2

\* An entry takes an attempt in.
LEMMA TakenIn ==
    ASSUME NEW x, Countable(x), x.tracked, NEW a \in Attempts
    PROVE  LET y == [x EXCEPT !.pending = @ \cup {a}] IN
           Countable(y) /\ Used(y) <= Used(x) + 1 /\ Used(y) \in Nat /\ y.pending = x.pending \cup {a}
             /\ y.tracked /\ y.locked = x.locked
<1> DEFINE y == [x EXCEPT !.pending = @ \cup {a}]
<1>1. x \in EntryType /\ IsFiniteSet(x.pending)
  BY DEF Countable
<1>2. y \in EntryType /\ y.pending = x.pending \cup {a} /\ y.failures = x.failures /\ y.tracked /\ y.locked = x.locked
  BY <1>1 DEF EntryType
<1>3. /\ IsFiniteSet(y.pending) /\ Cardinality(y.pending) <= Cardinality(x.pending) + 1
      /\ Cardinality(x.pending) \in Nat /\ Cardinality(y.pending) \in Nat
  <2> HIDE DEF y
  <2> QED
    BY <1>1, <1>2, UsedFacts, FS_CardinalityType
<1>4. Countable(y)
  BY <1>2, <1>3 DEF Countable
<1>5. x.failures \in Nat
  BY <1>1 DEF EntryType
<1>6. Used(y) <= Used(x) + 1 /\ Used(y) \in Nat
  BY <1>2, <1>3, <1>5 DEF Used
<1> QED
  BY <1>2, <1>4, <1>6

\* An entry lets an attempt go, or never knew of it.
LEMMA LetGo ==
    ASSUME NEW x, Countable(x), NEW a \in Attempts
    PROVE  LET y == [x EXCEPT !.pending = @ \ {a}] IN
           /\ Countable(y) /\ y.pending = x.pending \ {a} /\ y.tracked = x.tracked /\ y.locked = x.locked
           /\ y.failures = x.failures /\ Used(y) \in Nat /\ Used(y) <= Used(x)
           /\ a \in x.pending => Used(y) + 1 = Used(x)
<1> DEFINE y == [x EXCEPT !.pending = @ \ {a}]
<1>1. x \in EntryType /\ Countable(y)
  BY UsedFacts DEF Countable
<1>2. y.pending = x.pending \ {a} /\ y.tracked = x.tracked /\ y.locked = x.locked /\ y.failures = x.failures
  BY <1>1 DEF EntryType
<1>3. /\ Cardinality(x.pending) \in Nat
      /\ Cardinality(y.pending) = IF a \in x.pending THEN Cardinality(x.pending) - 1 ELSE Cardinality(x.pending)
      /\ Cardinality(y.pending) \in Nat
  <2>1. /\ Cardinality(x.pending) \in Nat /\ IsFiniteSet(x.pending \ {a})
        /\ Cardinality(x.pending \ {a}) = IF a \in x.pending THEN Cardinality(x.pending) - 1 ELSE Cardinality(x.pending)
    BY UsedFacts
  <2>2. Cardinality(x.pending \ {a}) \in Nat
    BY <2>1, FS_CardinalityType
  <2> HIDE DEF y
  <2> QED
    BY <1>2, <2>1, <2>2
<1>4. x.failures \in Nat
  BY <1>1 DEF EntryType
<1> QED
  BY <1>1, <1>2, <1>3, <1>4 DEF Used

\* check leaves room below the limit for the attempt that acquire takes in.
LEMMA BeginKeeps ==
    ASSUME ThrottleInv, NEW a \in Attempts, Begin(a)
    PROVE  ThrottleInv'
<1>1. PICK dropped \in Droppings(a) :
        /\ entry' = [g \in Guards |->
             IF g \in Uses(a) THEN [EntryFor(g) EXCEPT !.pending = @ \cup {a}] ELSE Kept(g, dropped)]
        /\ disturbed' = disturbed \cup Disturbs(dropped)
  BY DEF Begin
<1>2. locks' = locks /\ \A g \in Uses(a) : MayBegin(g)
  BY DEF Begin
<1>3. /\ attempt' \in [Attempts -> {"new", "checking", "right", "wrong", "refused"}]
      /\ \A b \in Attempts \ {a} : attempt'[b] = attempt[b]
  BY DEF Begin, ThrottleInv, ThrottleTypeOK
<1>4. ASSUME NEW g \in Guards, g \notin Uses(a)
      PROVE  Sits(g, entry'[g])
  BY <1>1, <1>2, <1>3, <1>4, BystanderSits
<1>5. ASSUME NEW g \in Guards, g \in Uses(a)
      PROVE  Sits(g, entry'[g])
  <2> DEFINE x == EntryFor(g)
             y == [x EXCEPT !.pending = @ \cup {a}]
  <2>1. entry'[g] = y
    BY <1>1, <1>5
  <2>2. Countable(entry[g]) /\ (g \in locks => entry[g].tracked /\ entry[g].locked) /\ MaxFailures(g) \in Nat \ {0}
    BY GuardFacts
  <2>3. Countable(x) /\ x.tracked /\ Used(x) + 1 <= MaxFailures(g)
    <3>1. CASE entry[g].tracked
      <4>1. x = entry[g] /\ InUse(g) < MaxFailures(g) /\ Used(x) = InUse(g)
        BY <1>2, <1>5, <3>1 DEF EntryFor, MayBegin, Used, InUse
      <4>2. Used(x) \in Nat
        BY <2>2, <4>1, UsedFacts
      <4> QED
        BY <2>2, <3>1, <4>1, <4>2
    <3>2. CASE ~entry[g].tracked
      BY <2>2, <3>2, NothingUsed DEF EntryFor, Fresh, Untracked
    <3> QED
      BY <3>1, <3>2
  <2>4. Countable(y) /\ Used(y) <= Used(x) + 1 /\ Used(y) \in Nat /\ y.pending = x.pending \cup {a} /\ Used(x) \in Nat
    BY <2>3, TakenIn, UsedFacts
  <2>5. Used(y) <= MaxFailures(g)
    <3> HIDE DEF x, y
    <3> QED
      BY <2>2, <2>3, <2>4
  <2>6. g \notin locks
    <3>1. entry[g].tracked => ~entry[g].locked
      BY <1>2, <1>5 DEF MayBegin
    <3> QED
      BY <2>2, <3>1
  <2>7. ASSUME NEW b \in Attempts, attempt'[b] = "checking", g \in Uses(b), g \notin disturbed'
        PROVE  b \in y.pending
    <3>1. CASE b = a
      BY <2>4, <3>1
    <3>2. CASE b # a
      <4>1. b \in entry[g].pending
        BY <1>1, <1>3, <2>7, <3>2, GuardFacts
      <4>2. entry[g].tracked
        BY <2>2, <4>1 DEF Countable, Untracked
      <4> QED
        BY <2>4, <4>1, <4>2 DEF EntryFor
    <3> QED
      BY <3>1, <3>2
  <2> HIDE DEF x, y
  <2> QED
    BY <1>2, <2>1, <2>4, <2>5, <2>6, <2>7 DEF Sits
<1>6. disturbed' \subseteq Guards /\ locks' \subseteq Guards
  BY <1>1, <1>2, LocksAreKept DEF Disturbs, ThrottleInv, ThrottleTypeOK
<1> QED
  BY <1>1, <1>3, <1>4, <1>5, <1>6, ThrottleParts

\* A failure takes the place of its attempt; the one that reaches the limit becomes a lock.
LEMMA FailKeeps ==
    ASSUME ThrottleInv, NEW a \in Attempts, Fail(a)
    PROVE  ThrottleInv'
<1> DEFINE after(g) == [EntryFor(g) EXCEPT !.pending = @ \ {a}, !.failures = @ + 1]
           counts(dropped, g) == g \in Uses(a) /\ (entry[g].tracked \/ HasRoom(TableOf(g), dropped))
           over(dropped) == {g \in Guards : counts(dropped, g) /\ after(g).failures >= MaxFailures(g)}
<1>1. PICK dropped \in Droppings(a) :
        /\ entry' = [g \in Guards |->
                IF g \in over(dropped) THEN [after(g) EXCEPT !.failures = 0, !.locked = TRUE]
                ELSE IF counts(dropped, g) THEN after(g) ELSE Kept(g, dropped)]
        /\ locks' = locks \cup over(dropped)
        /\ disturbed' = disturbed \cup Disturbs(dropped)
  BY DEF Fail
<1>2. attempt[a] = "checking" /\ attempt' = [attempt EXCEPT ![a] = "wrong"]
  BY DEF Fail
<1>3. /\ attempt' \in [Attempts -> {"new", "checking", "right", "wrong", "refused"}]
      /\ attempt'[a] = "wrong" /\ \A b \in Attempts \ {a} : attempt'[b] = attempt[b]
  BY <1>2 DEF ThrottleInv, ThrottleTypeOK
<1>4. ASSUME NEW g \in Guards, ~counts(dropped, g)
      PROVE  Sits(g, entry'[g])
  <2>1. entry'[g] = Kept(g, dropped) /\ (g \in locks' <=> g \in locks)
    BY <1>1, <1>4
  <2>2. attempt'[a] # "checking"
    BY <1>3
  <2>3. Sits(g, Kept(g, dropped))
    <3> HIDE DEF after, counts, over
    <3> QED
      BY <1>1, <1>3, <2>1, <2>2, BystanderSits
  <2> QED
    BY <2>1, <2>3
<1>5. ASSUME NEW g \in Guards, counts(dropped, g)
      PROVE  Sits(g, entry'[g])
  <2> DEFINE x == EntryFor(g)
             y == [x EXCEPT !.pending = @ \ {a}]
  <2>1. /\ Countable(entry[g]) /\ MaxFailures(g) \in Nat \ {0}
        /\ g \notin disturbed => Used(entry[g]) <= MaxFailures(g)
        /\ g \in locks => entry[g].tracked /\ entry[g].locked
    BY GuardFacts
  <2>2. Countable(x) /\ x.tracked
    BY <2>1, NothingUsed DEF EntryFor, Fresh, Untracked
  <2>3. g \notin disturbed => a \in entry[g].pending
    BY <1>2, <1>5, GuardFacts
  <2>4. entry[g].pending # {} => x = entry[g]
    BY <2>1 DEF EntryFor, Countable, Untracked
  <2>5. /\ Countable(y) /\ y.pending = x.pending \ {a} /\ y.tracked = x.tracked /\ y.locked = x.locked
        /\ y.failures = x.failures /\ Used(y) \in Nat /\ Used(y) <= Used(x)
        /\ a \in x.pending => Used(y) + 1 = Used(x)
    BY <2>2, LetGo
  <2>6. y \in EntryType /\ IsFiniteSet(y.pending) /\ y.tracked /\ x \in EntryType /\ y.failures \in Nat
    BY <2>2, <2>5 DEF Countable, EntryType
  <2>7. after(g) = [y EXCEPT !.failures = @ + 1]
    BY <2>6 DEF EntryType
  <2>8. /\ after(g).failures = y.failures + 1 /\ after(g).pending = y.pending /\ after(g).tracked /\ after(g).locked = y.locked
        /\ after(g) \in EntryType
    <3> HIDE DEF x, y, after
    <3> QED
      BY <2>6, <2>7 DEF EntryType
  <2>9. ASSUME NEW b \in Attempts, attempt'[b] = "checking", g \in Uses(b), g \notin disturbed'
        PROVE  b \in y.pending
    <3>1. b # a /\ b \in entry[g].pending
      BY <1>1, <1>3, <2>9, GuardFacts
    <3> QED
      BY <2>4, <2>5, <3>1
  <2>10. Cardinality(y.pending) \in Nat
    BY <2>6, FS_CardinalityType
  <2>11. CASE g \in over(dropped)
    <3> DEFINE z == [after(g) EXCEPT !.failures = 0, !.locked = TRUE]
    <3>1. entry'[g] = z
      BY <1>1, <2>11
    <3>2. z \in EntryType /\ z.failures = 0 /\ z.locked /\ z.tracked /\ z.pending = y.pending
      BY <2>8 DEF EntryType
    <3>3. Countable(z)
      BY <2>6, <3>2 DEF Countable
    <3>4. Used(z) <= Used(y) /\ Used(z) \in Nat
      BY <2>6, <2>10, <3>2 DEF Used
    <3>5. g \notin disturbed => Used(z) <= MaxFailures(g)
      <4>1. SUFFICES ASSUME g \notin disturbed PROVE Used(z) <= MaxFailures(g)
        OBVIOUS
      <4>2. x = entry[g] /\ Used(x) <= MaxFailures(g) /\ Used(y) + 1 = Used(x)
        BY <2>1, <2>3, <2>4, <2>5, <4>1
      <4> HIDE DEF x, y, z
      <4> QED
        BY <2>1, <2>5, <3>4, <4>2
    <3> HIDE DEF x, y, z
    <3> QED
      BY <1>1, <2>9, <3>1, <3>2, <3>3, <3>5 DEF Sits
  <2>12. CASE g \notin over(dropped)
    <3> DEFINE z == after(g)
    <3>1. entry'[g] = z /\ (g \in locks' <=> g \in locks)
      BY <1>1, <1>5, <2>12
    <3>2. Countable(z)
      BY <2>6, <2>8 DEF Countable
    <3>3. Used(z) = Used(y) + 1
      BY <2>6, <2>8, <2>10 DEF Used
    <3>4. g \notin disturbed => Used(z) <= MaxFailures(g)
      <4>1. SUFFICES ASSUME g \notin disturbed PROVE Used(z) <= MaxFailures(g)
        OBVIOUS
      <4>2. x = entry[g] /\ Used(x) <= MaxFailures(g) /\ Used(y) + 1 = Used(x)
        BY <2>1, <2>3, <2>4, <2>5, <4>1
      <4> HIDE DEF x, y, z
      <4> QED
        BY <3>3, <4>2
    <3>5. g \in locks => z.tracked /\ z.locked
      BY <2>1, <2>5, <2>8 DEF EntryFor
    <3>6. z.pending = y.pending
      BY <2>8
    <3> HIDE DEF x, y, z
    <3> QED
      BY <1>1, <2>9, <3>1, <3>2, <3>4, <3>5, <3>6 DEF Sits
  <2> QED
    BY <2>11, <2>12
<1>6. disturbed' \subseteq Guards /\ locks' \subseteq Guards
  BY <1>1, LocksAreKept DEF Disturbs, ThrottleInv, ThrottleTypeOK
<1>7. entry' = [g \in Guards |-> entry'[g]]
  <2> HIDE DEF after, counts, over
  <2> QED
    BY <1>1
<1> QED
  BY <1>3, <1>4, <1>5, <1>6, <1>7, ThrottleParts

\* An outcome that is no failure only takes out of entries.
LEMMA SucceedKeeps ==
    ASSUME ThrottleInv, NEW a \in Attempts, Succeed(a)
    PROVE  ThrottleInv'
<1>1. PICK clears \in {{}, {Narrow(a)}} :
        entry' = [g \in Guards |->
            LET left == entry[g].pending \ {a} IN
            IF g \in clears /\ ~entry[g].locked
            THEN IF left = {} THEN Untracked ELSE [entry[g] EXCEPT !.pending = left, !.failures = 0]
            ELSE [entry[g] EXCEPT !.pending = left]]
  BY DEF Succeed
<1>2. disturbed' = disturbed /\ locks' = locks
  BY DEF Succeed
<1>3. /\ attempt' \in [Attempts -> {"new", "checking", "right", "wrong", "refused"}]
      /\ attempt'[a] = "right" /\ \A b \in Attempts \ {a} : attempt'[b] = attempt[b]
  BY DEF Succeed, ThrottleInv, ThrottleTypeOK
<1>4. ASSUME NEW g \in Guards
      PROVE  Sits(g, entry'[g])
  <2> DEFINE x == entry[g]
             y == [x EXCEPT !.pending = @ \ {a}]
             z == [x EXCEPT !.pending = x.pending \ {a}, !.failures = 0]
  <2>1. /\ Countable(x) /\ MaxFailures(g) \in Nat \ {0}
        /\ g \notin disturbed => Used(x) <= MaxFailures(g)
        /\ g \in locks => x.tracked /\ x.locked
    BY GuardFacts
  <2>2. ASSUME NEW b \in Attempts, attempt'[b] = "checking", g \in Uses(b), g \notin disturbed'
        PROVE  b \in x.pending \ {a}
    BY <1>2, <1>3, <2>2, GuardFacts
  <2>3. /\ Countable(y) /\ y.pending = x.pending \ {a} /\ y.tracked = x.tracked /\ y.locked = x.locked
        /\ y.failures = x.failures /\ Used(y) \in Nat /\ Used(y) <= Used(x) /\ Used(x) \in Nat
    <3>1. Used(x) \in Nat
      BY <2>1, UsedFacts
    <3> HIDE DEF x
    <3> QED
      BY <2>1, <3>1, LetGo
  <2>4. CASE entry'[g] = y
    <3>1. g \notin disturbed => Used(y) <= MaxFailures(g)
      <4> HIDE DEF x, y
      <4> QED
        BY <2>1, <2>3
    <3> HIDE DEF x, y
    <3> QED
      BY <1>2, <2>1, <2>2, <2>3, <2>4, <3>1 DEF Sits
  <2>5. CASE ~x.locked /\ x.pending \ {a} = {} /\ entry'[g] = Untracked
    BY <1>2, <2>1, <2>2, <2>5, NothingUsed DEF Sits
  <2>6. CASE ~x.locked /\ x.pending \ {a} # {} /\ entry'[g] = z
    <3>1. x \in EntryType /\ y \in EntryType /\ IsFiniteSet(y.pending) /\ x.tracked
      BY <2>1, <2>3, <2>6 DEF Countable, Untracked
    <3>2. z \in EntryType /\ z.pending = y.pending /\ z.tracked /\ z.failures = 0
      BY <2>3, <3>1 DEF EntryType
    <3>3. Countable(z)
      BY <3>1, <3>2 DEF Countable
    <3>4. Used(z) <= Used(y)
      <4>1. Cardinality(y.pending) \in Nat /\ y.failures \in Nat
        BY <3>1, FS_CardinalityType DEF EntryType
      <4> HIDE DEF x, y, z
      <4> QED
        BY <3>2, <4>1 DEF Used
    <3>5. Used(z) \in Nat
      BY <3>3, UsedFacts
    <3>6. g \notin disturbed => Used(z) <= MaxFailures(g)
      <4> HIDE DEF x, y, z
      <4> QED
        BY <2>1, <2>3, <3>4, <3>5
    <3>7. g \notin locks
      BY <2>1, <2>6
    <3> HIDE DEF x, y, z
    <3> QED
      BY <1>2, <2>2, <2>3, <2>6, <3>2, <3>3, <3>6, <3>7 DEF Sits
  <2> QED
    BY <1>1, <2>4, <2>5, <2>6
<1>5. entry' = [g \in Guards |-> entry'[g]]
  BY <1>1
<1> QED
  BY <1>2, <1>3, <1>4, <1>5, ThrottleParts DEF ThrottleInv, ThrottleTypeOK

\* Steps of one guard leave the others as they are.
LEMMA GuardStep ==
    ASSUME ThrottleInv, NEW g \in Guards, NEW x, entry' = [entry EXCEPT ![g] = x], Sits(g, x), attempt' = attempt,
           \A h \in Guards \ {g} : (h \in disturbed' <=> h \in disturbed) /\ (h \in locks' <=> h \in locks),
           disturbed' \subseteq Guards, locks' \subseteq Guards
    PROVE  ThrottleInv'
<1>1. entry \in [Guards -> [tracked : BOOLEAN, failures : Nat, pending : SUBSET Attempts, locked : BOOLEAN]]
  BY DEF ThrottleInv, ThrottleTypeOK
<1>2. \A h \in Guards \ {g} : Sits(h, entry'[h])
  BY <1>1, GuardFacts DEF Sits
<1>3. Sits(g, entry'[g])
  BY <1>1
<1> QED
  BY <1>1, <1>2, <1>3, ThrottleParts DEF ThrottleInv, ThrottleTypeOK

\* Time only takes out of entries, and unlocks.
LEMMA TimeKeeps ==
    ASSUME ThrottleInv, NEW g \in Guards, FailureFades(g) \/ LockEnds(g) \/ AttemptForgotten(g)
    PROVE  ThrottleInv'
<1> DEFINE x == entry[g]
<1>1. /\ Countable(x) /\ x \in EntryType /\ IsFiniteSet(x.pending) /\ MaxFailures(g) \in Nat \ {0}
      /\ g \notin disturbed => Used(x) <= MaxFailures(g)
      /\ g \in locks => x.tracked /\ x.locked
      /\ \A b \in Attempts : attempt[b] = "checking" /\ g \in Uses(b) /\ g \notin disturbed => b \in x.pending
  BY GuardFacts DEF Countable
<1>2. Cardinality(x.pending) \in Nat /\ x.failures \in Nat /\ disturbed \subseteq Guards /\ locks \subseteq Guards
  BY <1>1, FS_CardinalityType DEF EntryType, ThrottleInv, ThrottleTypeOK
<1>3. CASE FailureFades(g)
  <2> DEFINE y == [x EXCEPT !.failures = @ - 1]
  <2>1. /\ x.failures > 0 /\ entry' = [entry EXCEPT ![g] = y]
        /\ attempt' = attempt /\ disturbed' = disturbed /\ locks' = locks
    BY <1>3 DEF FailureFades
  <2>2. x.tracked
    BY <1>1, <2>1 DEF Countable, Untracked
  <2>3. /\ y \in EntryType /\ y.pending = x.pending /\ y.failures = x.failures - 1 /\ y.tracked
        /\ y.locked = x.locked
    BY <1>1, <1>2, <2>1, <2>2 DEF EntryType
  <2>4. Countable(y)
    BY <1>1, <2>3 DEF Countable
  <2>5. g \notin disturbed => Used(y) <= MaxFailures(g)
    <3> HIDE DEF x, y
    <3> QED
      BY <1>1, <1>2, <2>3 DEF Used
  <2>6. Sits(g, y)
    <3> HIDE DEF x, y
    <3> QED
      BY <1>1, <2>1, <2>2, <2>3, <2>4, <2>5 DEF Sits
  <2> HIDE DEF x, y
  <2> QED
    BY <1>2, <2>1, <2>6, GuardStep
<1>4. CASE LockEnds(g)
  <2> DEFINE y == [x EXCEPT !.locked = FALSE]
  <2>1. /\ x.locked /\ entry' = [entry EXCEPT ![g] = y]
        /\ attempt' = attempt /\ disturbed' = disturbed /\ locks' = locks \ {g}
    BY <1>4 DEF LockEnds
  <2>2. x.tracked
    BY <1>1, <2>1 DEF Countable, Untracked
  <2>3. y \in EntryType /\ y.pending = x.pending /\ y.failures = x.failures /\ y.tracked
    BY <1>1, <2>2 DEF EntryType
  <2>4. Countable(y) /\ Used(y) = Used(x)
    BY <1>1, <2>3 DEF Countable, Used
  <2>5. Sits(g, y)
    <3> HIDE DEF x, y
    <3> QED
      BY <1>1, <2>1, <2>3, <2>4 DEF Sits
  <2> HIDE DEF x, y
  <2> QED
    BY <1>2, <2>1, <2>5, GuardStep
<1>5. CASE AttemptForgotten(g)
  <2>1. PICK a \in x.pending : entry' = [entry EXCEPT ![g].pending = @ \ {a}]
    BY <1>5 DEF AttemptForgotten
  <2> DEFINE y == [x EXCEPT !.pending = @ \ {a}]
  <2>2. disturbed' = disturbed \cup {g} /\ attempt' = attempt /\ locks' = locks
    BY <1>5 DEF AttemptForgotten
  <2>3. a \in Attempts /\ entry' = [entry EXCEPT ![g] = y]
    BY <1>1, <2>1 DEF EntryType
  <2>4. Countable(y) /\ y.tracked = x.tracked /\ y.locked = x.locked
    BY <1>1, <2>3, LetGo
  <2>5. Sits(g, y)
    <3> HIDE DEF x, y
    <3> QED
      BY <1>1, <2>2, <2>4 DEF Sits
  <2> HIDE DEF x, y
  <2> QED
    BY <1>2, <2>2, <2>3, <2>5, GuardStep
<1> QED
  BY <1>3, <1>4, <1>5

\* Every request, outcome and expiry.
LEMMA ThrottleStep == ThrottleInv /\ [ThrottleNext]_throttleVars => ThrottleInv'
<1> SUFFICES ASSUME ThrottleInv, [ThrottleNext]_throttleVars
             PROVE  ThrottleInv'
  OBVIOUS
<1>1. ASSUME NEW a \in Attempts, Refuse(a)
      PROVE  ThrottleInv'
  <2>1. /\ attempt' = [attempt EXCEPT ![a] = "refused"]
        /\ entry' = entry /\ disturbed' = disturbed /\ locks' = locks
    BY <1>1 DEF Refuse
  <2> QED
    BY <2>1 DEF ThrottleInv, ThrottleTypeOK, Registered, LimitHolds, InUse
<1>2. CASE UNCHANGED throttleVars
  BY <1>2 DEF throttleVars, ThrottleInv, ThrottleTypeOK, Registered, LimitHolds, InUse
<1> QED
  BY <1>1, <1>2, BeginKeeps, FailKeeps, SucceedKeeps, TimeKeeps DEF ThrottleNext

\* At the start no guard is tracked.
LEMMA ThrottleStart == ThrottleInit => ThrottleInv
<1> SUFFICES ASSUME ThrottleInit
             PROVE  ThrottleInv
  OBVIOUS
<1>1. \A g \in Guards : entry[g] = Untracked
  BY DEF ThrottleInit
<1>2. ThrottleTypeOK
  BY NothingUsed, <1>1 DEF ThrottleInit, ThrottleTypeOK, Countable, EntryType
<1>3. LimitHolds
  <2> SUFFICES ASSUME NEW g \in Guards
               PROVE  InUse(g) <= MaxFailures(g) /\ g \notin locks
    BY DEF LimitHolds
  <2>1. InUse(g) = 0
    BY <1>1, NothingUsed DEF InUse, Used
  <2> QED
    BY <2>1, ThrottleAssumption DEF ThrottleAssumption, ThrottleInit
<1> QED
  BY <1>1, <1>2, <1>3, NothingUsed DEF ThrottleInit, ThrottleInv, Registered

\* The limits of the login throttle hold, whatever the attempts and however many come at once.
THEOREM ThrottleInvariance == ThrottleSpec => []ThrottleInv
  BY ThrottleStart, ThrottleStep, PTL DEF ThrottleSpec

\* LimitHolds: what is under way and what failed never pass the limit together, and a lock survives a full table.
THEOREM TheLimitHolds == ThrottleSpec => []LimitHolds
  BY ThrottleInvariance, PTL DEF ThrottleInv

----------------------------------------------------------------------------
(* Access rights: what was withdrawn stays away however the saves overlap,  *)
(* and a check finds what was there all along, for any rights and any       *)
(* number of managers.                                                      *)

Rows == Rights \cup {"member"}
IsOpen(q, t) == q.what = t /\ q.at = "open"

\* The tables hold rows of their own, and what is shown as inherited is in the permission table.
TablesOK ==
    /\ held \in [Kinds -> SUBSET Rows] /\ \A t \in Kinds : held[t] \subseteq (RowsOf(t) \cap (Known \cup {"member"}))
    /\ grouped \in {"security", "default", "gone"} /\ place \in {"within", "without", "gone"}
    /\ grouped = "gone" => held["group"] = {} /\ held["members"] = {}
    /\ place = "gone" => held["department"] = {}
    /\ locked \in [Managers -> SUBSET Known]

\* At most one request of a kind is under way for a manager, and it asks for rows of its table.
OrdersOK ==
    /\ orders \subseteq Order /\ \A p, q \in orders : p.by = q.by /\ p.what = q.what => p = q
    /\ \A q \in orders : q.what \in Kinds => q.rows \subseteq RowsOf(q.what)

\* A transaction that replaces the rows of a table will delete all of them, but for those of the
\* transactions it overlaps, and it has met each of these.
Overlaps ==
    \A q \in orders, t \in Kinds : IsOpen(q, t) =>
        /\ held[t] \ q.sees \subseteq q.met
        /\ \A p \in orders \ {q} : IsOpen(p, t) => p.rows \subseteq q.met

\* What was withdrawn is not there.
WithdrawnOK == withdrawn \subseteq Kinds \X Rows /\ WithdrawnStays

\* A right is found, or the query that finds it is still to come, or the one that leads to it.
Coming(x) ==
    \/ x[2] \in check.found
    \/ x[1] = "direct" /\ "direct" \in check.todo
    \/ x[1] = "group" /\ check.todo \cap {"memberships", "memberRights"} # {}
    \/ x[1] = "everybody" /\ check.todo \cap {"defaults", "defaultRights"} # {}
    \/ x[1] = "department" /\ check.todo \cap {"employee", "departmentRights"} # {}

CheckOK ==
    /\ check \in [at : {"idle", "reading", "done"}, todo : SUBSET Queries, found : SUBSET Known]
    /\ check.at = "reading" => steady \subseteq Carried /\ \A x \in steady : Coming(x)
    /\ check.at = "done" => \A x \in steady : x[2] \in check.found
    /\ check.at = "idle" => steady = {}

AccessInv == TablesOK /\ OrdersOK /\ Overlaps /\ WithdrawnOK /\ CheckOK

\* The parts give the types and both properties.
LEMMA AccessInvImplies == AccessInv => AccessTypeOK /\ WithdrawnStays /\ SteadyRightsFound
  BY DEF AccessInv, TablesOK, OrdersOK, WithdrawnOK, CheckOK, AccessTypeOK, SteadyRightsFound

\* A right is carried by the table it is in.
LEMMA CarriedFacts ==
    ASSUME NEW x
    PROVE  x \in Carried <=>
           \/ x \in {"direct"} \X held["direct"]
           \/ x \in {"group"} \X held["group"] /\ held["members"] # {}
           \/ x \in {"everybody"} \X held["group"] /\ grouped = "default"
           \/ x \in {"department"} \X held["department"] /\ place = "within"
  BY DEF Carried

\* What the employee page shows as inherited is in the permission table.
LEMMA LockedIsKnown == TablesOK => Locked \subseteq Known
<1> SUFFICES ASSUME TablesOK, NEW x \in Carried
             PROVE  x[2] \in Known
  BY DEF Locked
<1>1. held["direct"] \subseteq Known /\ held["group"] \subseteq Known /\ held["department"] \subseteq Known
  BY AccessAssumption DEF TablesOK, Kinds, RowsOf, AccessAssumption
<1> QED
  BY <1>1, CarriedFacts

----------------------------------------------------------------------------
\* The requests after a step are those before it, each perhaps changed in what it saw and met.
LEMMA OrdersChange ==
    ASSUME OrdersOK, NEW F \in [orders -> Order], orders' = {F[p] : p \in orders},
           \A p \in orders : F[p].by = p.by /\ F[p].what = p.what /\ F[p].rows = p.rows
    PROVE  OrdersOK'
  BY DEF OrdersOK

\* A step that only turns one request to another stage.
LEMMA OrderTurns ==
    ASSUME OrdersOK, NEW q \in orders, NEW at \in {"sent", "open", "ok", "refused"}, Turns(q, at)
    PROVE  OrdersOK' /\ \A p \in orders' : p \in orders \/ (p.what = q.what /\ p.at = at)
<1> DEFINE F == [p \in orders |-> IF p = q THEN [q EXCEPT !.at = at] ELSE p]
<1>1. \A p \in orders : F[p] \in Order /\ F[p].by = p.by /\ F[p].what = p.what /\ F[p].rows = p.rows
  BY DEF OrdersOK, Order
<1>2. orders' = {F[p] : p \in orders}
  BY DEF Turns
<1>3. OrdersOK'
  <2>1. F \in [orders -> Order]
    BY <1>1
  <2> HIDE DEF F
  <2> QED
    BY <1>1, <1>2, <2>1, OrdersChange
<1>4. [q EXCEPT !.at = at].what = q.what /\ [q EXCEPT !.at = at].at = at
  BY DEF OrdersOK, Order
<1> QED
  BY <1>3, <1>4 DEF Turns

\* Where no transaction begins and no row appears, the overlaps and what was withdrawn stay as they are.
LEMMA NothingAppears ==
    ASSUME AccessInv, \A p \in orders' : p.what \in Kinds /\ p.at = "open" => p \in orders,
           \A t \in Kinds : held'[t] \subseteq held[t], withdrawn' = withdrawn
    PROVE  Overlaps' /\ WithdrawnOK'
<1>1. Overlaps'
  BY DEF AccessInv, Overlaps, IsOpen
<1>2. WithdrawnOK'
  <2> SUFFICES ASSUME NEW x \in withdrawn
               PROVE  x[2] \notin held'[x[1]]
    BY DEF AccessInv, WithdrawnOK, WithdrawnStays
  <2>1. x[1] \in Kinds /\ x[2] \notin held[x[1]]
    BY DEF AccessInv, WithdrawnOK, WithdrawnStays
  <2> QED
    BY <2>1
<1> QED
  BY <1>1, <1>2

\* Where the check does not move, it goes on finding what stays.
LEMMA CheckWaits ==
    ASSUME AccessInv, check' = check, Watched \/ UNCHANGED << held, grouped, place, steady >>
    PROVE  CheckOK'
<1>1. CASE Watched
  BY <1>1 DEF AccessInv, CheckOK, Watched, Coming
<1>2. CASE UNCHANGED << held, grouped, place, steady >>
  BY <1>2 DEF AccessInv, CheckOK, Coming, Carried
<1> QED
  BY <1>1, <1>2

\* The check begins, or reads.
LEMMA CheckKeeps ==
    ASSUME AccessInv, CheckBegins \/ \E q \in Queries : CheckReads(q)
    PROVE  AccessInv'
<1>1. /\ held' = held /\ grouped' = grouped /\ place' = place /\ locked' = locked /\ orders' = orders
      /\ withdrawn' = withdrawn
  BY DEF CheckBegins, CheckReads, stored
<1>2. TablesOK' /\ OrdersOK' /\ Overlaps' /\ WithdrawnOK'
  BY <1>1 DEF AccessInv, TablesOK, OrdersOK, Overlaps, WithdrawnOK, WithdrawnStays, IsOpen
<1>3. Carried' = Carried
  BY <1>1 DEF Carried
<1>4. held["direct"] \subseteq Known /\ held["group"] \subseteq Known /\ held["department"] \subseteq Known
  BY AccessAssumption DEF AccessInv, TablesOK, Kinds, RowsOf, AccessAssumption
<1>5. CASE CheckBegins
  <2>1. /\ check' = [at |-> "reading", todo |-> {"direct", "memberships", "defaults", "employee"}, found |-> {}]
        /\ steady' = Carried
    BY <1>5 DEF CheckBegins
  <2>2. \A x \in Carried : x[1] \in {"direct", "group", "everybody", "department"}
    BY CarriedFacts
  <2>3. CheckOK'
    BY <1>3, <2>1, <2>2 DEF CheckOK, Coming, Queries
  <2> QED
    BY <1>2, <2>3 DEF AccessInv
<1>6. ASSUME NEW q \in Queries, CheckReads(q)
      PROVE  AccessInv'
  <2> DEFINE todo == (check.todo \ {q}) \cup Follows(q)
  <2>1. /\ check.at = "reading" /\ q \in check.todo /\ steady' = steady
        /\ check' = [at |-> IF todo = {} THEN "done" ELSE "reading", todo |-> todo, found |-> check.found \cup CheckFinds(q)]
    BY <1>6 DEF CheckReads
  <2>2. Follows(q) \subseteq Queries
    BY DEF Follows, Queries
  <2>3. CheckFinds(q) \subseteq Known
    BY <1>4 DEF CheckFinds
  <2>4. check.todo \subseteq Queries /\ check.found \subseteq Known /\ steady \subseteq Carried /\ \A x \in steady : Coming(x)
    BY <2>1 DEF AccessInv, CheckOK
  <2>5. check' \in [at : {"idle", "reading", "done"}, todo : SUBSET Queries, found : SUBSET Known]
    BY <2>1, <2>2, <2>3, <2>4
  <2>6. check'.todo = todo /\ check'.found = check.found \cup CheckFinds(q) /\ (check'.at = "done" => todo = {}) /\ check'.at # "idle"
    BY <2>1
  <2>7. ASSUME NEW x \in steady
        PROVE  Coming(x)'
    <3>1. Coming(x) /\ x \in Carried
      BY <2>4
    <3>2. CASE x[2] \in check.found
      BY <2>6, <3>2 DEF Coming
    <3>3. CASE x[1] = "direct" /\ "direct" \in check.todo
      <4>1. x[2] \in held["direct"]
        BY <3>1, <3>3, CarriedFacts
      <4> QED
        BY <2>6, <3>3, <4>1 DEF Coming, CheckFinds
    <3>4. CASE x[1] = "group" /\ check.todo \cap {"memberships", "memberRights"} # {}
      <4>1. x[2] \in held["group"] /\ held["members"] # {}
        BY <3>1, <3>4, CarriedFacts
      <4>2. q = "memberships" => "memberRights" \in todo
        BY <4>1 DEF Follows
      <4>3. q = "memberRights" => x[2] \in CheckFinds(q)
        BY <4>1 DEF CheckFinds
      <4> QED
        BY <2>6, <3>4, <4>2, <4>3 DEF Coming
    <3>5. CASE x[1] = "everybody" /\ check.todo \cap {"defaults", "defaultRights"} # {}
      <4>1. x[2] \in held["group"] /\ grouped = "default"
        BY <3>1, <3>5, CarriedFacts
      <4>2. q = "defaults" => "defaultRights" \in todo
        BY <4>1 DEF Follows
      <4>3. q = "defaultRights" => x[2] \in CheckFinds(q)
        BY <4>1 DEF CheckFinds
      <4> QED
        BY <2>6, <3>5, <4>2, <4>3 DEF Coming
    <3>6. CASE x[1] = "department" /\ check.todo \cap {"employee", "departmentRights"} # {}
      <4>1. x[2] \in held["department"] /\ place = "within"
        BY <3>1, <3>6, CarriedFacts
      <4>2. q = "employee" => "departmentRights" \in todo
        BY <4>1 DEF Follows
      <4>3. q = "departmentRights" => x[2] \in CheckFinds(q)
        BY <4>1 DEF CheckFinds
      <4> QED
        BY <2>6, <3>6, <4>2, <4>3 DEF Coming
    <3> QED
      BY <3>1, <3>2, <3>3, <3>4, <3>5, <3>6 DEF Coming
  <2>8. check'.at = "done" => \A x \in steady : x[2] \in check'.found
    BY <2>6, <2>7 DEF Coming
  <2>9. CheckOK'
    BY <1>3, <2>1, <2>4, <2>5, <2>6, <2>7, <2>8 DEF CheckOK
  <2> QED
    BY <1>2, <2>9 DEF AccessInv
<1> QED
  BY <1>5, <1>6

----------------------------------------------------------------------------
\* A button's requests are fresh, of different kinds, and for rows of their tables.
LEMMA RequestKeeps ==
    ASSUME AccessInv, NEW m \in Managers, NEW asks \in SUBSET Order, Requested(m, asks),
           \A p \in asks : p.by = m /\ p.at = "sent" /\ (p.what \in Kinds => p.rows \subseteq RowsOf(p.what)),
           \A p, q \in asks : p.what = q.what => p = q
    PROVE  AccessInv'
<1>1. /\ orders' = orders \cup asks /\ \A q \in orders, p \in asks : ~ (q.by = m /\ q.what = p.what)
      /\ UNCHANGED << held, grouped, place, locked, check, steady, withdrawn >>
  BY DEF Requested, stored
<1>2. OrdersOK'
  BY <1>1 DEF AccessInv, OrdersOK
<1>3. Overlaps' /\ WithdrawnOK'
  BY <1>1, NothingAppears
<1>4. CheckOK' /\ TablesOK'
  BY <1>1, CheckWaits DEF AccessInv, TablesOK
<1> QED
  BY <1>2, <1>3, <1>4 DEF AccessInv

\* The buttons of the forms.
LEMMA FormsKeep ==
    ASSUME AccessInv, NEW m \in Managers,
           \/ \E rights \in SUBSET (Known \cup Workflow), member \in SUBSET {"member"}, kind \in {"security", "default"} :
                 SavesGroup(m, rights, member, kind)
           \/ \E rights \in SUBSET (Known \cup Workflow) : SavesDepartmentRights(m, rights)
           \/ \E b \in BOOLEAN : SavesDepartment(m, b) \/ SavesProfile(m, b) \/ Drops(m, b)
           \/ \E member \in SUBSET {"member"} : SavesGroups(m, member)
           \/ SavesRights(m)
    PROVE  AccessInv'
<1>1. Known \cup Workflow \subseteq Rights /\ RowsOf("direct") = Rights /\ RowsOf("group") = Rights
         /\ RowsOf("department") = Rights /\ RowsOf("members") = {"member"}
  BY AccessAssumption DEF AccessAssumption, RowsOf
<1>2. ASSUME NEW p \in Order, p.by = m, p.at = "sent", p.what \in Kinds => p.rows \subseteq RowsOf(p.what), Requested(m, {p})
      PROVE  AccessInv'
  BY <1>2, RequestKeeps
<1>3. ASSUME NEW rights \in SUBSET (Known \cup Workflow), NEW member \in SUBSET {"member"}, NEW kind \in {"security", "default"},
             SavesGroup(m, rights, member, kind)
      PROVE  AccessInv'
  <2> DEFINE ty == AskFor(m, "type", {}, kind = "default")
             gr == AskFor(m, "group", rights, FALSE)
             me == AskFor(m, "members", member, FALSE)
  <2>1. ty \in Order /\ ty.by = m /\ ty.what = "type" /\ ty.at = "sent"
    BY DEF AskFor, Order
  <2>2. gr \in Order /\ gr.by = m /\ gr.what = "group" /\ gr.at = "sent" /\ gr.rows = rights
    BY <1>1 DEF AskFor, Order, Kinds
  <2>3. me \in Order /\ me.by = m /\ me.what = "members" /\ me.at = "sent" /\ me.rows = member
    BY DEF AskFor, Order, Kinds
  <2>4. Requested(m, {ty, gr}) \/ Requested(m, {ty, gr, me})
    <3>1. CASE kind = "security"
      <4>1. {ty, gr} \cup {me} = {ty, gr, me}
        OBVIOUS
      <4> QED
        BY <1>3, <3>1, <4>1 DEF SavesGroup
    <3>2. CASE kind # "security"
      <4>1. {ty, gr} \cup {} = {ty, gr}
        OBVIOUS
      <4> QED
        BY <1>3, <3>2, <4>1 DEF SavesGroup
    <3> QED
      BY <3>1, <3>2
  <2> HIDE DEF ty, gr, me
  <2>5. \A p \in {ty, gr, me} : p.by = m /\ p.at = "sent" /\ (p.what \in Kinds => p.rows \subseteq RowsOf(p.what))
    BY <1>1, <2>1, <2>2, <2>3 DEF Kinds
  <2>6. \A p, q \in {ty, gr, me} : p.what = q.what => p = q
    BY <2>1, <2>2, <2>3
  <2>7. CASE Requested(m, {ty, gr})
    BY <2>1, <2>2, <2>5, <2>6, <2>7, RequestKeeps
  <2>8. CASE Requested(m, {ty, gr, me})
    BY <2>1, <2>2, <2>3, <2>5, <2>6, <2>8, RequestKeeps
  <2> QED
    BY <2>4, <2>7, <2>8
<1>4. ASSUME NEW rights \in SUBSET (Known \cup Workflow), SavesDepartmentRights(m, rights)
      PROVE  AccessInv'
  <2> DEFINE p == AskFor(m, "department", rights, FALSE)
  <2>1. p \in Order /\ p.by = m /\ p.what = "department" /\ p.rows = rights /\ p.at = "sent"
    BY <1>1 DEF AskFor, Order, Kinds
  <2> QED
    BY <1>1, <1>2, <1>4, <2>1 DEF SavesDepartmentRights
<1>5. ASSUME NEW b \in BOOLEAN, SavesDepartment(m, b) \/ SavesProfile(m, b) \/ Drops(m, b)
      PROVE  AccessInv'
  <2>1. ASSUME NEW w \in {"roster", "place", "drop"}, Requested(m, {AskFor(m, w, {}, b)})
        PROVE  AccessInv'
    <3>1. AskFor(m, w, {}, b) \in Order /\ AskFor(m, w, {}, b).by = m /\ AskFor(m, w, {}, b).what = w
             /\ AskFor(m, w, {}, b).at = "sent" /\ w \notin Kinds
      BY DEF AskFor, Order, Kinds
    <3> QED
      BY <1>2, <2>1, <3>1
  <2> QED
    BY <1>5, <2>1 DEF SavesDepartment, SavesProfile, Drops
<1>6. ASSUME NEW member \in SUBSET {"member"}, SavesGroups(m, member)
      PROVE  AccessInv'
  <2> DEFINE p == AskFor(m, "members", member, FALSE)
  <2>1. p \in Order /\ p.by = m /\ p.what = "members" /\ p.rows = member /\ p.at = "sent"
    BY DEF AskFor, Order, Kinds
  <2> QED
    BY <1>1, <1>2, <1>6, <2>1 DEF SavesGroups
<1>7. ASSUME SavesRights(m)
      PROVE  AccessInv'
  <2>1. PICK rights \in Choices(m) : Requested(m, { AskFor(m, "direct", rights, FALSE) })
    BY <1>7 DEF SavesRights
  <2> DEFINE p == AskFor(m, "direct", rights, FALSE)
  <2>2. rights \subseteq Rights
    BY <1>1 DEF Choices, Clickable
  <2>3. p \in Order /\ p.by = m /\ p.what = "direct" /\ p.rows = rights /\ p.at = "sent"
    BY <2>2 DEF AskFor, Order, Kinds
  <2> QED
    BY <1>1, <1>2, <2>1, <2>2, <2>3
<1> QED
  BY <1>3, <1>4, <1>5, <1>6, <1>7

\* A page is opened, or an answer arrives.
LEMMA PageKeeps ==
    ASSUME AccessInv, (\E m \in Managers : Opens(m)) \/ (\E q \in orders : AnswerComes(q))
    PROVE  AccessInv'
<1>1. /\ UNCHANGED << held, grouped, place, check, steady, withdrawn >> /\ orders' \subseteq orders
      /\ locked' = locked \/ \E m \in Managers : locked' = [locked EXCEPT ![m] = Locked]
  BY DEF Opens, AnswerComes, stored, AccessInv, OrdersOK, Order
<1>2. TablesOK'
  BY <1>1, LockedIsKnown DEF AccessInv, TablesOK
<1>3. OrdersOK' /\ Overlaps' /\ WithdrawnOK'
  BY <1>1, NothingAppears DEF AccessInv, OrdersOK
<1>4. CheckOK'
  BY <1>1, CheckWaits
<1> QED
  BY <1>2, <1>3, <1>4 DEF AccessInv

\* The routes that replace no rows: they may empty a table, and change who is where.
LEMMA OtherRoutesKeep ==
    ASSUME AccessInv, NEW q \in orders,
           TypeChanges(q) \/ PlaceChanges(q) \/ GroupGoes(q) \/ DepartmentCounts(q) \/ DepartmentGoes(q)
    PROVE  AccessInv'
<1>1. q.what \notin Kinds /\ \E at \in {"sent", "open", "ok", "refused"} : Turns(q, at)
  <2>1. q.what \in {"type", "roster", "place", "drop"}
    BY DEF TypeChanges, PlaceChanges, GroupGoes, DepartmentCounts, DepartmentGoes
  <2>2. \E at \in {"sent", "open", "ok", "refused"} : Turns(q, at)
    BY DEF TypeChanges, PlaceChanges, GroupGoes, DepartmentCounts, DepartmentGoes
  <2> QED
    BY <2>1, <2>2 DEF Kinds
<1>2. OrdersOK' /\ \A p \in orders' : p \in orders \/ p.what \notin Kinds
  BY <1>1, OrderTurns DEF AccessInv
<1>3. /\ withdrawn' = withdrawn /\ locked' = locked /\ check' = check
      /\ Watched \/ UNCHANGED << held, grouped, place, steady >>
  BY DEF TypeChanges, PlaceChanges, GroupGoes, DepartmentCounts, DepartmentGoes, stored
<1>4. TablesOK' /\ \A t \in Kinds : held'[t] \subseteq held[t]
  <2>1. CASE TypeChanges(q)
    BY <2>1 DEF TypeChanges, AccessInv, TablesOK
  <2>2. CASE PlaceChanges(q)
    BY <2>2 DEF PlaceChanges, AccessInv, TablesOK
  <2>3. CASE GroupGoes(q)
    BY <2>3 DEF GroupGoes, AccessInv, TablesOK, Kinds
  <2>4. CASE DepartmentCounts(q)
    BY <2>4 DEF DepartmentCounts, stored, AccessInv, TablesOK
  <2>5. CASE DepartmentGoes(q)
    BY <2>5 DEF DepartmentGoes, AccessInv, TablesOK, Kinds
  <2> QED
    BY <2>1, <2>2, <2>3, <2>4, <2>5
<1>5. Overlaps' /\ WithdrawnOK'
  BY <1>2, <1>3, <1>4, NothingAppears
<1>6. CheckOK'
  BY <1>3, CheckWaits
<1> QED
  BY <1>2, <1>4, <1>5, <1>6 DEF AccessInv

\* A replacement begins: it meets the transactions open on its table, and they meet it.
LEMMA ReplaceBeginsKeeps ==
    ASSUME AccessInv, NEW q \in orders, ReplaceBegins(q)
    PROVE  AccessInv'
<1> DEFINE others == {p \in orders : p.what = q.what /\ p.at = "open"}
           F == [p \in orders |->
                   IF p = q THEN [q EXCEPT !.at = "open", !.sees = held[q.what], !.met = UNION {o.rows : o \in others},
                                           !.after = {o.by : o \in {o \in others : o.sees \cap held[q.what] # {}}}]
                   ELSE IF p \in others THEN [p EXCEPT !.met = @ \cup q.rows] ELSE p]
<1>1. /\ q.what \in Kinds /\ q.at = "sent" /\ check' = check
      /\ UNCHANGED << held, grouped, place, locked, steady, withdrawn >>
  BY DEF ReplaceBegins, stored
<1>2. orders \subseteq Order /\ held \in [Kinds -> SUBSET Rows]
  BY DEF AccessInv, OrdersOK, TablesOK
<1>3. orders' = {F[p] : p \in orders}
  <2>1. orders' = {IF p \in others THEN [p EXCEPT !.met = @ \cup q.rows] ELSE p : p \in orders \ {q}} \cup
               {[q EXCEPT !.at = "open", !.sees = held[q.what], !.met = UNION {p.rows : p \in others},
                          !.after = {p.by : p \in {o \in others : o.sees \cap held[q.what] # {}}}]}
    BY DEF ReplaceBegins
  <2> QED
    BY <2>1
<1>4. /\ F[q] \in Order /\ F[q].by = q.by /\ F[q].what = q.what /\ F[q].rows = q.rows
      /\ F[q].at = "open" /\ F[q].sees = held[q.what] /\ F[q].met = UNION {o.rows : o \in others}
  <2>1. \A o \in others : o.rows \subseteq Rows /\ o.by \in Managers
    BY <1>2 DEF Order, Rows
  <2>2. {o.by : o \in {o \in others : o.sees \cap held[q.what] # {}}} \subseteq Managers
    BY <2>1
  <2>3. UNION {o.rows : o \in others} \subseteq Rows /\ held[q.what] \subseteq Rows
    BY <1>1, <1>2, <2>1
  <2> DEFINE met == UNION {o.rows : o \in others}
             after == {o.by : o \in {o \in others : o.sees \cap held[q.what] # {}}}
  <2>4. F[q] = [q EXCEPT !.at = "open", !.sees = held[q.what], !.met = met, !.after = after]
    OBVIOUS
  <2> HIDE DEF F, met, after, others
  <2>5. q \in Order /\ met \subseteq Rows /\ after \subseteq Managers /\ held[q.what] \subseteq Rows
    BY <1>2, <2>2, <2>3 DEF met, after
  <2>6. F[q].met = met /\ F[q].sees = held[q.what] /\ F[q].at = "open"
    BY <2>4, <2>5 DEF Order
  <2>7. F[q].by = q.by /\ F[q].what = q.what /\ F[q].rows = q.rows
    BY <2>4, <2>5 DEF Order
  <2>8. F[q] \in Order
    <3> DEFINE sees == held[q.what]
               r == [q EXCEPT !.at = "open", !.sees = sees]
    <3>1. F[q] = [r EXCEPT !.met = met, !.after = after] /\ sees \subseteq Rights \cup {"member"}
      BY <2>4, <2>5 DEF Rows
    <3> HIDE DEF sees
    <3>2. r \in Order
      BY <2>5, <3>1 DEF Order
    <3> HIDE DEF r
    <3> QED
      BY <2>5, <3>1, <3>2 DEF Order, Rows
  <2> QED
    BY <2>6, <2>7, <2>8 DEF met
<1>5. \A p \in orders \ {q} :
        /\ F[p] \in Order /\ F[p].by = p.by /\ F[p].what = p.what /\ F[p].rows = p.rows /\ F[p].at = p.at /\ F[p].sees = p.sees
        /\ F[p].met = IF p \in others THEN p.met \cup q.rows ELSE p.met
  <2> HIDE DEF others
  <2> QED
    BY <1>2 DEF Order
<1> HIDE DEF F
<1>6. OrdersOK'
  <2>1. F \in [orders -> Order]
    BY <1>4, <1>5 DEF F
  <2>2. \A p \in orders : F[p].by = p.by /\ F[p].what = p.what /\ F[p].rows = p.rows
    BY <1>4, <1>5
  <2>3. OrdersOK
    BY DEF AccessInv
  <2> QED
    BY <1>3, <2>1, <2>2, <2>3, OrdersChange
<1>7. Overlaps'
  <2> SUFFICES ASSUME NEW u \in orders, NEW t \in Kinds, IsOpen(F[u], t)
               PROVE  /\ held[t] \ F[u].sees \subseteq F[u].met
                      /\ \A v \in orders : F[v] # F[u] /\ IsOpen(F[v], t) => F[v].rows \subseteq F[u].met
    BY <1>1, <1>3 DEF Overlaps
  <2>1. CASE u = q
    <3>1. t = q.what
      BY <1>4, <2>1 DEF IsOpen
    <3>2. ASSUME NEW v \in orders, v # q, IsOpen(F[v], t)
          PROVE  F[v].rows \subseteq F[u].met
      <4>1. v \in others
        BY <1>5, <3>1, <3>2 DEF IsOpen
      <4>2. v.rows \subseteq UNION {o.rows : o \in others}
        BY <4>1
      <4> HIDE DEF others
      <4> QED
        BY <1>4, <1>5, <2>1, <3>2, <4>2
    <3> QED
      BY <1>4, <2>1, <3>1, <3>2
  <2>2. CASE u # q
    <3>1. IsOpen(u, t) /\ F[u].sees = u.sees /\ u.met \subseteq F[u].met /\ (t = q.what => q.rows \subseteq F[u].met)
      <4>1. F[u].what = u.what /\ F[u].at = u.at /\ F[u].sees = u.sees
            /\ F[u].met = IF u \in others THEN u.met \cup q.rows ELSE u.met
        <5> HIDE DEF others
        <5> QED
          BY <1>5, <2>2
      <4>2. u.what = t /\ u.at = "open"
        BY <4>1 DEF IsOpen
      <4>3. t = q.what => u \in others
        BY <2>2, <4>2
      <4> HIDE DEF others
      <4> QED
        BY <4>1, <4>2, <4>3 DEF IsOpen
    <3>2. /\ held[t] \ u.sees \subseteq u.met
          /\ \A p \in orders \ {u} : IsOpen(p, t) => p.rows \subseteq u.met
      BY <3>1 DEF AccessInv, Overlaps
    <3>3. ASSUME NEW v \in orders, F[v] # F[u], IsOpen(F[v], t)
          PROVE  F[v].rows \subseteq F[u].met
      <4>1. CASE v = q
        BY <1>4, <3>1, <3>3, <4>1 DEF IsOpen
      <4>2. CASE v # q
        <5>1. v # u /\ IsOpen(v, t) /\ F[v].rows = v.rows
          BY <1>5, <3>3, <4>2 DEF IsOpen
        <5> QED
          BY <3>1, <3>2, <5>1
      <4> QED
        BY <4>1, <4>2
    <3> QED
      BY <3>1, <3>2, <3>3
  <2> QED
    BY <2>1, <2>2
<1>8. WithdrawnOK' /\ TablesOK'
  BY <1>1 DEF AccessInv, WithdrawnOK, WithdrawnStays, TablesOK
<1>9. CheckOK'
  BY <1>1, CheckWaits
<1> QED
  BY <1>6, <1>7, <1>8, <1>9 DEF AccessInv

\* A replacement commits, or is refused: those that overlap it lose sight of what it deleted and keep what they met.
LEMMA ReplaceCommitsKeeps ==
    ASSUME AccessInv, NEW q \in orders, ReplaceCommits(q)
    PROVE  AccessInv'
<1>1. /\ q.what \in Kinds /\ IsOpen(q, q.what) /\ grouped' = grouped /\ place' = place /\ locked' = locked
      /\ check' = check /\ Watched
  BY DEF ReplaceCommits, IsOpen
<1>2. /\ orders \subseteq Order /\ held \in [Kinds -> SUBSET Rows]
      /\ \A p \in orders : p.sees \subseteq Rows /\ p.met \subseteq Rows /\ p.rows \subseteq Rows
  BY DEF AccessInv, OrdersOK, TablesOK, Order, Rows
<1>3. CheckOK'
  BY <1>1, CheckWaits
<1> DEFINE t == q.what
<1>4. /\ held[t] \ q.sees \subseteq q.met
      /\ \A p \in orders \ {q} : IsOpen(p, t) => held[t] \ p.sees \subseteq p.met /\ q.rows \subseteq p.met
  BY <1>1 DEF AccessInv, Overlaps
<1>5. ASSUME NEW at \in {"ok", "refused"}, orders' = Finished(q, at),
             \A u \in Kinds \ {t} : held'[u] = held[u],
             at = "ok" => held'[t] = LeftOver(q) \cup q.rows, at = "refused" => held'[t] = held[t]
      PROVE  OrdersOK' /\ Overlaps'
  <2> DEFINE F == [p \in orders |->
                     IF p = q THEN [q EXCEPT !.at = at, !.sees = {}, !.met = {}]
                     ELSE IF p.what = q.what THEN [p EXCEPT !.sees = IF at = "ok" THEN @ \ q.sees ELSE @, !.after = @ \ {q.by}]
                     ELSE p]
  <2>1. orders' = {F[p] : p \in orders}
    BY <1>5 DEF Finished
  <2>2. F[q] \in Order /\ F[q].by = q.by /\ F[q].what = q.what /\ F[q].rows = q.rows /\ F[q].at = at
    <3>1. F[q] = [q EXCEPT !.at = at, !.sees = {}, !.met = {}] /\ q \in Order
      BY <1>2
    <3> HIDE DEF F
    <3> QED
      BY <3>1 DEF Order
  <2>3. \A p \in orders \ {q} :
          /\ F[p] \in Order /\ F[p].by = p.by /\ F[p].what = p.what /\ F[p].rows = p.rows /\ F[p].at = p.at /\ F[p].met = p.met
          /\ F[p].sees = IF at = "ok" /\ p.what = t THEN p.sees \ q.sees ELSE p.sees
    <3> TAKE p \in orders \ {q}
    <3>1. p \in Order
      BY <1>2
    <3>2. CASE p.what = q.what
      <4> DEFINE sees == IF at = "ok" THEN p.sees \ q.sees ELSE p.sees
                 after == p.after \ {q.by}
      <4>1. F[p] = [p EXCEPT !.sees = sees, !.after = after]
        BY <3>2
      <4>2. sees \subseteq Rights \cup {"member"} /\ after \subseteq Managers
        BY <3>1 DEF Order
      <4>3. sees = IF at = "ok" /\ p.what = t THEN p.sees \ q.sees ELSE p.sees
        BY <3>2
      <4> HIDE DEF F, sees, after, t
      <4>4. F[p] \in Order
        BY <3>1, <4>1, <4>2 DEF Order
      <4>5. F[p].by = p.by /\ F[p].what = p.what /\ F[p].rows = p.rows /\ F[p].at = p.at /\ F[p].met = p.met /\ F[p].sees = sees
        BY <3>1, <4>1 DEF Order
      <4> QED
        BY <4>3, <4>4, <4>5
    <3>3. CASE p.what # q.what
      BY <3>1, <3>3
    <3> QED
      BY <3>2, <3>3
  <2>4. F \in [orders -> Order]
    BY <2>2, <2>3
  <2> HIDE DEF F
  <2>5. OrdersOK'
    BY <2>1, <2>2, <2>3, <2>4, OrdersChange DEF AccessInv
  <2>6. Overlaps'
    <3> SUFFICES ASSUME NEW p \in orders, NEW u \in Kinds, IsOpen(F[p], u)
                 PROVE  /\ held'[u] \ F[p].sees \subseteq F[p].met
                        /\ \A v \in orders : F[v] # F[p] /\ IsOpen(F[v], u) => F[v].rows \subseteq F[p].met
      BY <2>1 DEF Overlaps
    <3>1. p # q /\ IsOpen(p, u) /\ F[p].met = p.met
      BY <2>2, <2>3 DEF IsOpen
    <3>2. /\ held[u] \ p.sees \subseteq p.met
          /\ \A o \in orders \ {p} : IsOpen(o, u) => o.rows \subseteq p.met
      BY <3>1 DEF AccessInv, Overlaps
    <3>3. held'[u] \ F[p].sees \subseteq p.met
      <4>1. CASE u # t \/ at = "refused"
        <5>1. held'[u] = held[u] /\ F[p].sees = p.sees
          BY <1>5, <2>3, <3>1, <4>1 DEF IsOpen
        <5> QED
          BY <3>2, <5>1
      <4>2. CASE u = t /\ at = "ok"
        <5>1. held'[u] = (held[u] \ q.sees) \cup q.rows /\ F[p].sees = p.sees \ q.sees
          BY <1>5, <2>3, <3>1, <4>2 DEF IsOpen, LeftOver
        <5>2. q.rows \subseteq p.met
          BY <1>4, <3>1, <4>2
        <5> HIDE DEF t
        <5> QED
          BY <3>2, <5>1, <5>2
      <4> QED
        BY <4>1, <4>2
    <3>4. ASSUME NEW v \in orders, F[v] # F[p], IsOpen(F[v], u)
          PROVE  F[v].rows \subseteq p.met
      <4>1. v # q /\ v # p /\ IsOpen(v, u) /\ F[v].rows = v.rows
        BY <2>2, <2>3, <3>4 DEF IsOpen
      <4> QED
        BY <3>2, <4>1
    <3> QED
      BY <3>1, <3>3, <3>4
  <2> QED
    BY <2>5, <2>6
<1>6. CASE /\ Insertable(q) /\ orders' = Finished(q, "ok")
           /\ held' = [held EXCEPT ![q.what] = LeftOver(q) \cup q.rows]
           /\ withdrawn' = (withdrawn \ ({q.what} \X q.rows)) \cup ({q.what} \X (RowsOf(q.what) \ (q.rows \cup q.met)))
  <2>1. held'[t] = LeftOver(q) \cup q.rows /\ \A u \in Kinds \ {t} : held'[u] = held[u]
    BY <1>1, <1>2, <1>6
  <2>2. OrdersOK' /\ Overlaps'
    BY <1>5, <1>6, <2>1
  <2>3. LeftOver(q) \subseteq held[t] /\ LeftOver(q) \subseteq q.met
    BY <1>4 DEF LeftOver
  <2>4. /\ q.rows \subseteq RowsOf(t) \cap (Known \cup {"member"})
        /\ q.rows # {} => /\ t \in {"group", "members"} => grouped # "gone"
                          /\ t = "department" => place # "gone"
    BY <1>1, <1>6 DEF Insertable, AccessInv, OrdersOK
  <2>5. TablesOK'
    <3>1. held'[t] \subseteq RowsOf(t) \cap (Known \cup {"member"}) /\ held' \in [Kinds -> SUBSET Rows]
      BY <1>1, <1>2, <1>6, <2>1, <2>3, <2>4 DEF AccessInv, TablesOK
    <3>2. /\ grouped = "gone" => held'["group"] = {} /\ held'["members"] = {}
          /\ place = "gone" => held'["department"] = {}
      BY <2>1, <2>3, <2>4 DEF AccessInv, TablesOK, Kinds
    <3> QED
      BY <1>1, <2>1, <3>1, <3>2 DEF AccessInv, TablesOK
  <2>6. WithdrawnOK'
    <3>1. RowsOf(t) \subseteq Rows
      BY DEF RowsOf, Rows
    <3>2. withdrawn' \subseteq Kinds \X Rows
      BY <1>1, <1>6, <3>1 DEF AccessInv, WithdrawnOK
    <3>3. ASSUME NEW x \in withdrawn'
          PROVE  x[2] \notin held'[x[1]]
      <4>1. CASE x \in withdrawn /\ x \notin {t} \X q.rows
        <5>1. x \in Kinds \X Rows /\ x[2] \notin held[x[1]]
          BY <4>1 DEF AccessInv, WithdrawnOK, WithdrawnStays
        <5>2. x[1] = t => x[2] \notin q.rows
          BY <4>1, <5>1
        <5> QED
          BY <2>1, <2>3, <5>1, <5>2
      <4>2. CASE x \in {t} \X (RowsOf(t) \ (q.rows \cup q.met))
        BY <2>1, <2>3, <4>2
      <4> QED
        BY <1>6, <4>1, <4>2
    <3> QED
      BY <3>2, <3>3 DEF WithdrawnOK, WithdrawnStays
  <2> QED
    BY <1>3, <2>2, <2>5, <2>6 DEF AccessInv
<1>7. CASE orders' = Finished(q, "refused") /\ held' = held /\ withdrawn' = withdrawn
  <2>1. OrdersOK' /\ Overlaps'
    BY <1>5, <1>7
  <2> QED
    BY <1>1, <1>3, <1>7, <2>1 DEF AccessInv, TablesOK, WithdrawnOK, WithdrawnStays
<1> QED
  BY <1>6, <1>7 DEF ReplaceCommits

\* Every button, route, page and query.
LEMMA AccessStep == AccessInv /\ [AccessNext]_accessVars => AccessInv'
<1> SUFFICES ASSUME AccessInv, [AccessNext]_accessVars
             PROVE  AccessInv'
  OBVIOUS
<1>1. CASE UNCHANGED accessVars
  BY <1>1 DEF accessVars, AccessInv, TablesOK, OrdersOK, Overlaps, IsOpen, WithdrawnOK, WithdrawnStays, CheckOK, Coming, Carried
<1> QED
  BY <1>1, CheckKeeps, FormsKeep, PageKeeps, OtherRoutesKeep, ReplaceBeginsKeeps, ReplaceCommitsKeeps DEF AccessNext

\* At the start nothing was withdrawn.
LEMMA AccessStart == AccessInit => AccessInv
<1> SUFFICES ASSUME AccessInit
             PROVE  AccessInv
  OBVIOUS
<1>1. TablesOK
  BY AccessAssumption DEF AccessInit, TablesOK, RowsOf, Rows, Kinds, AccessAssumption
<1>2. CheckOK
  BY DEF AccessInit, CheckOK, NoCheck
<1> QED
  BY <1>1, <1>2 DEF AccessInit, AccessInv, OrdersOK, Overlaps, WithdrawnOK, WithdrawnStays

\* The tables, the requests and the check fit together at all times.
THEOREM AccessInvariance == AccessSpec => []AccessInv
  BY AccessStart, AccessStep, PTL DEF AccessSpec

\* WithdrawnStays and SteadyRightsFound: a right that was taken away is gone, and a check misses none that was there all along.
THEOREM RightsAreKept == AccessSpec => [](WithdrawnStays /\ SteadyRightsFound)
  BY AccessInvariance, AccessInvImplies, PTL

----------------------------------------------------------------------------
(* The parts side by side: what is proved of each holds of the platform.    *)

PlatformInv == AccountsInv /\ ThrottleInv /\ RegistryInv /\ WebhooksInv /\ AccessInv

\* One part moves; the others stay as they are.
LEMMA PlatformStep == PlatformInv /\ [PlatformNext]_<< part, platformVars, accessVars >> => PlatformInv'
<1> SUFFICES ASSUME PlatformInv, [PlatformNext]_<< part, platformVars, accessVars >>
             PROVE  PlatformInv'
  OBVIOUS
<1>1. [AccountsNext]_accountsVars /\ [ThrottleNext]_throttleVars /\ [RegistryNext]_registryVars
        /\ [WebhooksNext]_webhookVars /\ [AccessNext]_accessVars
  BY DEF PlatformNext, platformVars
<1>2. AccountsInv'
  BY <1>1, AccountsStep DEF PlatformInv
<1>3. ThrottleInv'
  BY <1>1, ThrottleStep DEF PlatformInv
<1>4. RegistryInv'
  BY <1>1, RegistryStep DEF PlatformInv
<1>5. WebhooksInv'
  BY <1>1, WebhooksStep DEF PlatformInv
<1>6. AccessInv'
  BY <1>1, AccessStep DEF PlatformInv
<1> QED
  BY <1>2, <1>3, <1>4, <1>5, <1>6 DEF PlatformInv

\* Every part keeps its invariant beside the others.
THEOREM PlatformInvariance == PlatformSpec => []PlatformInv
<1>1. PlatformInit => PlatformInv
  BY AccountsStart, ThrottleStart, RegistryStart, WebhooksStart, AccessStart DEF PlatformInit, PlatformInv
<1> QED
  BY <1>1, PlatformStep, PTL DEF PlatformSpec

\* PlatformTypeOK: every part's state has its type.
THEOREM PlatformTypes == PlatformSpec => []PlatformTypeOK
  BY PlatformInvariance, AccessInvImplies, PTL
     DEF PlatformInv, AccountsInv, ThrottleInv, RegistryInv, WebhooksInv, PlatformTypeOK

\* LimitsHold: neither the login throttle nor a webhook's deliveries go past their limits.
THEOREM PlatformLimits == PlatformSpec => []LimitsHold
  BY PlatformInvariance, PTL DEF PlatformInv, ThrottleInv, WebhooksInv, LimitsHold

\* RightsHold: a right or membership that was taken away is gone, and a check finds the rights there all along.
THEOREM PlatformRights == PlatformSpec => []RightsHold
  BY PlatformInvariance, AccessInvImplies, PTL DEF PlatformInv, RightsHold
=============================================================================
