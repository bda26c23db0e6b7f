------------------------------ MODULE Accounts ------------------------------
(***************************************************************************)
(* The people of the platform: their roles, passwords, sessions and        *)
(* invites.  A request of an administrator is checked on what it reads     *)
(* (UserAdmin) and takes effect in a transaction later on (UserStore,      *)
(* InviteStore); a sign-in proves a password and opens its session later.  *)
(* Other requests come in between.                                         *)
(***************************************************************************)
EXTENDS Naturals, FiniteSets

CONSTANTS
    People,         \* who may ever have an account
    First,          \* the operator made when the platform was set up
    Browsers,       \* each has one session cookie
    Tenants,        \* a membership in one of them makes a tenant manager
    MaxPasswords,   \* bound: passwords a person sets
    MaxRequests,    \* bound: requests of administrators, those from the command line too
    Nobody          \* no session

VARIABLES
    person,     \* users with their memberships; pw counts the passwords they have had
    invite,     \* the people with an invite that can still be used
    session,    \* the session each browser has a cookie for: whose, opened with which password, and
                \* whether the sign-in was under way when the sessions of the person were ended (late)
    signin,     \* proofs of identity whose session is still to be opened
    requests,   \* requests that passed their checks
    asked,      \* how many there have been
    rolledBack  \* an administrator was deleted again because the request that made them failed

accountsVars == << person, invite, session, signin, requests, asked, rolledBack >>

PlatformRoles == {"system_admin", "operator"}
Roles == PlatformRoles \cup Tenants

ASSUME AccountsAssumption ==
    /\ IsFiniteSet(People) /\ First \in People /\ Nobody \notin People
    /\ PlatformRoles \cap Tenants = {}
    /\ MaxPasswords \in Nat /\ MaxRequests \in Nat

Proof == [who : People, pw : 1..MaxPasswords, late : BOOLEAN]
None == [who |-> Nobody, pw |-> 0, late |-> FALSE]
Proves(u, pw) == [who |-> u, pw |-> pw, late |-> FALSE]
AccountOps == {"create", "grant", "invite", "enable", "disable", "add", "remove", "reinvite"}
Request(op, u, r) == [op |-> op, who |-> u, role |-> r]

Gone == [status |-> "none", roles |-> {}, pw |-> 0]
Administers(p) == p.status = "active" /\ p.roles \cap PlatformRoles # {}
Administrators == {u \in People : Administers(person[u])}

----------------------------------------------------------------------------
\* SessionStore.resolve: a session is only good while its person is active.
Resolves(b) == session[b] # None /\ person[session[b].who].status = "active"

\* Who may send requests: the admin key, an operator key, whoever is signed in.
Principals == {"adminKey", "operatorKey"} \cup {b \in Browsers : Resolves(b)}
Held(a) == IF a \in Browsers THEN person[session[a].who].roles ELSE {}
IsSystemAdmin(a) == a = "adminKey" \/ "system_admin" \in Held(a)
IsOperator(a) == a \in {"adminKey", "operatorKey"} \/ Held(a) \cap PlatformRoles # {}
ManagedTenants(a) == Held(a) \cap Tenants
Is(a, u) == a \in Browsers /\ session[a].who = u

\* Belongs wholly to the given tenants.
WithinTenants(u, ts) == person[u].roles # {} /\ person[u].roles \subseteq ts

Reach(a, u) ==
    /\ person[u].status # "none"
    /\ IsOperator(a) \/ WithinTenants(u, ManagedTenants(a))

MayGrant(a, r) ==
    /\ r # "system_admin"
    /\ r = "operator" => IsSystemAdmin(a)
    /\ IsOperator(a) \/ r \in ManagedTenants(a)

MayChange(a, u) ==
    /\ "system_admin" \notin person[u].roles
    /\ "operator" \in person[u].roles => IsSystemAdmin(a) \/ ~IsOperator(a)

----------------------------------------------------------------------------
AccountsInit ==
    /\ person = [u \in People |-> IF u = First THEN [status |-> "active", roles |-> {"operator"}, pw |-> 0] ELSE Gone]
    /\ invite = {First}
    /\ session = [b \in Browsers |-> None]
    /\ signin = [b \in Browsers |-> None]
    /\ requests = {} /\ asked = 0 /\ rolledBack = FALSE

Admit(q) ==
    /\ asked < MaxRequests /\ asked' = asked + 1
    /\ requests' = requests \cup {q}
    /\ UNCHANGED << person, invite, session, signin, rolledBack >>

\* The checks of each request, on what is read at that moment.
AskCreate(a, u, r) ==
    /\ person[u].status = "none" /\ MayGrant(a, r)
    /\ Admit(Request("create", u, r))

AskSetStatus(a, u, op) ==
    /\ Reach(a, u) /\ MayChange(a, u)
    /\ ~(op = "disable" /\ Is(a, u))
    /\ Admit(Request(op, u, "none"))

AskAddMembership(a, u, r) ==
    /\ Reach(a, u) /\ MayGrant(a, r) /\ MayChange(a, u)
    /\ ~(IsOperator(a) /\ Is(a, u) /\ r \in Tenants)
    /\ Admit(Request("add", u, r))

AskRemoveMembership(a, u, r) ==
    /\ Reach(a, u) /\ r \in person[u].roles /\ MayChange(a, u)
    /\ ~(Is(a, u) /\ (r = "operator" \/ person[u].roles = {r}))
    /\ Admit(Request("remove", u, r))

AskReinvite(a, u) ==
    /\ Reach(a, u) /\ person[u].status = "active" /\ MayChange(a, u)
    /\ Admit(Request("reinvite", u, "none"))

Ask ==
    \E a \in Principals, u \in People :
        \/ \E r \in Roles : AskCreate(a, u, r) \/ AskAddMembership(a, u, r) \/ AskRemoveMembership(a, u, r)
        \/ \E op \in {"enable", "disable"} : AskSetStatus(a, u, op)
        \/ AskReinvite(a, u)

----------------------------------------------------------------------------
\* Mutant: the others are counted whether or not they are active.
KeepsAdministratorBroken(u, after) ==
    Administers(person[u]) =>
        Administers(after) \/ \E v \in People \ {u} : person[v].roles \cap PlatformRoles # {}

\* The change must leave an administrator who is active (assertNotLastAdmin, under the lock).
KeepsAdministrator(u, after) ==
    Administers(person[u]) => Administers(after) \/ Administrators \ {u} # {}

\* Mutant: the sessions go on.
SessionsWithoutBroken(u) == session

\* DELETE FROM sessions WHERE user_id = u.
SessionsWithout(u) == [b \in Browsers |-> IF session[b].who = u THEN None ELSE session[b]]

\* The sign-ins under way do not notice.
SigninsLate(u) == [b \in Browsers |-> IF signin[b].who = u THEN [signin[b] EXCEPT !.late = TRUE] ELSE signin[b]]

\* UserStore.createUser: the email is unique.
CreateUser(q) ==
    /\ q.op = "create"
    /\ IF person[q.who].status = "none"
       THEN /\ person' = [person EXCEPT ![q.who] = [status |-> "active", roles |-> {}, pw |-> 0]]
            /\ requests' = (requests \ {q}) \cup {[q EXCEPT !.op = "grant"]}
       ELSE requests' = requests \ {q} /\ UNCHANGED person
    /\ UNCHANGED << invite, session, signin, asked, rolledBack >>

\* Then its memberships, then its invite and the audit entry: statements of their own.
GrantFirst(q) ==
    /\ q.op = "grant" /\ person[q.who].status # "none"
    /\ person' = [person EXCEPT ![q.who].roles = @ \cup {q.role}]
    /\ requests' = (requests \ {q}) \cup {[q EXCEPT !.op = "invite"]}
    /\ UNCHANGED << invite, session, signin, asked, rolledBack >>

InviteFirst(q) ==
    /\ q.op = "invite" /\ person[q.who].status # "none"
    /\ invite' = invite \cup {q.who}
    /\ requests' = requests \ {q}
    /\ UNCHANGED << person, session, signin, asked, rolledBack >>

\* One of them failed: the person is deleted, and all that hangs off them; what is under way for
\* the id that is gone finds nothing.
DeleteUser(q) ==
    /\ q.op \in {"grant", "invite"}
    /\ person' = [person EXCEPT ![q.who] = Gone]
    /\ invite' = invite \ {q.who}
    /\ session' = SessionsWithout(q.who)
    /\ signin' = [b \in Browsers |-> IF signin[b].who = q.who THEN None ELSE signin[b]]
    /\ requests' = {r \in requests : r.who # q.who}
    /\ rolledBack' = (rolledBack \/ person[q.who].roles \cap PlatformRoles # {})
    /\ UNCHANGED asked

Enable(q) ==
    /\ q.op = "enable"
    /\ person' = [person EXCEPT ![q.who].status = IF @ = "none" THEN @ ELSE "active"]
    /\ requests' = requests \ {q}
    /\ UNCHANGED << invite, session, signin, asked, rolledBack >>

\* UserStore.setStatus: refused for the last administrator; ends the sessions in the same transaction.
Disable(q) ==
    /\ q.op = "disable"
    /\ requests' = requests \ {q}
    /\ LET after == [person[q.who] EXCEPT !.status = "disabled"] IN
        IF person[q.who].status # "none" /\ KeepsAdministrator(q.who, after)
        THEN /\ person' = [person EXCEPT ![q.who] = after]
             /\ session' = SessionsWithout(q.who) /\ signin' = SigninsLate(q.who)
        ELSE UNCHANGED << person, session, signin >>
    /\ UNCHANGED << invite, asked, rolledBack >>

AddMembership(q) ==
    /\ q.op = "add"
    /\ person' = [person EXCEPT ![q.who].roles = IF person[q.who].status = "none" THEN @ ELSE @ \cup {q.role}]
    /\ requests' = requests \ {q}
    /\ UNCHANGED << invite, session, signin, asked, rolledBack >>

RemoveMembership(q) ==
    /\ q.op = "remove"
    /\ requests' = requests \ {q}
    /\ LET after == [person[q.who] EXCEPT !.roles = @ \ {q.role}] IN
        IF q.role \in PlatformRoles => KeepsAdministrator(q.who, after)
        THEN person' = [person EXCEPT ![q.who] = after]
        ELSE UNCHANGED person
    /\ UNCHANGED << invite, session, signin, asked, rolledBack >>

\* InviteStore.create: the unused ones before it are gone, so there is at most one.
Reinvite(q) ==
    /\ q.op = "reinvite"
    /\ invite' = IF person[q.who].status = "none" THEN invite ELSE invite \cup {q.who}
    /\ requests' = requests \ {q}
    /\ UNCHANGED << person, session, signin, asked, rolledBack >>

TakeEffect ==
    \E q \in requests :
        \/ CreateUser(q) \/ GrantFirst(q) \/ InviteFirst(q) \/ DeleteUser(q)
        \/ Enable(q) \/ Disable(q) \/ AddMembership(q) \/ RemoveMembership(q) \/ Reinvite(q)

----------------------------------------------------------------------------
\* pnpm system-admin:create and operator:create: found or made, enabled, given the role, invited.
CommandLineGrant(u, r) ==
    /\ asked < MaxRequests /\ asked' = asked + 1
    /\ person' = [person EXCEPT ![u].status = "active", ![u].roles = @ \cup {r}]
    /\ invite' = invite \cup {u}
    /\ UNCHANGED << session, signin, requests, rolledBack >>

\* removeSystemAdmin.
CommandLineRemove(u) ==
    /\ "system_admin" \in person[u].roles
    /\ KeepsAdministrator(u, [person[u] EXCEPT !.roles = @ \ {"system_admin"}])
    /\ asked < MaxRequests /\ asked' = asked + 1
    /\ person' = [person EXCEPT ![u].roles = @ \ {"system_admin"}]
    /\ UNCHANGED << invite, session, signin, requests, rolledBack >>

\* POST /auth/login up to the password: the account is read once.
Login(b, u) ==
    /\ signin[b] = None
    /\ person[u].status = "active" /\ person[u].pw > 0
    /\ signin' = [signin EXCEPT ![b] = Proves(u, person[u].pw)]
    /\ UNCHANGED << person, invite, session, requests, asked, rolledBack >>

\* POST /auth/accept-invite: one transaction uses the invite up, sets the password, ends the sessions.
AcceptInvite(b, u) ==
    /\ signin[b] = None
    /\ u \in invite /\ person[u].status = "active" /\ person[u].pw < MaxPasswords
    /\ person' = [person EXCEPT ![u].pw = @ + 1]
    /\ invite' = invite \ {u}
    /\ session' = SessionsWithout(u)
    /\ signin' = [SigninsLate(u) EXCEPT ![b] = Proves(u, person[u].pw + 1)]
    /\ UNCHANGED << requests, asked, rolledBack >>

LapseInvite(u) ==
    /\ u \in invite /\ invite' = invite \ {u}
    /\ UNCHANGED << person, session, signin, requests, asked, rolledBack >>

\* startSession: the session of the cookie goes, a new one is opened.
StartSession(b) ==
    /\ signin[b] # None
    /\ session' = [session EXCEPT ![b] = signin[b]]
    /\ signin' = [signin EXCEPT ![b] = None]
    /\ UNCHANGED << person, invite, requests, asked, rolledBack >>

\* POST /auth/logout, an expiry, or purgeExpired.
EndSession(b) ==
    /\ session[b] # None
    /\ session' = [session EXCEPT ![b] = None]
    /\ UNCHANGED << person, invite, signin, requests, asked, rolledBack >>

SignIn ==
    \E b \in Browsers :
        \/ \E u \in People : Login(b, u) \/ AcceptInvite(b, u)
        \/ StartSession(b) \/ EndSession(b)

AccountsNext ==
    \/ Ask \/ TakeEffect \/ SignIn
    \/ \E u \in People : LapseInvite(u) \/ CommandLineRemove(u) \/ \E r \in PlatformRoles : CommandLineGrant(u, r)

AccountsSpec == AccountsInit /\ [][AccountsNext]_accountsVars

----------------------------------------------------------------------------
\* Types: a person who is gone has no roles, no password and no invite.
AccountsTypeOK ==
    /\ person \in [People -> [status : {"none", "active", "disabled"}, roles : SUBSET Roles, pw : 0..MaxPasswords]]
    /\ \A u \in People : person[u].status = "none" => person[u] = Gone /\ u \notin invite
    /\ invite \subseteq People
    /\ session \in [Browsers -> Proof \cup {None}] /\ signin \in [Browsers -> Proof \cup {None}]
    /\ requests \subseteq [op : AccountOps, who : People, role : Roles \cup {"none"}]
    /\ asked \in 0..MaxRequests /\ rolledBack \in BOOLEAN

\* Administrators disable, demote and delete each other at the same time, from the API and from
\* the command line: one who is active remains (UserStore: "The platform always keeps an active
\* operator or system admin"), unless the last one was made by a request that was then undone.
AdministratorRemains == Administrators # {} \/ rolledBack

\* A password that is set and a person who is disabled end the sessions there are: a session that is
\* left was opened with the present password of somebody active, or its sign-in was under way.
OldSessionsEnd ==
    \A b \in Browsers :
        session[b] # None /\ ~session[b].late =>
            person[session[b].who].status = "active" /\ session[b].pw = person[session[b].who].pw
=============================================================================
