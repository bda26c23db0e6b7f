--------------------------- MODULE EmployeeAccounts ---------------------------
(***************************************************************************)
(* New employees of the ERP.  A manager fills a form and submits it        *)
(* (NewEmployeeForm); the route looks for the address, hashes the          *)
(* password, creates user and employee and then logs it, and only the      *)
(* unique index keeps two requests apart (POST of employees).  Who signs   *)
(* in keeps the role of that moment (auth.ts), whatever is changed later.  *)
(* One address, typed by every manager.                                    *)
(***************************************************************************)
EXTENDS Naturals, FiniteSets

CONSTANTS Hirers,        \* managers with the form open
          MaxSubmits     \* submissions of a form, and changes of the role

Roles == {"employee", "manager"}
Told == {"nothing", "invalid", "created", "in use", "error"}

VARIABLES hiring,        \* manager -> the fields, the request under way and what the form says
          account,       \* the stored user with the address: role and whose request made it
          creations,     \* the requests that created a user, and those whose entry is in the audit log
          logged,
          visit,         \* the user's session: none, or the role it was given
          changed        \* the role was changed since the user signed in

staffVars == << hiring, account, creations, logged, visit, changed >>

NoAccount == [role |-> "none", by |-> "none"]
EmptyForm == [role |-> "employee", valid |-> FALSE, at |-> "idle", says |-> "nothing", tries |-> 0, unsure |-> FALSE]

StaffTypeOK ==
    /\ \A m \in Hirers : /\ hiring[m].at \in {"idle", "sent", "checked", "created", "answered"}
                         /\ hiring[m].says \in Told /\ hiring[m].role \in Roles
    /\ account.role \in Roles \cup {"none"} /\ visit \in Roles \cup {"none"}
    /\ account = NoAccount <=> creations = {}

StaffInit ==
    /\ hiring = [m \in Hirers |-> EmptyForm] /\ account = NoAccount /\ creations = {} /\ logged = {}
    /\ visit = "none" /\ changed = FALSE

FormIs(m, f) == hiring' = [hiring EXCEPT ![m] = f]

\* The fields: complete or not, and the role.
Fills(m, role, valid) ==
    /\ hiring[m].at = "idle" /\ hiring[m].says # "created"
    /\ FormIs(m, [hiring[m] EXCEPT !.role = role, !.valid = valid])
    /\ UNCHANGED << account, creations, logged, visit, changed >>

\* The button is disabled while a request is under way.
Submits(m) ==
    /\ hiring[m].at = "idle" /\ hiring[m].says # "created" /\ hiring[m].tries < MaxSubmits
    /\ FormIs(m, IF hiring[m].valid
               THEN [hiring[m] EXCEPT !.at = "sent", !.tries = @ + 1, !.says = "nothing"]
               ELSE [hiring[m] EXCEPT !.says = "invalid"])
    /\ UNCHANGED << account, creations, logged, visit, changed >>

\* An answer arrives; a lost one, like a failure, is an error to the form, and nothing tells how far the request got.
Says(m, answer) == FormIs(m, [hiring[m] EXCEPT !.at = "idle", !.says = answer])

FindsUser(m) ==
    /\ hiring[m].at = "sent"
    /\ IF account # NoAccount THEN Says(m, "in use") ELSE FormIs(m, [hiring[m] EXCEPT !.at = "checked"])
    /\ UNCHANGED << account, creations, logged, visit, changed >>

\* After the hash: the user is created, or the index refuses a second one, which the route does not catch.
TakenBroken == FALSE
Taken == account # NoAccount
CreatesUser(m) ==
    /\ hiring[m].at = "checked"
    /\ IF Taken THEN Says(m, "error") /\ UNCHANGED << account, creations >>
       ELSE /\ FormIs(m, [hiring[m] EXCEPT !.at = "created"])
            /\ account' = [role |-> hiring[m].role, by |-> m] /\ creations' = creations \cup {m}
    /\ UNCHANGED << logged, visit, changed >>

LogsUser(m) ==
    /\ hiring[m].at = "created" /\ logged' = logged \cup {m}
    /\ FormIs(m, [hiring[m] EXCEPT !.at = "answered"])
    /\ UNCHANGED << account, creations, visit, changed >>

GoesToEmployee(m) ==
    /\ hiring[m].at = "answered" /\ Says(m, "created")
    /\ UNCHANGED << account, creations, logged, visit, changed >>

RequestFails(m) ==
    /\ hiring[m].at # "idle"
    /\ FormIs(m, [hiring[m] EXCEPT !.at = "idle", !.says = "error", !.unsure = TRUE])
    /\ UNCHANGED << account, creations, logged, visit, changed >>

SignsIn ==
    /\ account # NoAccount /\ visit = "none" /\ visit' = account.role /\ changed' = FALSE
    /\ UNCHANGED << hiring, account, creations, logged >>

SignsOut ==
    /\ visit # "none" /\ visit' = "none" /\ changed' = FALSE
    /\ UNCHANGED << hiring, account, creations, logged >>

\* A manager saves the employee's profile with another role; the session keeps the old one.
ChangesRole(role) ==
    /\ account # NoAccount /\ account' = [account EXCEPT !.role = role] /\ changed' = (visit # "none")
    /\ UNCHANGED << hiring, creations, logged, visit >>

StaffNext ==
    \/ \E m \in Hirers :
          \/ \E role \in Roles, valid \in BOOLEAN : Fills(m, role, valid)
          \/ Submits(m) \/ FindsUser(m) \/ CreatesUser(m) \/ LogsUser(m) \/ GoesToEmployee(m) \/ RequestFails(m)
    \/ SignsIn \/ SignsOut
    \/ \E role \in Roles : ChangesRole(role)

StaffSpec == StaffInit /\ [][StaffNext]_staffVars

-----------------------------------------------------------------------------
\* However many managers hire the same person at once, one request creates the user; a form that goes on to the
\* employee created it and has logged it, one that says the address is in use is right, and one that says error
\* created nothing unless an answer was lost.  A session has the role of the account until that is changed.
FormsTellTheTruth ==
    /\ Cardinality(creations) <= 1
    /\ \A m \in Hirers :
          /\ hiring[m].says = "created" => account.by = m /\ m \in logged
          /\ hiring[m].says = "in use" => account # NoAccount
          /\ hiring[m].says = "error" /\ ~hiring[m].unsure => m \notin creations
    /\ visit = account.role \/ visit = "none" \/ changed
=============================================================================
