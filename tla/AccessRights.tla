---------------------------- MODULE AccessRights ----------------------------
(***************************************************************************)
(* What a user of the ERP may do: rights granted to the user, to a group   *)
(* the user is in or everybody is in, and to the user's department         *)
(* (lib/permissions.ts).  Managers change them with three forms            *)
(* (EmployeeEditForm, GroupForm, DepartmentForm) filled from what was      *)
(* stored when the page was opened; saving replaces the stored set as a    *)
(* whole, in a READ COMMITTED transaction that deletes the rows it sees    *)
(* and then inserts its own (the permissions, members and groups routes).  *)
(* One user, one group and one department.  The pages stay open for as     *)
(* long as one likes, and their fields may come to say anything before     *)
(* they are saved: of a form only what it does not let one change is kept. *)
(***************************************************************************)
EXTENDS Naturals, FiniteSets

CONSTANTS Rights,      \* permission keys
          Known,       \* those in the permission table
          Workflow,    \* those of WORKFLOW_PERMISSIONS, which the forms offer without looking there
          Managers,
          MaxOrders    \* buttons ever pressed

\* "member" is a row, and the key of no permission (they read like expense:create).
ASSUME AccessAssumption ==
    Known \subseteq Rights /\ Workflow \subseteq Rights /\ "member" \notin Rights /\ MaxOrders \in Nat

Kinds == {"direct", "group", "department", "members"}
RowsOf(t) == IF t = "members" THEN {"member"} ELSE Rights

VARIABLES held,        \* table -> its rows, "member" for the user's membership of the group
          grouped,     \* the group: security, default (everybody is in it) or gone
          place,       \* the user in the department: within, without, or the department is gone
          locked,      \* manager -> the rights the employee page shows as inherited and not granted
          orders,      \* the requests under way
          pressed,     \* how many buttons were pressed
          check,       \* getEffectivePermissions under way: queries to come and rights found
          steady,      \* since the check began: the rights that one source carried all along
          withdrawn    \* the rows taken away by a request while no other that had them was under way

accessVars == << held, grouped, place, locked, orders, pressed, check, steady, withdrawn >>
stored == << held, grouped, place >>

Order == [by : Managers, what : Kinds \cup {"type", "roster", "place", "drop"}, rows : SUBSET (Rights \cup {"member"}),
          to : BOOLEAN, at : {"sent", "open", "ok", "refused"}, sees : SUBSET (Rights \cup {"member"}),
          after : SUBSET Managers, met : SUBSET (Rights \cup {"member"})]
Queries == {"direct", "memberships", "memberRights", "defaults", "defaultRights", "employee", "departmentRights"}
NoCheck == [at |-> "idle", todo |-> {}, found |-> {}]

AccessTypeOK ==
    /\ \A t \in Kinds : held[t] \subseteq (RowsOf(t) \cap (Known \cup {"member"}))
    /\ grouped \in {"security", "default", "gone"} /\ place \in {"within", "without", "gone"}
    /\ grouped = "gone" => held["group"] = {} /\ held["members"] = {}
    /\ place = "gone" => held["department"] = {}
    /\ locked \in [Managers -> SUBSET Known]
    /\ orders \subseteq Order /\ \A p, q \in orders : p.by = q.by /\ p.what = q.what => p = q
    /\ check.todo \subseteq Queries /\ check.found \subseteq Known

AccessInit ==
    /\ held = [t \in Kinds |-> RowsOf(t) \cap (Known \cup {"member"})]
    /\ grouped = "security" /\ place = "within"
    /\ locked = [m \in Managers |-> {}] /\ orders = {} /\ pressed = 0
    /\ check = NoCheck /\ steady = {} /\ withdrawn = {}

-----------------------------------------------------------------------------
(* What a user may do                                                       *)

\* Each source with the rights it gives the user.
Carried ==
    ({"direct"} \X held["direct"])
    \cup (IF held["members"] # {} THEN {"group"} \X held["group"] ELSE {})
    \cup (IF grouped = "default" THEN {"everybody"} \X held["group"] ELSE {})
    \cup (IF place = "within" THEN {"department"} \X held["department"] ELSE {})

Watched == steady' = IF check.at = "reading" THEN steady \cap Carried' ELSE {}

CheckBegins ==
    /\ check.at # "reading"
    /\ check' = [at |-> "reading", todo |-> {"direct", "memberships", "defaults", "employee"}, found |-> {}]
    /\ steady' = Carried
    /\ UNCHANGED << stored, locked, orders, pressed, withdrawn >>

Follows(q) ==
    CASE q = "memberships" /\ held["members"] # {} -> {"memberRights"}
      [] q = "defaults" /\ grouped = "default" -> {"defaultRights"}
      [] q = "employee" /\ place = "within" -> {"departmentRights"}
      [] OTHER -> {}

CheckFindsBroken(q) == IF q = "direct" THEN held["direct"] ELSE IF q = "departmentRights" THEN held["group"] ELSE {}

CheckFinds(q) ==
    CASE q = "direct" -> held["direct"]
      [] q \in {"memberRights", "defaultRights"} -> held["group"]
      [] q = "departmentRights" -> held["department"]
      [] OTHER -> {}

\* The queries are sent together and answered in any order; an include is a query after the one it belongs to.
CheckReads(q) ==
    /\ check.at = "reading" /\ q \in check.todo
    /\ LET todo == (check.todo \ {q}) \cup Follows(q)
       IN  check' = [at |-> IF todo = {} THEN "done" ELSE "reading", todo |-> todo, found |-> check.found \cup CheckFinds(q)]
    /\ UNCHANGED << stored, locked, orders, pressed, steady, withdrawn >>

-----------------------------------------------------------------------------
(* The forms                                                                *)

\* PermissionMatrix draws as inherited what the group or the department gives; what is also granted can be taken back.
Locked == {x[2] : x \in {y \in Carried : y[1] \in {"group", "department"}}} \ held["direct"]

Opens(m) ==
    /\ locked' = [locked EXCEPT ![m] = Locked]
    /\ UNCHANGED << stored, orders, pressed, check, steady, withdrawn >>

\* The matrix has a cell for a right in the table and a row for each workflow right; a locked one is not clickable.
Clickable(m) == (Known \cup Workflow) \ locked[m]
Choices(m) == SUBSET Clickable(m)

AskFor(m, what, rows, to) ==
    [by |-> m, what |-> what, rows |-> rows, to |-> to, at |-> "sent", sees |-> {}, after |-> {}, met |-> {}]

\* A button sends its requests, unless one of the same kind is still under way.
Requested(m, asks) ==
    /\ pressed < MaxOrders
    /\ \A q \in orders, p \in asks : ~ (q.by = m /\ q.what = p.what)
    /\ orders' = orders \cup asks /\ pressed' = pressed + 1
    /\ UNCHANGED << stored, locked, check, steady, withdrawn >>

\* GroupForm: three requests at once, members only for a security group.
SavesGroup(m, rights, member, kind) ==
    Requested(m, { AskFor(m, "type", {}, kind = "default"), AskFor(m, "group", rights, FALSE) }
             \cup (IF kind = "security" THEN {AskFor(m, "members", member, FALSE)} ELSE {}))
SavesDepartment(m, within) == Requested(m, { AskFor(m, "roster", {}, within) })
SavesDepartmentRights(m, rights) == Requested(m, { AskFor(m, "department", rights, FALSE) })
\* EmployeeEditForm: the whole profile with its department, the groups, the direct rights.
SavesProfile(m, within) == Requested(m, { AskFor(m, "place", {}, within) })
SavesGroups(m, member) == Requested(m, { AskFor(m, "members", member, FALSE) })
SavesRights(m) == \E rights \in Choices(m) : Requested(m, { AskFor(m, "direct", rights, FALSE) })
\* The tables of departments (to: FALSE) and groups (to: TRUE) delete one.
Drops(m, group) == Requested(m, { AskFor(m, "drop", {}, group) })

\* The answer arrives; the employee page is fetched again.
AnswerComes(q) ==
    /\ q \in orders /\ q.at \in {"ok", "refused"}
    /\ orders' = orders \ {q}
    /\ locked' = IF q.at = "ok" /\ q.what \in {"direct", "members", "place"}
                 THEN [locked EXCEPT ![q.by] = Locked] ELSE locked
    /\ UNCHANGED << stored, pressed, check, steady, withdrawn >>

-----------------------------------------------------------------------------
(* The routes                                                               *)

Turns(q, at) == orders' = (orders \ {q}) \cup {[q EXCEPT !.at = at]}

\* deleteMany: it sees the committed rows, and waits for others that are deleting one of them.
ReplaceBegins(q) ==
    /\ q \in orders /\ q.what \in Kinds /\ q.at = "sent"
    /\ LET others == {p \in orders : p.what = q.what /\ p.at = "open"}
       IN  orders' = {IF p \in others THEN [p EXCEPT !.met = @ \cup q.rows] ELSE p : p \in orders \ {q}} \cup
               {[q EXCEPT !.at = "open", !.sees = held[q.what], !.met = UNION {p.rows : p \in others},
                          !.after = {p.by : p \in {o \in others : o.sees \cap held[q.what] # {}}}]}
    /\ UNCHANGED << stored, locked, pressed, check, steady, withdrawn >>

\* What the deletion leaves: rows that others inserted since.
LeftOverBroken(q) == held[q.what]
LeftOver(q) == held[q.what] \ q.sees

\* createMany: no row twice, a right of the permission table, a group or department that exists.
Insertable(q) ==
    /\ q.rows \cap LeftOver(q) = {} /\ q.rows \subseteq Known \cup {"member"}
    /\ q.rows # {} => /\ q.what \in {"group", "members"} => grouped # "gone"
                      /\ q.what = "department" => place # "gone"

\* The rows q deleted are gone for the others; none waits for it any longer.
Finished(q, at) ==
    {IF p.what = q.what THEN [p EXCEPT !.sees = IF at = "ok" THEN @ \ q.sees ELSE @, !.after = @ \ {q.by}] ELSE p
        : p \in orders \ {q}} \cup {[q EXCEPT !.at = at, !.sees = {}, !.met = {}]}

ReplaceCommits(q) ==
    /\ q \in orders /\ q.what \in Kinds /\ q.at = "open" /\ q.after = {}
    /\ \/ /\ Insertable(q) /\ orders' = Finished(q, "ok")
          /\ held' = [held EXCEPT ![q.what] = LeftOver(q) \cup q.rows]
          /\ withdrawn' = (withdrawn \ ({q.what} \X q.rows)) \cup ({q.what} \X (RowsOf(q.what) \ (q.rows \cup q.met)))
       \/ ~Insertable(q) /\ orders' = Finished(q, "refused") /\ UNCHANGED << held, withdrawn >>
    /\ UNCHANGED << grouped, place, locked, pressed, check >>
    /\ Watched

\* PATCH of the group's type.
TypeChanges(q) ==
    /\ q \in orders /\ q.what = "type" /\ q.at = "sent"
    /\ IF grouped = "gone" THEN Turns(q, "refused") /\ UNCHANGED grouped
       ELSE Turns(q, "ok") /\ grouped' = IF q.to THEN "default" ELSE "security"
    /\ UNCHANGED << held, place, locked, pressed, check, withdrawn >>
    /\ Watched

\* PATCH of the department with all its employees, or of the employee with a department.
PlaceChanges(q) ==
    /\ q \in orders /\ q.what \in {"roster", "place"} /\ q.at = "sent"
    /\ IF place = "gone"
       THEN Turns(q, IF q.what = "place" /\ ~q.to THEN "ok" ELSE "refused") /\ UNCHANGED place
       ELSE Turns(q, "ok") /\ place' = IF q.to THEN "within" ELSE "without"
    /\ UNCHANGED << held, grouped, locked, pressed, check, withdrawn >>
    /\ Watched

\* DELETE of the group: its rights and memberships go with it, once no transaction holds one of them.
GroupGoes(q) ==
    /\ q \in orders /\ q.what = "drop" /\ q.to /\ q.at = "sent"
    /\ \A p \in orders : p.what \in {"group", "members"} /\ p.at = "open" => p.sees = {}
    /\ Turns(q, IF grouped = "gone" THEN "refused" ELSE "ok")
    /\ grouped' = "gone" /\ held' = [held EXCEPT !["group"] = {}, !["members"] = {}]
    /\ UNCHANGED << place, locked, pressed, check, withdrawn >>
    /\ Watched

\* DELETE of the department: refused while it has employees, as counted before.
DepartmentCounts(q) ==
    /\ q \in orders /\ q.what = "drop" /\ ~q.to /\ q.at = "sent"
    /\ Turns(q, IF place = "without" THEN "open" ELSE "refused")
    /\ UNCHANGED << stored, locked, pressed, check, steady, withdrawn >>

DepartmentGoes(q) ==
    /\ q \in orders /\ q.what = "drop" /\ ~q.to /\ q.at = "open"
    /\ \A p \in orders : p.what = "department" /\ p.at = "open" => p.sees = {}
    /\ Turns(q, IF place = "gone" THEN "refused" ELSE "ok")
    /\ place' = "gone" /\ held' = [held EXCEPT !["department"] = {}]
    /\ UNCHANGED << grouped, locked, pressed, check, withdrawn >>
    /\ Watched

AccessNext ==
    \/ CheckBegins
    \/ \E q \in Queries : CheckReads(q)
    \/ \E m \in Managers :
          \/ Opens(m)
          \/ \E rights \in SUBSET (Known \cup Workflow), member \in SUBSET {"member"}, kind \in {"security", "default"} :
                SavesGroup(m, rights, member, kind)
          \/ \E rights \in SUBSET (Known \cup Workflow) : SavesDepartmentRights(m, rights)
          \/ \E b \in BOOLEAN : SavesDepartment(m, b) \/ SavesProfile(m, b) \/ Drops(m, b)
          \/ \E member \in SUBSET {"member"} : SavesGroups(m, member)
          \/ SavesRights(m)
    \/ \E q \in orders :
          \/ ReplaceBegins(q) \/ ReplaceCommits(q)
          \/ TypeChanges(q) \/ PlaceChanges(q)
          \/ GroupGoes(q) \/ DepartmentCounts(q) \/ DepartmentGoes(q)
          \/ AnswerComes(q)

AccessSpec == AccessInit /\ [][AccessNext]_accessVars

-----------------------------------------------------------------------------
\* A right or a membership that a manager took away is not there any more, unless somebody saved a form with it
\* since, or at the same time: overlapping saves of the whole set do not bring back what all of them leave out.
WithdrawnStays == \A x \in withdrawn : x[2] \notin held[x[1]]

\* A check that runs while rights are changed finds at least the rights that one source carried all along,
\* whatever moves from one source to another meanwhile (getEffectivePermissions reads them one by one).
SteadyRightsFound == check.at = "done" => {x[2] : x \in steady} \subseteq check.found
=============================================================================
