-------------------------- MODULE ConsoleInstances --------------------------
(***************************************************************************)
(* The console's pages about instances.  A list that is asked for again at *)
(* every choice and after every action, of which only the newest request   *)
(* may update the screen (InstancesPage; TasksPage has the same shape);    *)
(* the page of one instance, where any answer updates it                   *)
(* (InstanceDetailPage); and the dialog that pushes a step along           *)
(* (ForceStepDialog).  The server refuses what an instance is not in a     *)
(* state for (admin.ts, instances.ts, force.ts), and instances go on by    *)
(* themselves meanwhile.                                                   *)
(***************************************************************************)
EXTENDS Naturals, FiniteSets

CONSTANTS Listed,        \* instances, numbered from the newest
          RowsPerPage,
          LastStep,      \* an instance waits at step 1, 2, ... and completes after the last
          StepKind,      \* step -> how it waits: "external", "timer", "user-task" or "message"
          MaxAsks,       \* bounds: requests for a page,
          MaxActs,       \*         actions,
          MaxTurns       \*         and what happens elsewhere

ASSUME InstancesAssumption ==
    /\ Listed \subseteq Nat \ {0} /\ IsFiniteSet(Listed)
    /\ RowsPerPage \in Nat \ {0} /\ LastStep \in Nat \ {0}

ListFilters == {"", "active"}
Over == {"terminated", "completed"}

VARIABLES
    inst,      \* instance -> its status, the step it waits at and the one it failed at
    turns,     \* how often instances changed, by anyone
    list,      \* what the list page holds
    loads,     \* its requests under way
    acts,      \* the actions under way, with what the page was set to when they were clicked
    lastAct,   \* turns when an action of this page last took effect
    stale,     \* the newest request of the list is for a filter or page that had been left
    detail,    \* the page of one instance: which, what it shows, and the dialog
    views,     \* its requests under way
    crossed    \* an answer of it came after that to a later request, or the newest was lost

instancesVars == << inst, turns, list, loads, acts, lastAct, stale, detail, views, crossed >>

NoList == [total |-> 0, rows |-> {}, seen |-> 0, filter |-> "", page |-> 0, known |-> FALSE]
FreshList == [filter |-> "", page |-> 0, result |-> NoList, newest |-> 0, busy |-> 0, confirming |-> {}, error |-> FALSE]
NoView == [status |-> "none", step |-> 0, failedAt |-> 0, n |-> 0]
NoDialog == [open |-> FALSE, step |-> 0, action |-> "none", busy |-> FALSE, says |-> "nothing"]
FreshDetail(i, n) == [id |-> i, view |-> NoView, asked |-> n, error |-> FALSE, dialog |-> NoDialog, says |-> "nothing", why |-> 0]

InstancesTypeOK ==
    /\ \A i \in Listed : inst[i].status \in {"absent", "active", "suspended"} \cup Over /\ inst[i].step \in 0..LastStep
    /\ list.filter \in ListFilters /\ list.page \in Nat /\ list.busy \in Listed \cup {0}
    /\ detail.id \in Listed \cup {0} /\ detail.view.step \in 0..LastStep
    /\ \A l, m \in loads : l.n = m.n => l = m

-----------------------------------------------------------------------------
(* The list                                                                 *)

Found(filter) == {i \in Listed : inst[i].status # "absent" /\ (filter = "" \/ inst[i].status = filter)}
OnPage(found, page) ==
    {i \in found : LET before == Cardinality({j \in found : j < i})
                   IN  page * RowsPerPage <= before /\ before < (page + 1) * RowsPerPage}
LastPage(total) == IF total = 0 THEN 0 ELSE (total - 1) \div RowsPerPage

\* A request for a page, numbered; it becomes the newest.  set is what the list holds next.
Asks(set, filter, page) ==
    /\ set.newest < MaxAsks
    /\ list' = [set EXCEPT !.newest = @ + 1]
    /\ loads' = loads \cup {[n |-> set.newest + 1, filter |-> filter, page |-> page, answer |-> NoList]}
    /\ stale' = (filter # set.filter \/ page # set.page)

InList == detail.id = 0

ChoosesStatus(filter) ==
    /\ InList /\ list.confirming = {} /\ filter # list.filter
    /\ Asks([list EXCEPT !.filter = filter, !.page = 0], filter, 0)
    /\ UNCHANGED << inst, turns, acts, lastAct, detail, views, crossed >>

TurnsTo(page) ==
    /\ InList /\ list.confirming = {} /\ page \in {list.page - 1, list.page + 1} /\ page <= LastPage(list.result.total)
    /\ Asks([list EXCEPT !.page = page], list.filter, page)
    /\ UNCHANGED << inst, turns, acts, lastAct, detail, views, crossed >>

Refreshes ==
    /\ InList /\ list.confirming = {} /\ Asks(list, list.filter, list.page)
    /\ UNCHANGED << inst, turns, acts, lastAct, detail, views, crossed >>

\* The total comes with the rows: a page past the last one is answered with none.
Answer(filter, page) ==
    LET found == Found(filter)
        rows == OnPage(found, page)
    IN  [total |-> IF rows = {} THEN 0 ELSE Cardinality(found), seen |-> turns, filter |-> filter, page |-> page, known |-> TRUE,
         rows |-> {[id |-> i, status |-> inst[i].status] : i \in rows}]

FindInstances(l) ==
    /\ ~l.answer.known
    /\ loads' = (loads \ {l}) \cup {[l EXCEPT !.answer = Answer(l.filter, l.page)]}
    /\ UNCHANGED << inst, turns, list, acts, lastAct, stale, detail, views, crossed >>

NewestBroken(l) == TRUE
Newest(l) == l.n = list.newest

\* Only the newest request may update the screen; a page past the last one the answer knows of is left, and asked again.
ListAnswered(l) ==
    /\ l.answer.known
    /\ IF Newest(l) /\ l.page > LastPage(l.answer.total) /\ list.page # LastPage(l.answer.total)
       THEN LET last == LastPage(l.answer.total)
            IN  /\ list.newest < MaxAsks /\ stale' = FALSE
                /\ list' = [list EXCEPT !.page = last, !.newest = @ + 1]
                /\ loads' = (loads \ {l}) \cup {[n |-> list.newest + 1, filter |-> list.filter, page |-> last, answer |-> NoList]}
       ELSE /\ loads' = loads \ {l} /\ UNCHANGED stale
            /\ list' = IF Newest(l) /\ l.page <= LastPage(l.answer.total)
                       THEN [list EXCEPT !.result = l.answer, !.error = FALSE] ELSE list
    /\ UNCHANGED << inst, turns, acts, lastAct, detail, views, crossed >>

ListLost(l) ==
    /\ loads' = loads \ {l} /\ list' = (IF Newest(l) THEN [list EXCEPT !.error = TRUE] ELSE list)
    /\ UNCHANGED << inst, turns, acts, lastAct, stale, detail, views, crossed >>

-----------------------------------------------------------------------------
(* Actions on a row                                                         *)

\* The buttons a row has, by the status it shows.
Offered(status) ==
    (IF status = "active" THEN {"suspend"} ELSE {}) \cup (IF status = "suspended" THEN {"resume"} ELSE {})
        \cup (IF status \in {"active", "suspended"} THEN {"cancel"} ELSE {})
        \cup (IF status = "terminated" THEN {"restart"} ELSE {})

\* The action, and later the loading, go by what the page was set to when it was clicked.
RunsAction(i, kind) ==
    /\ Cardinality(acts) + turns < MaxActs + MaxTurns
    /\ list' = [list EXCEPT !.busy = i, !.confirming = {}]
    /\ acts' = acts \cup {[id |-> i, kind |-> kind, filter |-> list.filter, page |-> list.page, at |-> "sent"]}
    /\ UNCHANGED << inst, turns, loads, lastAct, stale, detail, views, crossed >>

Clicks(row, kind) ==
    /\ InList /\ list.confirming = {} /\ row.id # list.busy /\ kind \in Offered(row.status)
    /\ IF kind \in {"suspend", "resume"} THEN RunsAction(row.id, kind)
       ELSE /\ list' = [list EXCEPT !.confirming = {<< row.id, kind >>}]
            /\ UNCHANGED << inst, turns, loads, acts, lastAct, stale, detail, views, crossed >>

Confirms == \E p \in list.confirming : RunsAction(p[1], p[2])

Declines ==
    /\ list.confirming # {} /\ list' = [list EXCEPT !.confirming = {}]
    /\ UNCHANGED << inst, turns, loads, acts, lastAct, stale, detail, views, crossed >>

ChangesTo(i, new) == inst' = [inst EXCEPT ![i] = new] /\ turns' = turns + 1 /\ turns < MaxTurns + MaxActs
FreshInstance == [status |-> "active", step |-> 1, failedAt |-> 0]

\* What the server makes of it: refused unless the instance is in the state for it; cancelling what is over is granted.
Takes(a) ==
    \/ a.kind = "suspend" /\ inst[a.id].status = "active" /\ ChangesTo(a.id, [inst[a.id] EXCEPT !.status = "suspended"])
    \/ a.kind = "resume" /\ inst[a.id].status = "suspended" /\ ChangesTo(a.id, [inst[a.id] EXCEPT !.status = "active"])
    \/ a.kind = "cancel" /\ inst[a.id].status \notin Over /\ ChangesTo(a.id, [inst[a.id] EXCEPT !.status = "terminated"])
    \/ /\ a.kind = "restart" /\ inst[a.id].status = "terminated"
       /\ \E i \in Listed : inst[i].status = "absent" /\ ChangesTo(i, FreshInstance)

ActHandled(a) ==
    /\ a.at = "sent" /\ acts' = (acts \ {a}) \cup {[a EXCEPT !.at = "answered"]}
    /\ \/ Takes(a) /\ lastAct' = turns'
       \/ UNCHANGED << inst, turns, lastAct >>
    /\ UNCHANGED << list, loads, stale, detail, views, crossed >>

\* Answered, refused or lost: the row is free and the list is loaded, for what it was set to at the click.
ActAnswered(a) ==
    /\ a.at = "answered" /\ acts' = acts \ {a}
    /\ Asks([list EXCEPT !.busy = 0], a.filter, a.page)
    /\ UNCHANGED << inst, turns, lastAct, detail, views, crossed >>

-----------------------------------------------------------------------------
(* One instance                                                             *)

View(n) == [n |-> n, todo |-> "instance", view |-> [NoView EXCEPT !.n = n]]

\* The list is left, whatever it was waiting for.
OpensInstance(row) ==
    /\ InList /\ list.confirming = {} /\ detail.asked < MaxAsks
    /\ detail' = FreshDetail(row.id, detail.asked + 1) /\ views' = {View(detail.asked + 1)}
    /\ crossed' = FALSE
    /\ list' = FreshList /\ loads' = {} /\ acts' = {} /\ lastAct' = 0 /\ stale' = FALSE
    /\ UNCHANGED << inst, turns >>

GoesBack ==
    /\ ~InList /\ ~detail.dialog.open
    /\ detail' = [FreshDetail(0, detail.asked) EXCEPT !.asked = detail.asked] /\ views' = {}
    /\ Asks(FreshList, "", 0)
    /\ UNCHANGED << inst, turns, acts, lastAct, crossed >>

Detail(new) == detail' = new /\ UNCHANGED << list, loads, acts, lastAct, stale >>
LoadsView(new) ==
    /\ new.asked < MaxAsks /\ Detail([new EXCEPT !.asked = @ + 1]) /\ views' = views \cup {View(new.asked + 1)}
    /\ UNCHANGED << inst, turns, crossed >>

RefreshesView == ~InList /\ ~detail.dialog.open /\ LoadsView(detail)

\* The instance is read, and then its tokens.
ViewRead(v) ==
    /\ v.todo # "none" /\ LET i == inst[detail.id] IN
       views' = (views \ {v}) \cup
          {IF v.todo = "instance"
           THEN [v EXCEPT !.todo = "tokens", !.view.status = i.status, !.view.failedAt = i.failedAt]
           ELSE [v EXCEPT !.todo = "none", !.view.step = IF i.status \in Over THEN 0 ELSE i.step]}
    /\ Detail(detail) /\ UNCHANGED << inst, turns, crossed >>

ViewAnswered(v) ==
    /\ v.todo = "none" /\ views' = views \ {v} /\ Detail([detail EXCEPT !.view = v.view, !.error = FALSE])
    /\ crossed' = (crossed \/ v.n < detail.view.n) /\ UNCHANGED << inst, turns >>

ViewLost(v) ==
    /\ views' = views \ {v} /\ Detail([detail EXCEPT !.error = TRUE])
    /\ crossed' = (crossed \/ v.n = detail.asked) /\ UNCHANGED << inst, turns >>

-----------------------------------------------------------------------------
(* Pushing a step along                                                     *)

\* What a person may do to a waiting step: failing one that failed here already makes no sense.
ForceChoices(view) ==
    LET kind == IF view.step = 0 THEN "none" ELSE StepKind[view.step]
    IN  (IF kind \in {"external", "user-task"} THEN {"complete"} ELSE {})
        \cup (IF kind = "timer" THEN {"fire"} ELSE {})
        \cup (IF kind = "external" /\ ~(view.status = "suspended" /\ view.failedAt = view.step) THEN {"fail"} ELSE {})

ChoosesForce(action) ==
    /\ ~InList /\ ~detail.dialog.open /\ action \in ForceChoices(detail.view)
    /\ Detail([detail EXCEPT !.dialog = [NoDialog EXCEPT !.open = TRUE, !.step = detail.view.step, !.action = action]])
    /\ UNCHANGED << inst, turns, views, crossed >>

SubmitsForce ==
    /\ detail.dialog.open /\ ~detail.dialog.busy /\ detail.dialog.says # "moved on"
    /\ Detail([detail EXCEPT !.dialog.busy = TRUE, !.dialog.says = "nothing"])
    /\ UNCHANGED << inst, turns, views, crossed >>

\* A waiting step still waits when its instance is suspended: completing it resumes the instance, an error it catches
\* moves the instance on and leaves it suspended.
StepDone(i, action) ==
    IF inst[i].step = LastStep THEN [inst[i] EXCEPT !.status = "completed"]
    ELSE [inst[i] EXCEPT !.status = IF action = "fail" THEN @ ELSE "active", !.step = @ + 1]

ForceAnswers(says) == Detail([detail EXCEPT !.dialog.busy = FALSE, !.dialog.says = says])
Current == inst[detail.id].status \notin Over /\ inst[detail.id].step = detail.dialog.step

\* The step is done or, failed with nothing to catch it, the instance is suspended there.
Forces ==
    \/ ChangesTo(detail.id, StepDone(detail.id, detail.dialog.action))
    \/ /\ detail.dialog.action = "fail"
       /\ ChangesTo(detail.id, [inst[detail.id] EXCEPT !.status = "suspended", !.failedAt = inst[detail.id].step])

\* The answer closes the dialog and the page is loaded; or it is lost, and the dialog only says that it failed.
ForceDone ==
    /\ detail.dialog.busy /\ Current /\ Forces /\ views' = views \cup {View(detail.asked + 1)}
    /\ detail.asked < MaxAsks
    /\ Detail([detail EXCEPT !.dialog = NoDialog, !.says = detail.dialog.action, !.why = detail.dialog.step, !.asked = @ + 1])
    /\ UNCHANGED crossed

ForceLost ==
    /\ detail.dialog.busy /\ Current /\ Forces /\ ForceAnswers("failed")
    /\ UNCHANGED << views, crossed >>

\* The step is not where the instance waits; or the request fails, or another change of the instance came in between.
ForceMovedOn ==
    /\ detail.dialog.busy /\ ~Current /\ ForceAnswers("moved on") /\ UNCHANGED << inst, turns, views, crossed >>
ForceFails ==
    /\ detail.dialog.busy /\ ForceAnswers("failed") /\ UNCHANGED << inst, turns, views, crossed >>

\* Closed, but not while the request is under way; the page is loaded if the step had moved on.
ClosesForce ==
    /\ detail.dialog.open /\ ~detail.dialog.busy
    /\ IF detail.dialog.says = "moved on"
       THEN LoadsView([detail EXCEPT !.dialog = NoDialog, !.says = "moved on", !.why = detail.dialog.step])
       ELSE Detail([detail EXCEPT !.dialog = NoDialog]) /\ UNCHANGED << inst, turns, views, crossed >>

\* An instance goes on by itself, fails, or is stopped or resumed by someone else.
Moves(i) ==
    /\ turns < MaxTurns
    /\ \/ inst[i].status = "active" /\ ChangesTo(i, StepDone(i, "complete"))
       \/ inst[i].status = "active" /\ ChangesTo(i, [inst[i] EXCEPT !.status = "suspended", !.failedAt = inst[i].step])
       \/ inst[i].status \in {"active", "suspended"} /\ ChangesTo(i, [inst[i] EXCEPT !.status = "terminated"])
       \/ inst[i].status = "suspended" /\ ChangesTo(i, [inst[i] EXCEPT !.status = "active"])
    /\ UNCHANGED << list, loads, acts, lastAct, stale, detail, views, crossed >>

\* Just opened, or a later page of some list has been turned to.
InstancesInit ==
    /\ inst \in [Listed -> {[FreshInstance EXCEPT !.status = s] : s \in {"absent", "active", "terminated"}}] /\ inst[1].status = "active"
    /\ turns = 0 /\ acts = {} /\ lastAct = 0 /\ stale = FALSE
    /\ \/ /\ list = [FreshList EXCEPT !.newest = 1]
          /\ loads = {[n |-> 1, filter |-> "", page |-> 0, answer |-> NoList]}
       \/ /\ loads = {}
          /\ \E f \in ListFilters, page \in 1..Cardinality(Listed) :
                /\ OnPage(Found(f), page) # {}
                /\ list = [FreshList EXCEPT !.newest = 1, !.filter = f, !.page = page, !.result = Answer(f, page)]
    /\ detail = FreshDetail(0, 0) /\ views = {} /\ crossed = FALSE

InstancesNext ==
    \/ (\E f \in ListFilters : ChoosesStatus(f)) \/ (\E page \in 0..Cardinality(Listed) : TurnsTo(page)) \/ Refreshes
    \/ \E l \in loads : FindInstances(l) \/ ListAnswered(l) \/ ListLost(l)
    \/ \E row \in list.result.rows : OpensInstance(row) \/ \E kind \in Offered(row.status) : Clicks(row, kind)
    \/ Confirms \/ Declines
    \/ \E a \in acts : ActHandled(a) \/ ActAnswered(a)
    \/ GoesBack \/ RefreshesView
    \/ \E v \in views : ViewRead(v) \/ ViewAnswered(v) \/ ViewLost(v)
    \/ (\E action \in {"complete", "fail", "fire"} : ChoosesForce(action))
    \/ SubmitsForce \/ ForceDone \/ ForceLost \/ ForceMovedOn \/ ForceFails \/ ClosesForce
    \/ \E i \in Listed : Moves(i)

InstancesSpec == InstancesInit /\ [][InstancesNext]_instancesVars

-----------------------------------------------------------------------------
\* Once the newest request has been answered, unless that failed or went by a filter or page that had been left: the
\* list is that of the filter and page that are set, a later page than the first is not empty, and it was made after
\* every action of this page took effect.
ListKeepsUp ==
    InList /\ list.newest > 0 /\ (\A l \in loads : l.n # list.newest) /\ ~list.error /\ ~stale =>
        /\ list.result.filter = list.filter /\ list.result.page = list.page
        /\ list.page > 0 => list.result.rows # {}
        /\ acts = {} => list.result.seen >= lastAct

\* A step said to be completed or fired is behind the instance, and one said to have moved on, so that nothing was
\* changed, can never be pushed along from here again.
ForcingTellsTheTruth ==
    ~InList => LET at(step) == inst[detail.id].step = step /\ inst[detail.id].status \notin Over
               IN  /\ detail.says \in {"complete", "fire", "moved on"} => ~at(detail.why)
                   /\ detail.dialog.says = "moved on" => ~at(detail.dialog.step)

\* Without an answer that came late, and none under way, the page shows the answer to its newest request.
ViewIsTheNewest ==
    ~InList /\ views = {} /\ ~crossed => detail.view.n = detail.asked
=============================================================================
