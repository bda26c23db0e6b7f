------------------------------ MODULE UserTasks ------------------------------
(***************************************************************************)
(* What a tenant's schema holds beside the state of the engine: the        *)
(* deployed definitions with their source, the records of user tasks, and  *)
(* the index of the messages tokens wait for.  Requests read some of it    *)
(* and write later; cycles of the engine take effect one after another     *)
(* (CommitProtocol), each with the operations its caller derives from it.  *)
(***************************************************************************)
EXTENDS Naturals, FiniteSets

CONSTANTS
    Instances,      \* the instances that are ever started
    MaxTokens,      \* bound: tokens that come to wait
    MaxDeploys,     \* bound: deployments of the definition
    MaxCalls,       \* bound: requests under way
    NoInstance

VARIABLES
    deployments,    \* how many there were; the n-th uploads the n-th content
    definitionData, \* the content the definition was parsed from, 0: there is none
    definitionXml,  \* the source kept with it, 0: none
    instance,       \* the status of each instance
    waitingToken,   \* the tokens that came to wait: of which instance, and for what
    record,         \* user_tasks: the status of the record made for each token
    subscriptions,  \* event_subscriptions: the tokens a message would be delivered to
    calls,          \* requests between two of their statements
    unindexed,      \* tokens whose last cycle was run by a worker or a timer
    interrupted,    \* tokens a route's cycle ended that was about another one
    writtenBack,    \* tokens whose record was written back from an earlier read
    crossed         \* a deployment, a start and a deletion of the definition overlapped

userTaskVars == << deployments, definitionData, definitionXml, instance, waitingToken, record,
                   subscriptions, calls, unindexed, interrupted, writtenBack, crossed >>

WaitingTokens == 1..MaxTokens
Statuses == {"none", "active", "suspended", "completed", "terminated"}
Open == {"open", "claimed"}
Live == {i \in Instances : instance[i] \in {"active", "suspended"}}
\* For a user, at the top level of the definition or in a sub-process; for a message; for a worker or a timer.
WaitKinds == {"user", "nested", "message", "work"}
Waiting(i) == {t \in WaitingTokens : waitingToken[t].of = i /\ waitingToken[t].waits \in WaitKinds}
Unborn == {t \in WaitingTokens : waitingToken[t].waits = "none"}

Call(op, i, t, list) == [op |-> op, of |-> i, token |-> t, list |-> list]
Enters(c) == c \notin calls /\ Cardinality(calls) < MaxCalls /\ calls' = calls \cup {c}
Leaves(c) == c \in calls /\ calls' = calls \ {c}

ASSUME UserTasksAssumption ==
    /\ NoInstance \notin Instances
    /\ MaxTokens \in Nat /\ MaxDeploys \in Nat /\ MaxCalls \in Nat

UserTasksInit ==
    /\ deployments = 0 /\ definitionData = 0 /\ definitionXml = 0
    /\ instance = [i \in Instances |-> "none"]
    /\ waitingToken = [t \in WaitingTokens |-> [of |-> NoInstance, waits |-> "none"]]
    /\ record = [t \in WaitingTokens |-> "none"]
    /\ subscriptions = {} /\ calls = {}
    /\ unindexed = {} /\ interrupted = {} /\ writtenBack = {} /\ crossed = FALSE

Definitions == << deployments, definitionData, definitionXml, crossed >>
Engine == << instance, waitingToken, record, subscriptions, unindexed, interrupted >>

----------------------------------------------------------------------------
(* The definition.  The parser gives every upload version 1. *)

Overlaps(ops) == crossed' = (crossed \/ \E c \in calls : c.op \in ops)

\* POST /definitions: the row, then the source, in two statements.
SaveDefinition(c) ==
    /\ c.op = "deploy" /\ deployments < MaxDeploys /\ Enters(c)
    /\ c.list = {deployments + 1}
    /\ deployments' = deployments + 1 /\ definitionData' = deployments + 1
    /\ definitionXml' = IF definitionData = 0 THEN 0 ELSE definitionXml
    /\ Overlaps({"deploy", "delete"})
    /\ UNCHANGED << Engine, writtenBack >>

\* UPDATE definitions SET source_xml: of whatever row is there by now.
SaveDefinitionXml(c) ==
    /\ c.op = "deploy" /\ Leaves(c)
    /\ definitionXml' = IF definitionData = 0 THEN 0 ELSE CHOOSE n \in c.list : TRUE
    /\ UNCHANGED << deployments, definitionData, crossed, Engine, writtenBack >>

\* Mutant: only active instances are in the way.
InUseBroken == {i \in Instances : instance[i] = "active"}

\* pending, active and suspended ones.
InUse == Live

\* DELETE /definitions/:id: refused while instances run; they are counted before.
AskDelete(c) ==
    /\ c.op = "delete" /\ definitionData > 0 /\ InUse = {} /\ Enters(c)
    /\ Overlaps({"deploy", "start"})
    /\ UNCHANGED << deployments, definitionData, definitionXml, Engine, writtenBack >>

DeleteDefinition(c) ==
    /\ c.op = "delete" /\ Leaves(c)
    /\ definitionData' = 0 /\ definitionXml' = 0
    /\ UNCHANGED << deployments, crossed, Engine, writtenBack >>

----------------------------------------------------------------------------
(* Cycles of the engine *)

\* What a token that came to a step waits for after the cycle: a user task may be ended by the cycle that entered it.
Becomes(what) == IF what = "brief" THEN "over" ELSE what

\* Every way a cycle may leave the instance: the tokens of gone are over, those of new wait.
Moves(i, gone, new, status) ==
    /\ waitingToken' = [t \in WaitingTokens |->
          IF t \in gone THEN [waitingToken[t] EXCEPT !.waits = "over"]
          ELSE IF t \in DOMAIN new THEN [of |-> i, waits |-> Becomes(new[t])] ELSE waitingToken[t]]
    /\ instance' = [instance EXCEPT ![i] = status]

\* The next tokens that come to wait, at most n of them, and what for.
NewWaits(n) ==
    LET lowest(k) == {t \in Unborn : Cardinality({u \in Unborn : u < t}) < k} IN
    UNION {[lowest(k) -> WaitKinds \cup {"brief"}] : k \in 0..n}

For(new, what) == {t \in DOMAIN new : new[t] = what}

Outcomes(i, gone, new) ==
    IF Waiting(i) \ gone = {} /\ DOMAIN new = For(new, "brief") THEN {"completed"} ELSE {instance[i]}

\* buildUserTaskCreationOps: a record for each user task a token has come to, if it is at the top level
\* of the definition: those of sub-processes are not found.
NewRecords(new) ==
    [t \in WaitingTokens |-> IF t \in For(new, "user") \cup For(new, "brief") THEN "open" ELSE record[t]]

\* Mutant: the subscriptions of tokens that were cancelled stay.
ResubscribedBroken(gone, new) == subscriptions \cup For(new, "message")

\* computeStoreOps: subscriptions of tokens that wait no more go, those of new ones come.
Resubscribed(gone, new) == (subscriptions \ gone) \cup For(new, "message")

\* A request's change of the instance is refused if another one was committed since it loaded it.
Outdates(i, cs) == {c \in cs : ~(c.op = "cancel" /\ c.of = i)}

\* Of a route that is about the tokens its; others may be over with them; marks are the records it writes itself.
RouteCycle(i, its, others, new, status, marks) ==
    /\ Moves(i, its \cup others, new, status)
    /\ record' = [t \in WaitingTokens |-> IF t \in DOMAIN marks THEN marks[t] ELSE NewRecords(new)[t]]
    /\ subscriptions' = Resubscribed(its \cup others, new)
    /\ interrupted' = interrupted \cup others \cup For(new, "brief")
    /\ UNCHANGED unindexed

\* Of a worker or a timer: neither records nor subscriptions are written (their own buildStoreOps).
BackgroundCycle(i, gone, new, status) ==
    /\ Moves(i, gone, new, status)
    /\ unindexed' = unindexed \cup gone \cup DOMAIN new
    /\ UNCHANGED << record, subscriptions, interrupted >>

----------------------------------------------------------------------------
(* Routes of instances *)

\* POST /definitions/:id/instances, and the restart of a terminated instance as a new one.
AskStart(c) ==
    /\ c.op = "start" /\ definitionData > 0 /\ Enters(c)
    /\ instance[c.of] = "none" /\ ~ \E d \in calls : d.op = "start" /\ d.of = c.of
    /\ Overlaps({"delete"})
    /\ UNCHANGED << deployments, definitionData, definitionXml, Engine, writtenBack >>

StartInstance(c) ==
    /\ c.op = "start" /\ Leaves(c)
    /\ \E new \in NewWaits(2) :
        RouteCycle(c.of, {}, {}, new, IF DOMAIN new = For(new, "brief") THEN "completed" ELSE "active", << >>)
    /\ UNCHANGED << Definitions, writtenBack >>

SuspendOrResume(i, to) ==
    /\ instance[i] = (IF to = "suspended" THEN "active" ELSE "suspended")
    /\ RouteCycle(i, {}, {}, << >>, to, << >>)
    /\ calls' = Outdates(i, calls)
    /\ UNCHANGED << Definitions, writtenBack >>

\* DELETE /instances/:id: the open tasks are listed, then cancelled with the instance.
AskCancel(c) ==
    /\ c.op = "cancel" /\ c.of \in Live /\ Enters(c)
    /\ c.list = {t \in WaitingTokens : waitingToken[t].of = c.of /\ record[t] = "open"}
    /\ UNCHANGED << Definitions, Engine, writtenBack >>

CancelInstance(c) ==
    /\ c.op = "cancel" /\ c \in calls
    /\ calls' = Outdates(c.of, calls)
    /\ RouteCycle(c.of, Waiting(c.of) \cap c.list, Waiting(c.of) \ c.list, << >>, "terminated",
                  [t \in c.list |-> "cancelled"])
    /\ UNCHANGED << Definitions, writtenBack >>

----------------------------------------------------------------------------
(* Routes of tasks and messages *)

\* The record is read first; what is written to it later starts from that.
ReadTask(c) ==
    /\ c.op \in {"complete", "claim", "release"} /\ record[c.token] # "none" /\ Enters(c)
    /\ c.op = "complete" => record[c.token] \in Open
    /\ UNCHANGED << Definitions, Engine, writtenBack >>

\* Claiming and releasing write the record whatever it has become.
WriteTask(c) ==
    /\ c.op \in {"claim", "release"} /\ Leaves(c)
    /\ record' = [record EXCEPT ![c.token] = IF c.op = "claim" THEN "claimed" ELSE "open"]
    /\ writtenBack' = IF record[c.token] \in Open THEN writtenBack ELSE writtenBack \cup {c.token}
    /\ UNCHANGED << Definitions, instance, waitingToken, subscriptions, unindexed, interrupted >>

\* Mutant: the record is closed, whatever the engine says.
CompleteTaskBroken(c) ==
    /\ c.op = "complete" /\ c \in calls
    /\ LET i == waitingToken[c.token].of IN
        /\ calls' = Outdates(i, calls \ {c})
        /\ \E gone \in {{}, {c.token} \cap Waiting(i)} :
            RouteCycle(i, gone, {}, << >>, instance[i], [t \in {c.token} |-> "completed"])
    /\ UNCHANGED << Definitions, writtenBack >>

\* POST /tasks/:id/complete: the token leaves, others may be interrupted, and the
\* record is closed in the same transaction; the engine refuses a token that is not waiting.
CompleteTask(c) ==
    /\ c.op = "complete" /\ c \in calls
    /\ LET i == waitingToken[c.token].of IN
        IF waitingToken[c.token].waits # "user"
        THEN Leaves(c) /\ UNCHANGED Engine
        ELSE /\ calls' = Outdates(i, calls \ {c})
             /\ \E others \in SUBSET (Waiting(i) \ {c.token}), new \in NewWaits(1) :
                \E status \in Outcomes(i, others \cup {c.token}, new) :
                    RouteCycle(i, {c.token}, others, new, status, [t \in {c.token} |-> "completed"])
    /\ UNCHANGED << Definitions, writtenBack >>

\* POST /instances/:id/force: by the token, whether there is a record of it or not; one that is open or
\* claimed is closed.  It is the only way past a user task of a sub-process.
ForceStep(t) ==
    /\ waitingToken[t].waits \in WaitKinds \ {"message"}
    /\ LET i == waitingToken[t].of IN
        /\ \E others \in SUBSET (Waiting(i) \ {t}), new \in NewWaits(1) :
            \E status \in Outcomes(i, others \cup {t}, new) :
                RouteCycle(i, {t}, others, new, status,
                           [u \in {v \in {t} : record[v] \in Open} |-> "completed"])
        /\ calls' = Outdates(i, calls)
    /\ UNCHANGED << Definitions, writtenBack >>

\* POST /messages and /signals: to a token of the instance the index names, if one waits there; others
\* may be interrupted.
DeliverMessage(s) ==
    /\ s \in subscriptions
    /\ LET i == waitingToken[s].of IN
        \E t \in {u \in Waiting(i) : waitingToken[u].waits = "message"}, new \in NewWaits(1) :
            /\ \E others \in SUBSET (Waiting(i) \ {t}) : \E status \in Outcomes(i, others \cup {t}, new) :
                  RouteCycle(i, {t}, others, new, status, << >>)
            /\ calls' = Outdates(i, calls)
    /\ UNCHANGED << Definitions, writtenBack >>

\* A service task is completed, or a timer ends what waits at its host.
Background(i) ==
    /\ \E gone \in SUBSET Waiting(i), new \in NewWaits(1) :
        /\ gone # {}
        /\ \E status \in Outcomes(i, gone, new) : BackgroundCycle(i, gone, new, status)
    /\ calls' = Outdates(i, calls)
    /\ UNCHANGED << Definitions, writtenBack >>

\* The process stops.
CallLost(c) == Leaves(c) /\ UNCHANGED << Engine, writtenBack >>
    /\ UNCHANGED << deployments, definitionData, definitionXml >>
    /\ crossed' = (crossed \/ c.op = "deploy")

UserTasksNext ==
    \/ SaveDefinition(Call("deploy", NoInstance, 0, {deployments + 1}))
    \/ AskDelete(Call("delete", NoInstance, 0, {}))
    \/ \E i \in Instances :
        \/ AskStart(Call("start", i, 0, {})) \/ Background(i)
        \/ \E to \in {"active", "suspended"} : SuspendOrResume(i, to)
        \/ AskCancel(Call("cancel", i, 0, {t \in WaitingTokens : waitingToken[t].of = i /\ record[t] = "open"}))
    \/ \E t \in WaitingTokens, op \in {"complete", "claim", "release"} : ReadTask(Call(op, NoInstance, t, {}))
    \/ \E s \in WaitingTokens : DeliverMessage(s) \/ ForceStep(s)
    \/ \E c \in calls :
        \/ SaveDefinitionXml(c) \/ DeleteDefinition(c) \/ StartInstance(c) \/ CancelInstance(c)
        \/ WriteTask(c) \/ CompleteTask(c) \/ CallLost(c)

UserTasksSpec == UserTasksInit /\ [][UserTasksNext]_userTaskVars

----------------------------------------------------------------------------
\* Types; records and subscriptions belong to tokens that came to wait for them.
UserTasksTypeOK ==
    /\ deployments \in 0..MaxDeploys
    /\ definitionData \in 0..deployments /\ definitionXml \in 0..deployments
    /\ instance \in [Instances -> Statuses]
    /\ waitingToken \in [WaitingTokens -> [of : Instances \cup {NoInstance}, waits : WaitKinds \cup {"none", "over"}]]
    /\ record \in [WaitingTokens -> {"none", "open", "claimed", "completed", "cancelled"}]
    /\ subscriptions \subseteq WaitingTokens
    /\ \A t \in Unborn : record[t] = "none" /\ t \notin subscriptions
    /\ calls \subseteq [op : {"deploy", "delete", "start", "cancel", "complete", "claim", "release"},
                        of : Instances \cup {NoInstance}, token : 0..MaxTokens, list : SUBSET (WaitingTokens \cup 1..MaxDeploys)]
    /\ unindexed \subseteq WaitingTokens /\ interrupted \subseteq WaitingTokens /\ writtenBack \subseteq WaitingTokens /\ crossed \in BOOLEAN

\* Whoever completes, claims, releases, interrupts or cancels at the same time: a token that waits for
\* a user at the top level of its definition has a record that can still be completed, a token that waits
\* for a message is in the index and no other token is, and a record that says completed or cancelled is
\* never one of a task that still waits.  A record of a task that is over can still be completed only
\* where a cycle about another token ended the task, or a claim or a release wrote an earlier record back
\* (tasks.ts:137, which does not look at the status).  Tokens without what they need are those that
\* cycles of workers and timers made or moved, which write neither, and those of user tasks in a
\* sub-process, which never get a record (engineHelpers.ts:193 looks at the top level only).
TasksFollowTokens ==
    \A t \in WaitingTokens \ unindexed :
        /\ waitingToken[t].waits = "user" => record[t] \in Open
        /\ waitingToken[t].waits = "message" <=> t \in subscriptions
        /\ record[t] \in {"completed", "cancelled"} => waitingToken[t].waits = "over"
        /\ record[t] \in Open /\ waitingToken[t].waits = "over" => t \in interrupted \cup writtenBack

\* A definition stays as long as instances of it run, and the source shown is the one it was parsed
\* from, unless a deployment, a start and a deletion overlapped.
DefinitionsStay ==
    crossed \/
        /\ Live # {} => definitionData > 0
        /\ definitionXml = definitionData \/ \E c \in calls : c.op = "deploy"
=============================================================================
