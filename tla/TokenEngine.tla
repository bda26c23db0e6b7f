---------------------------- MODULE TokenEngine ----------------------------
(***************************************************************************)
(* The execution engine of nexus-workflow-core, ExecutionEngine.ts, for    *)
(* one process instance.  A call of execute() is one cycle: a command      *)
(* handler loads the stored state into an ExecutionContext, changes it and *)
(* queues tokens; runLoop then processes the queue, first in first out,    *)
(* until it is empty; the result is stored as a whole.  A handler that     *)
(* throws leaves the stored state as it was.                               *)
(*                                                                         *)
(* Tokens are numbered in the order of their creation, which is the        *)
(* iteration order of the context's Map.  The queue holds token objects    *)
(* that were copied when they were queued, still 'active': processing a    *)
(* token never looks at what became of it in the meantime.  Variables and  *)
(* scopes are left out: a condition may come out either way.               *)
(***************************************************************************)
EXTENDS ProcessDefinition

CONSTANTS
    MaxRounds,       \* bound of the model: no command once a flow was taken more often
    Collections,     \* lengths a multi-instance collection may have, None for no array
    ForceSteps,      \* whether managers force steps by hand (http/force.ts)
    KeepsLoopState   \* whether the state store gives loopState back: InMemoryStateStore
                     \* does, PostgresStateStore does not

ASSUME BoundsAssumption ==
    /\ MaxRounds \in Nat
    /\ Collections \subseteq Nat \cup {None}
    /\ ForceSteps \in BOOLEAN
    /\ KeepsLoopState \in BOOLEAN

VARIABLES
    inst,       \* the status of the process instance, "none" before StartProcess
    tok,        \* the tokens, in creation order
    queue,      \* pendingQueue: numbers of the tokens to process
    targets,    \* the tokens a delivered message or signal has still to complete
    joins,      \* the gateway join states, by gateway
    comp,       \* the compensation records, oldest first
    cycle,      \* whether an execute() call is under way
    store       \* the state as last stored

vars == <<inst, tok, queue, targets, joins, comp, cycle, store>>

Statuses == {"active", "waiting", "completed", "cancelled"}
Lost == -1      \* loopState is undefined

Token == [ el     : Elements,
           status : Statuses,
           via    : Flows \cup {None},       \* arrivedViaFlowId
           sub    : Elements \cup {None},    \* subProcessInstanceId
           parent : Nat,                     \* parentTokenId, 0 when absent
           rest   : Nat \cup {Lost} ]        \* items of loopState still to run

\* arrived and expected flows; a gateway without a join state expects nothing
JoinState == [arrived : SUBSET Flows, expected : SUBSET Flows]
NoJoin == [arrived |-> {}, expected |-> {}]

CompensationRecord == [activity : Elements, handler : Elements, token : Nat, at : Nat]

InstanceStatuses == {"none", "active", "suspended", "completed", "terminated"}

EngineState == [ inst : InstanceStatuses, tok : Seq(Token),
                 joins : [Elements -> JoinState], comp : Seq(CompensationRecord) ]

TypeOK ==
    /\ inst \in InstanceStatuses
    /\ tok \in Seq(Token)
    /\ queue \in Seq(Nat)
    /\ \A i \in DOMAIN queue : queue[i] \in DOMAIN tok
    /\ targets \subseteq DOMAIN tok
    /\ joins \in [Elements -> JoinState]
    /\ comp \in Seq(CompensationRecord)
    /\ cycle \in BOOLEAN
    /\ store \in EngineState

----------------------------------------------------------------------------
(* Reading and writing tokens                                               *)

Waiting(tk) == {i \in DOMAIN tk : tk[i].status = "waiting"}
LiveBroken(tk) == {i \in DOMAIN tk : tk[i].status = "active"}  \* mutant: waiting is over
Live(tk) == {i \in DOMAIN tk : tk[i].status \in {"active", "waiting"}}
ChildrenOf(tk, p) == {i \in DOMAIN tk : tk[i].parent = p}
InScopeBroken(tk, sp) == {i \in DOMAIN tk : tk[i].sub # None}  \* mutant: any sub-process
InScope(tk, sp) == {i \in DOMAIN tk : tk[i].sub = sp}
WaitingAt(tk, e) == {i \in Waiting(tk) : tk[i].el = e}
Least(S) == {i \in S : \A j \in S : i <= j}       \* what Array.find picks, if anything

\* updateToken({...t, status}) for every token of S
Mark(tk, S, status) ==
    [i \in DOMAIN tk |-> IF i \in S THEN [tk[i] EXCEPT !.status = status] ELSE tk[i]]

\* createToken
Fresh(e, via, sub, parent) ==
    [el |-> e, status |-> "active", via |-> via, sub |-> sub, parent |-> parent, rest |-> Lost]

\* Mutant: the sub-process is not passed on.
MovedBroken(t, flows) == [i \in DOMAIN flows |-> Fresh(Target[flows[i]], flows[i], None, 0)]

\* The tokens moveTokenToFlow creates from t on each of the flows, in that order.
Moved(t, flows) == [i \in DOMAIN flows |-> Fresh(Target[flows[i]], flows[i], t.sub, 0)]

\* Mutant: tokens are queued but never put into the map.
PutBroken(tk, new, q) ==
    /\ tok' = tk
    /\ queue' = q \o [i \in DOMAIN new |-> Len(tk) + i]

\* The tokens are now tk followed by the new ones, which join the pending queue q.
Put(tk, new, q) ==
    /\ tok' = tk \o new
    /\ queue' = q \o [i \in DOMAIN new |-> Len(tk) + i]

\* Mutant: the token moves on without being completed.
AdvanceBroken(t, tk, q) == Put(tk, Moved(tok[t], El[tok[t].el].out), q)

\* advanceToken: t is completed and moves along every outgoing flow of its element.
Advance(t, tk, q) == Put(Mark(tk, {t}, "completed"), Moved(tok[t], El[tok[t].el].out), q)

\* What a waiting token waits for (waitingFor.type).  The parent of a multi-instance
\* activity waits for its children.
IsLoopParent(t) == El[tok[t].el].loop # "none" /\ tok[t].parent = 0
WaitingFor(t) ==
    LET e == El[tok[t].el]
    IN  CASE e.type = "userTask" /\ ~IsLoopParent(t) -> "user-task"
          [] e.type \in {"intermediateCatchEvent", "boundaryEvent"}
                /\ e.event \in {"timer", "message", "signal"} -> e.event
          [] OTHER -> "external"

\* The waiting tokens of the boundary events of e (waitingFor.correlationData.hostTaskId).
BoundaryTokens(tk, e) ==
    {i \in Waiting(tk) : El[tk[i].el].type = "boundaryEvent" /\ El[tk[i].el].host = e}

\* Mutants: the other boundary events keep listening; the host keeps waiting.
HostOnly(tk, e) == WaitingAt(tk, e)
BoundariesOnly(tk, e) == BoundaryTokens(tk, e)

\* cancelHostTaskAndBoundaries: every token waiting at e or at one of its boundary events.
HostAndBoundaries(tk, e) == WaitingAt(tk, e) \cup BoundaryTokens(tk, e)

\* Mutant: the losers of a race are left waiting.
RaceSiblingsBroken(tk, t) == {}

\* cancelEbgSiblings: the other tokens waiting under the same event-based gateway token.
RaceSiblings(tk, t) ==
    IF tk[t].parent = 0 THEN {} ELSE (Waiting(tk) \cap ChildrenOf(tk, tk[t].parent)) \ {t}

\* A compensation record in the making; several completions may fall in one millisecond.
Recorded(t) ==
    LET handler == El[tok[t].el].undo
        last == IF comp = << >> THEN 0 ELSE comp[Len(comp)].at
    IN  IF handler = None
        THEN comp' = comp
        ELSE \E at \in {last, last + 1} :
                comp' = Append(comp, [activity |-> tok[t].el, handler |-> handler,
                                      token |-> t, at |-> at])

\* The records of I in the order they are compensated: latest completedAt first, and in
\* recording order among equals, since the sort is stable.
CompensationOrders(I) ==
    {p \in [1..Cardinality(I) -> I] :
        \A i, j \in DOMAIN p : i < j =>
            \/ comp[p[i]].at > comp[p[j]].at
            \/ comp[p[i]].at = comp[p[j]].at /\ p[i] < p[j]}

\* Mutant: the records are read but not consumed.
ConsumeBroken(I) == comp' = comp

\* consumeCompensationRecordsFor: the records of I are dropped.
Consume(I) == \E p \in Ascending(DOMAIN comp \ I) : comp' = [i \in DOMAIN p |-> comp[p[i]]]

\* The handler tokens for those records, run on behalf of the token t.
HandlerTokens(p, t, sub) == [i \in DOMAIN p |-> Fresh(comp[p[i]].handler, None, sub, t)]

----------------------------------------------------------------------------
(* processToken: one disjunct per element handler.  t is the token at the   *)
(* head of the queue, q the rest of the queue.                              *)

Type(t) == El[tok[t].el].type

\* Start events, throw events other than compensation, and manual tasks.
PassThrough(t, q) ==
    /\ \/ Type(t) = "startEvent"
       \/ Type(t) = "intermediateThrowEvent" /\ El[tok[t].el].event # "compensation"
       \/ Type(t) = "manualTask" /\ El[tok[t].el].loop = "none"
    /\ Advance(t, tok, q)
    /\ UNCHANGED <<inst, joins, comp>>

\* spawnBoundaryTokens
BoundarySpawns(t) ==
    [i \in DOMAIN El[tok[t].el].bound |-> Fresh(El[tok[t].el].bound[i], None, tok[t].sub, 0)]

\* Service, user and script tasks, catch events and boundary events wait; service and user
\* tasks spawn the tokens of their boundary events.
Suspend(t, q) ==
    /\ Type(t) \in {"serviceTask", "userTask", "scriptTask", "intermediateCatchEvent", "boundaryEvent"}
    /\ ~IsLoopParent(t)
    /\ Awaitable(tok[t].el)
    /\ Put(Mark(tok, {t}, "waiting"),
           IF Type(t) \in {"serviceTask", "userTask"} THEN BoundarySpawns(t) ELSE << >>, q)
    /\ UNCHANGED <<inst, joins, comp>>

\* handleSubProcess: only a transaction spawns the tokens of its boundary events.
EnterSubProcess(t, q) ==
    /\ Type(t) = "subProcess"
    /\ LET e == tok[t].el
       IN  Put(Mark(tok, {t}, "waiting"),
               (IF El[e].tx THEN BoundarySpawns(t) ELSE << >>)
                 \o << Fresh(El[e].start, None, e, 0) >>,
               q)
    /\ UNCHANGED <<inst, joins, comp>>

\* An end event outside a sub-process: the instance is complete once nothing is live.
EndProcess(t, q) ==
    LET tk == Mark(tok, {t}, "completed")
    IN  /\ Type(t) = "endEvent" /\ El[tok[t].el].event \notin {"cancel", "terminate"}
        /\ tok[t].sub = None
        /\ tok' = tk
        /\ queue' = q
        /\ inst' = IF Live(tk) = {} /\ q = << >> THEN "completed" ELSE inst
        /\ UNCHANGED <<joins, comp>>

\* checkSubProcessCompletion: the last inner token lets the outer token go on.
EndSubProcess(t, q) ==
    LET tk == Mark(tok, {t}, "completed")
        sp == tok[t].sub
        outer == Least(WaitingAt(tk, sp))
    IN  /\ Type(t) = "endEvent" /\ El[tok[t].el].event \notin {"cancel", "terminate"}
        /\ sp # None
        /\ IF Live(tk) \cap InScope(tk, sp) = {} /\ outer # {}
           THEN \E o \in outer : Advance(o, tk, q)
           ELSE Put(tk, << >>, q)
        /\ UNCHANGED <<inst, joins, comp>>

\* A terminate end event: every other live token is cancelled, but the queue is not emptied.
Terminate(t, q) ==
    /\ Type(t) = "endEvent" /\ El[tok[t].el].event = "terminate"
    /\ tok' = Mark(Mark(tok, {t}, "completed"), Live(tok) \ {t}, "cancelled")
    /\ queue' = q
    /\ inst' = "completed"
    /\ UNCHANGED <<joins, comp>>

\* fireCancelBoundary for the outer token o of a transaction; without a waiting cancel
\* boundary token it does nothing.
FireCancelBoundary(o, tk, q) ==
    LET fired == Least({i \in BoundaryTokens(tk, tk[o].el) : El[tk[i].el].event = "cancel"})
    IN  IF fired = {}
        THEN Put(tk, << >>, q)
        ELSE \E b \in fired : Put(Mark(Mark(tk, {b}, "completed"), {o}, "cancelled"),
                                   Moved(tk[b], El[tk[b].el].out), q)

\* handleTransactionCancel: the inner tokens are cancelled and every compensation record of
\* the instance is consumed; the boundary fires at once if there was none.
CancelTransaction(t, q) ==
    LET sp == tok[t].sub
        tk == Mark(Mark(tok, {t}, "completed"),
                   (Live(tok) \cap InScope(tok, sp)) \ {t}, "cancelled")
        outer == Least(WaitingAt(tk, sp))
    IN  /\ Type(t) = "endEvent" /\ El[tok[t].el].event = "cancel"
        /\ \/ /\ sp = None
              /\ Put(Mark(tok, {t}, "completed"), << >>, q)
              /\ UNCHANGED comp
           \/ /\ sp # None /\ comp # << >>
              /\ \E p \in CompensationOrders(DOMAIN comp) : Put(tk, HandlerTokens(p, t, sp), q)
              /\ Consume(DOMAIN comp)
           \/ /\ sp # None /\ comp = << >>
              /\ IF outer = {} THEN Put(tk, << >>, q)
                 ELSE \E o \in outer : FireCancelBoundary(o, tk, q)
              /\ UNCHANGED comp
        /\ UNCHANGED <<inst, joins>>

----------------------------------------------------------------------------
(* Gateways                                                                 *)

Exclusive(t, q) ==
    /\ Type(t) = "exclusiveGateway"
    /\ \E f \in ExclusiveChoices(tok[t].el) :
          Put(Mark(tok, {t}, "completed"), Moved(tok[t], << f >>), q)
    /\ UNCHANGED <<inst, joins, comp>>

IsJoin(e) == Cardinality(Incoming(e)) > 1

\* The flow the token t arrives by: any incoming flow (the code takes the first declared) if
\* it was not moved along one.
Arrivals(t) == IF tok[t].via # None THEN {tok[t].via} ELSE Incoming(tok[t].el)

\* Mutant: the state of a join that fires is kept.
ArriveBroken(t, q, js) ==
    \E f \in Arrivals(t) :
        /\ joins' = [joins EXCEPT ![tok[t].el] = [js EXCEPT !.arrived = @ \cup {f}]]
        /\ IF js.expected \subseteq js.arrived \cup {f}
           THEN Advance(t, tok, q) ELSE Put(Mark(tok, {t}, "completed"), << >>, q)

\* The token t reaches a join whose state is js: the join fires once every expected flow has
\* arrived, and the state is dropped; otherwise the arrival is noted.  Either way t is consumed.
Arrive(t, q, js) ==
    \E f \in Arrivals(t) :
        LET g == tok[t].el
            now == [js EXCEPT !.arrived = @ \cup {f}]
        IN  IF now.expected \subseteq now.arrived
            THEN /\ joins' = [joins EXCEPT ![g] = NoJoin]
                 /\ Advance(t, tok, q)
            ELSE /\ joins' = [joins EXCEPT ![g] = now]
                 /\ Put(Mark(tok, {t}, "completed"), << >>, q)

\* The first arrival creates the state of a parallel join, which expects every incoming flow.
ParallelJoin(t, q) ==
    LET g == tok[t].el
    IN  /\ Type(t) = "parallelGateway" /\ IsJoin(g)
        /\ Arrive(t, q, IF joins[g] = NoJoin
                        THEN [arrived |-> {}, expected |-> Incoming(g)] ELSE joins[g])
        /\ UNCHANGED <<inst, comp>>

ParallelSplit(t, q) ==
    /\ Type(t) = "parallelGateway" /\ ~IsJoin(tok[t].el) /\ El[tok[t].el].out # << >>
    /\ Advance(t, tok, q)
    /\ UNCHANGED <<inst, joins, comp>>

InclusiveJoin(t, q) ==
    LET g == tok[t].el
    IN  /\ Type(t) = "inclusiveGateway" /\ IsJoin(g)
        /\ joins[g] # NoJoin
        /\ Arrive(t, q, joins[g])
        /\ UNCHANGED <<inst, comp>>

ExpectedBroken(active, j) == Incoming(j)      \* mutant: flows that were not activated, too
Expected(active, j) == active \cap Incoming(j)

\* The split registers the state of the join its activated flows lead straight to, if any.
InclusiveSplit(t, q) ==
    LET g == tok[t].el
    IN  /\ Type(t) = "inclusiveGateway" /\ ~IsJoin(g)
        /\ \E active \in InclusiveChoices(g) :
              /\ \E p \in Ascending({i \in DOMAIN El[g].out : El[g].out[i] \in active}) :
                    Put(Mark(tok, {t}, "completed"),
                        Moved(tok[t], [i \in DOMAIN p |-> El[g].out[p[i]]]), q)
              /\ IF InclusiveJoins(active) = {}
                 THEN UNCHANGED joins
                 ELSE \E j \in InclusiveJoins(active) :
                        joins' = [joins EXCEPT ![j] =
                                    [arrived |-> {}, expected |-> Expected(active, j)]]
        /\ UNCHANGED <<inst, comp>>

\* handleEventBasedGateway: one child per outgoing flow, placed at the catch event.
EventGateway(t, q) ==
    LET out == El[tok[t].el].out
    IN  /\ Type(t) = "eventBasedGateway" /\ EventGatewayValid(tok[t].el)
        /\ Put(Mark(tok, {t}, "completed"),
               [i \in DOMAIN out |-> Fresh(Target[out[i]], out[i], None, t)], q)
        /\ UNCHANGED <<inst, joins, comp>>

----------------------------------------------------------------------------
(* Compensation and multi-instance activities                               *)

\* handleCompensationThrow: the records of the referenced activity, or all of them, are
\* consumed and their handlers started; a handler inside a sub-process is not found.  The
\* throw token waits for the handlers; without a record it passes straight through.
ThrowCompensation(t, q) ==
    LET e == tok[t].el
        hit == {i \in DOMAIN comp : El[e].ref \in {None, comp[i].activity}}
        found == {i \in hit : El[comp[i].handler].within = None}
    IN  /\ Type(t) = "intermediateThrowEvent" /\ El[e].event = "compensation"
        /\ \/ hit = {} /\ Advance(t, tok, q) /\ UNCHANGED comp
           \/ /\ hit # {}
              /\ \E p \in CompensationOrders(found) :
                    Put(Mark(tok, {t}, "waiting"), HandlerTokens(p, t, None), q)
              /\ Consume(hit)
        /\ UNCHANGED <<inst, joins>>

\* Mutant: one item too few.
LoopChildrenBroken(t, n) == [i \in 1..(n - 1) |-> Fresh(tok[t].el, None, None, t)]

\* spawnMultiInstanceChild, n times: the child does not inherit the sub-process of its parent.
LoopChildren(t, n) == [i \in 1..n |-> Fresh(tok[t].el, None, None, t)]

\* handleMultiInstanceStart, for a collection of n items.
StartLoop(t, q) ==
    /\ Type(t) \in TaskTypes /\ IsLoopParent(t)
    /\ \E n \in Collections \ {None} :
          IF n = 0
          THEN Advance(t, tok, q)
          ELSE LET waiting == Mark(tok, {t}, "waiting")
               IN  IF El[tok[t].el].loop = "seq"
                   THEN Put([waiting EXCEPT ![t].rest = n - 1], LoopChildren(t, 1), q)
                   ELSE Put(waiting, LoopChildren(t, n), q)
    /\ UNCHANGED <<inst, joins, comp>>

\* completeMultiInstance: whatever the status of the parent p was, it is completed now.
CompleteLoop(p, tk, q) ==
    LET e == El[tok[p].el]
    IN  Put(Mark(Mark(tk, {p}, "completed"), BoundaryTokens(tk, tok[p].el), "cancelled"),
            Moved(tok[p], e.out), q)

\* handleMultiInstanceChildCompletion for the child t; the completion condition, if there is
\* one, may come out either way.
CompleteLoopChild(t, q) ==
    LET p == tok[t].parent
        e == El[tok[t].el]
        tk == Mark(tok, {t}, "completed")
        siblings == Waiting(tk) \cap ChildrenOf(tk, p)
    IN  \E stop \in IF e.stops THEN BOOLEAN ELSE {FALSE} :
          \/ /\ e.loop = "seq" /\ tok[p].rest = Lost
             /\ Put(tk, << >>, q)
          \/ /\ e.loop = "seq" /\ tok[p].rest # Lost
             /\ IF stop \/ tok[p].rest = 0
                THEN CompleteLoop(p, tk, q)
                ELSE Put([tk EXCEPT ![p].rest = @ - 1], LoopChildren(p, 1), q)
          \/ /\ e.loop = "par" /\ stop
             /\ CompleteLoop(p, Mark(tk, siblings, "cancelled"), q)
          \/ /\ e.loop = "par" /\ ~stop
             /\ IF Live(tk) \cap ChildrenOf(tk, p) = {}
                THEN CompleteLoop(p, tk, q)
                ELSE Put(tk, << >>, q)

\* A manual task that is a child of a multi-instance activity completes at once.
ManualLoopChild(t, q) ==
    /\ Type(t) = "manualTask" /\ El[tok[t].el].loop # "none" /\ tok[t].parent # 0
    /\ CompleteLoopChild(t, q)
    /\ UNCHANGED <<inst, joins, comp>>

----------------------------------------------------------------------------
(* Commands: what a cycle starts with                                       *)

\* A handler runs on the stored state.
Begin ==
    /\ ~cycle
    /\ cycle' = TRUE
    /\ UNCHANGED store

Resumed == IF inst = "suspended" THEN "active" ELSE inst

\* StartProcess
StartProcess ==
    /\ Begin /\ inst = "none"
    /\ inst' = "active"
    /\ \E start \in StartEvents : Put(tok, << Fresh(start, None, None, 0) >>, queue)
    /\ UNCHANGED <<targets, joins, comp>>

\* Mutant: the status of the token is not looked at.
CompletableBroken(t) == Type(t) \in {"serviceTask", "userTask", "scriptTask"}

\* Who completes a waiting token.  Workers and users complete the tasks they were given; by
\* hand, a manager may also complete the parent of a multi-instance service task.
Completable(t) ==
    /\ t \in Waiting(tok)
    /\ Type(t) \in {"serviceTask", "userTask", "scriptTask"}
    /\ IsLoopParent(t) => ForceSteps /\ Type(t) = "serviceTask"

IsLoopChild(t) ==
    /\ tok[t].parent # 0
    /\ tok[tok[t].parent].el = tok[t].el
    /\ El[tok[t].el].loop # "none"

IsHandler(t) ==
    /\ tok[t].parent # 0
    /\ Type(tok[t].parent) \in {"intermediateThrowEvent", "endEvent"}
    /\ El[tok[t].el].undoes

\* Mutant: the first handler to finish lets the throw event go on.
CompleteHandlerEarly(t) == Advance(tok[t].parent, Mark(tok, {t}, "completed"), queue)

\* handleCompensationHandlerCompletion: the last handler lets the throw event go on, or fires
\* the cancel boundary of the transaction that was cancelled.
CompleteHandler(t) ==
    LET p == tok[t].parent
        tk == Mark(tok, {t}, "completed")
        outer == Least(WaitingAt(tk, tok[p].sub))
        allDone == Live(tk) \cap ChildrenOf(tk, p) = {}
        undone == Type(p) = "endEvent" /\ El[tok[p].el].event = "cancel" /\ tok[p].sub # None
    IN  \/ ~allDone /\ Put(tk, << >>, queue)
        \/ allDone /\ ~undone /\ Advance(p, tk, queue)
        \/ allDone /\ undone /\ outer = {} /\ Put(tk, << >>, queue)
        \/ allDone /\ undone /\ \E o \in outer : FireCancelBoundary(o, tk, queue)

\* The rest of handleCompleteTask, for a token that is neither: its boundary tokens are
\* cancelled, its compensation is recorded and it moves on.
CompleteOrdinary(t, tk) ==
    /\ Advance(t, Mark(tk, BoundaryTokens(tk, tok[t].el), "cancelled"), queue)
    /\ Recorded(t)

\* CompleteServiceTask and CompleteUserTask: a suspended instance is resumed.
CompleteTask(t) ==
    /\ Begin /\ Completable(t)
    /\ inst' = Resumed
    /\ \/ IsLoopChild(t) /\ CompleteLoopChild(t, queue) /\ UNCHANGED comp
       \/ ~IsLoopChild(t) /\ IsHandler(t) /\ CompleteHandler(t) /\ UNCHANGED comp
       \/ ~IsLoopChild(t) /\ ~IsHandler(t) /\ CompleteOrdinary(t, tok)
    /\ UNCHANGED <<targets, joins>>

\* FailServiceTask: a matching error boundary takes over, else the instance is suspended and
\* the token keeps waiting.
FailServiceTask(t, code) ==
    /\ Begin /\ Completable(t) /\ Type(t) = "serviceTask"
    /\ LET e == tok[t].el
       IN  IF ErrorBoundary(e, code) = {}
           THEN inst' = "suspended" /\ UNCHANGED <<tok, queue>>
           ELSE \E b \in ErrorBoundary(e, code) :
                  /\ Put(Mark(tok, {t} \cup HostAndBoundaries(tok, e), "cancelled"),
                         Moved(tok[t], El[b].out), queue)
                  /\ UNCHANGED inst
    /\ UNCHANGED <<targets, joins, comp>>

\* FireTimer on a boundary event: an interrupting one cancels its host and the boundary
\* events of its host.
FireBoundaryTimer(t) ==
    LET e == El[tok[t].el]
        hit == IF e.cancels THEN HostAndBoundaries(tok, e.host) \ {t} ELSE {}
    IN  /\ Begin /\ t \in Waiting(tok) /\ Type(t) = "boundaryEvent" /\ WaitingFor(t) = "timer"
        /\ Put(Mark(Mark(tok, {t}, "completed"), hit, "cancelled"), Moved(tok[t], e.out), queue)
        /\ UNCHANGED <<inst, targets, joins, comp>>

\* FireTimer on a catch event: the race it may be part of is settled, then it completes.
FireTimer(t) ==
    /\ Begin /\ t \in Waiting(tok) /\ Type(t) # "boundaryEvent" /\ WaitingFor(t) = "timer"
    /\ inst' = Resumed
    /\ CompleteOrdinary(t, Mark(tok, RaceSiblings(tok, t), "cancelled"))
    /\ UNCHANGED <<targets, joins>>

\* DeliverMessage and BroadcastSignal: the tokens waiting for that name are the targets.
Deliver(kind, name) ==
    /\ Begin /\ inst # "none"
    /\ targets' = {t \in Waiting(tok) : WaitingFor(t) = kind /\ El[tok[t].el].name = name}
    /\ UNCHANGED <<inst, tok, queue, joins, comp>>

\* One round of the loop over the targets, in creation order: a target that an earlier one
\* has cancelled is skipped.  A boundary event is treated like a catch event: neither its
\* host nor the other boundary events of its host are touched.
DeliverNext ==
    /\ cycle /\ targets # {}
    /\ \E t \in Least(targets) :
          /\ targets' = targets \ {t}
          /\ IF tok[t].status = "waiting"
             THEN Put(Mark(Mark(tok, {t}, "completed"), RaceSiblings(tok, t), "cancelled"),
                      Moved(tok[t], El[tok[t].el].out), queue)
             ELSE UNCHANGED <<tok, queue>>
    /\ UNCHANGED <<inst, joins, comp, cycle, store>>

SuspendInstance ==
    /\ Begin /\ inst = "active"
    /\ inst' = "suspended"
    /\ UNCHANGED <<tok, queue, targets, joins, comp>>

ResumeInstance ==
    /\ Begin /\ inst = "suspended"
    /\ inst' = "active"
    /\ UNCHANGED <<tok, queue, targets, joins, comp>>

\* CancelInstance: whatever the status of the instance was.
CancelInstance ==
    /\ Begin /\ inst # "none"
    /\ inst' = "terminated"
    /\ tok' = Mark(tok, Live(tok), "cancelled")
    /\ UNCHANGED <<queue, targets, joins, comp>>

----------------------------------------------------------------------------
(* The cycle                                                                *)

\* runLoop: dequeue a token and process it.
ProcessToken ==
    /\ cycle /\ targets = {} /\ queue # << >>
    /\ LET t == Head(queue)
           q == Tail(queue)
       IN  \/ PassThrough(t, q)
           \/ Suspend(t, q)
           \/ EnterSubProcess(t, q)
           \/ EndProcess(t, q)
           \/ EndSubProcess(t, q)
           \/ Terminate(t, q)
           \/ CancelTransaction(t, q)
           \/ Exclusive(t, q)
           \/ ParallelSplit(t, q)
           \/ ParallelJoin(t, q)
           \/ InclusiveSplit(t, q)
           \/ InclusiveJoin(t, q)
           \/ EventGateway(t, q)
           \/ ThrowCompensation(t, q)
           \/ StartLoop(t, q)
           \/ ManualLoopChild(t, q)
    /\ UNCHANGED <<targets, cycle, store>>

\* What the handler of the token t cannot process.
Faulty(t) ==
    LET e == tok[t].el
    IN  \/ Type(t) = "callActivity"
        \/ ~Awaitable(e)
        \/ Type(t) = "exclusiveGateway" /\ NoFlowCanMatch(e)
        \/ Type(t) = "parallelGateway" /\ ~IsJoin(e) /\ El[e].out = << >>
        \/ Type(t) = "inclusiveGateway" /\ ~IsJoin(e) /\ NoFlowCanMatch(e)
        \/ Type(t) = "inclusiveGateway" /\ IsJoin(e) /\ joins[e] = NoJoin
        \/ Type(t) = "eventBasedGateway" /\ ~EventGatewayValid(e)
        \/ IsLoopParent(t) /\ None \in Collections

\* A DefinitionError or RuntimeError out of execute(): nothing of the cycle is stored.
Throw ==
    /\ cycle /\ targets = {} /\ queue # << >> /\ Faulty(Head(queue))
    /\ cycle' = FALSE
    /\ queue' = << >>
    /\ inst' = store.inst /\ tok' = store.tok /\ joins' = store.joins /\ comp' = store.comp
    /\ UNCHANGED <<targets, store>>

\* What the state store makes of a token: reviveToken of PostgresStateStore has no loopState.
Revived(tk) ==
    IF KeepsLoopState THEN tk ELSE [i \in DOMAIN tk |-> [tk[i] EXCEPT !.rest = Lost]]

\* toResult, stored in one transaction; the next cycle works on what the store gives back.
Commit ==
    /\ cycle /\ targets = {} /\ queue = << >>
    /\ cycle' = FALSE
    /\ tok' = Revived(tok)
    /\ store' = [inst |-> inst, tok |-> Revived(tok), joins |-> joins, comp |-> comp]
    /\ UNCHANGED <<inst, queue, targets, joins, comp>>

Init ==
    /\ inst = "none"
    /\ tok = << >>
    /\ queue = << >>
    /\ targets = {}
    /\ joins = [e \in Elements |-> NoJoin]
    /\ comp = << >>
    /\ cycle = FALSE
    /\ store = [inst |-> "none", tok |-> << >>, joins |-> joins, comp |-> << >>]

\* The bound of the model.
RoundsLeft == \A f \in Flows : Cardinality({t \in DOMAIN tok : tok[t].via = f}) <= MaxRounds

Command ==
    /\ ~cycle
    /\ RoundsLeft
    /\ \/ StartProcess
       \/ \E t \in DOMAIN tok : CompleteTask(t)
       \/ \E t \in DOMAIN tok, code \in Names : FailServiceTask(t, code)
       \/ \E t \in DOMAIN tok : FireBoundaryTimer(t)
       \/ \E t \in DOMAIN tok : FireTimer(t)
       \/ \E kind \in {"message", "signal"}, name \in Names : Deliver(kind, name)
       \/ SuspendInstance
       \/ ResumeInstance
       \/ CancelInstance

Next == Command \/ DeliverNext \/ ProcessToken \/ Throw \/ Commit

Spec == Init /\ [][Next]_vars

=============================================================================
