------------------------ MODULE TokenEngineProperties ------------------------
(***************************************************************************)
(* What the execution engine promises of one process instance.  Most of it *)
(* is said of the state between two cycles, the only one that is stored    *)
(* and that the rest of the system sees.                                   *)
(***************************************************************************)
EXTENDS TokenEngine

AtRest == ~cycle
Count(S) == Cardinality(S)
At(e) == {t \in DOMAIN tok : tok[t].el = e}
Along(f) == {t \in DOMAIN tok : tok[t].via = f}
Done(S) == {t \in S : tok[t].status = "completed"}

\* Something outside the engine can still move the token on.
Movable(t) == Completable(t) \/ WaitingFor(t) \in {"timer", "message", "signal"}

\* A cycle leaves nothing half-processed behind: between cycles no token is 'active', so
\* each one either waits for something or is finished (runLoop drains what every handler
\* queued).
NothingLeftRunning == AtRest => \A t \in DOMAIN tok : tok[t].status # "active"

\* An instance that is over has no token left that a late command could still move
\* (handleEndEvent's test before completeInstance; handleCancelInstance).
OverMeansQuiet ==
    AtRest /\ inst \in {"completed", "terminated"} =>
        \A t \in DOMAIN tok : tok[t].status \in {"completed", "cancelled"}

\* An instance that is not over has a token that some command can move: joins,
\* sub-processes, loops and compensations never swallow the last one.
NeverStranded ==
    AtRest /\ inst \in {"active", "suspended"} => \E t \in Waiting(tok) : Movable(t)

\* A parallel join fires once per round of arrivals, however the branches are ordered and
\* however often the process loops through it: each incoming flow has delivered one token
\* per firing, and one more exactly if the join state holds its arrival.
ParallelJoins == {g \in Elements : El[g].type = "parallelGateway" /\ IsJoin(g)}
JoinBalance ==
    AtRest => \A g \in ParallelJoins :
        \A f \in Incoming(g), o \in Outgoing(g) :
            Count(Along(f)) = Count(Along(o)) + (IF f \in joins[g].arrived THEN 1 ELSE 0)

\* A boundary event listens exactly as long as its host waits: no timer survives the task
\* it watches, and no task waits without the interrupting timers that bound it
\* (spawnBoundaryTokens, cancelBoundaryTokensFor, cancelHostTaskAndBoundaries).
BoundaryFollowsHost ==
    AtRest => \A e \in Elements :
        \A b \in {El[e].bound[i] : i \in DOMAIN El[e].bound} :
            /\ WaitingAt(tok, b) # {} => WaitingAt(tok, e) # {}
            /\ WaitingAt(tok, e) # {} /\ (El[b].cancels \/ El[b].event = "error")
                  => WaitingAt(tok, b) # {}

\* The ways out of an element: its own flows and those of the boundary events that end it.
Exits(e) == Outgoing(e) \cup
    UNION {Outgoing(b) : b \in {x \in {El[e].bound[i] : i \in DOMAIN El[e].bound} :
                                    El[x].cancels \/ El[x].event = "error"}}

\* A terminate or cancel end event has ended what else was going on.
CutShort == \E t \in DOMAIN tok : El[tok[t].el].event \in {"terminate", "cancel"} /\ Type(t) = "endEvent"

\* Every visit of a task or sub-process is left exactly once, by its own flow or by one
\* interrupting boundary event: never twice, never both ways, and never lost (visits =
\* tokens still waiting there + tokens sent on from there), unless everything is cut short.
LeftOnce ==
    AtRest /\ inst # "terminated" /\ ~CutShort => \A e \in Elements :
        El[e].type \in TaskTypes \cup {"subProcess"} /\ El[e].out # << >> =>
            LET visits == {t \in At(e) : tok[t].parent = 0}
            IN  Count(visits) = Count(visits \cap Waiting(tok))
                                  + Count(UNION {Along(f) : f \in Exits(e)})

\* An event-based gateway is left by one of its events only, and no branch of a race that
\* is decided still waits (cancelEbgSiblings).
OneWinner ==
    AtRest => \A g \in DOMAIN tok : Type(g) = "eventBasedGateway" =>
        LET branches == ChildrenOf(tok, g)
        IN  /\ Count(Done(branches)) <= 1
            /\ Done(branches) # {} => Waiting(tok) \cap branches = {}

\* A completed activity is compensated at most once, whichever throw events compete for
\* its record: handlers started and records kept add up to the completions.
CompensatedOnce ==
    AtRest => \A a \in Elements : El[a].undo # None =>
        Count(At(El[a].undo)) + Count({i \in DOMAIN comp : comp[i].activity = a})
            = Count(Done(At(a)))

\* A compensation throw event is left only after every handler it started is done, and it
\* is not left waiting once they are.
ThrowAwaitsHandlers ==
    AtRest => \A t \in DOMAIN tok :
        Type(t) = "intermediateThrowEvent" /\ ChildrenOf(tok, t) # {} =>
            (tok[t].status = "waiting" <=> Live(tok) \cap ChildrenOf(tok, t) # {})

\* A multi-instance activity waits exactly as long as one of its children does, runs its
\* children one at a time if it is sequential.
LoopAccounting ==
    AtRest => \A p \in DOMAIN tok : Type(p) \in TaskTypes /\ IsLoopParent(p) =>
        LET live == Live(tok) \cap ChildrenOf(tok, p)
        IN  /\ tok[p].status = "waiting" <=> live # {}
            /\ El[tok[p].el].loop = "seq" => Count(live) <= 1

\* A sub-process holds its outer token exactly as long as something inside it is live
\* (checkSubProcessCompletion).
ScopeNesting ==
    AtRest => \A sp \in Elements : El[sp].type = "subProcess" =>
        (WaitingAt(tok, sp) # {} <=> \E t \in Live(tok) : tok[t].sub = sp)

\* What is finished stays finished: no later cycle revives a completed or cancelled token.
FinishedForGood ==
    [][\A t \in DOMAIN store.tok :
          store.tok[t].status \in {"completed", "cancelled"}
              => store'.tok[t].status = store.tok[t].status]_store

\* Where tokens wait for a worker, a user or a timer.
Served == {e \in Elements : El[e].type \in TaskTypes \ {"manualTask"} \/ El[e].event = "timer"}

\* Workers, users and timers get round to every place where a token waits for them, and a
\* cycle that has begun runs to its end.
Settle == ProcessToken \/ DeliverNext \/ Throw \/ Commit
Fairness ==
    /\ WF_vars(Settle)
    /\ SF_vars(StartProcess)
    /\ \A e \in Served :
        SF_vars(\E t \in WaitingAt(tok, e) :
                    CompleteTask(t) \/ FireBoundaryTimer(t) \/ FireTimer(t))
FairSpec == Spec /\ Fairness

\* Every instance comes to an end, provided its tasks and timers do.
Termination == <>(AtRest /\ inst \in {"completed", "terminated"})

=============================================================================
