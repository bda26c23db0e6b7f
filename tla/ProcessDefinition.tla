------------------------- MODULE ProcessDefinition -------------------------
(***************************************************************************)
(* Parsed BPMN process definitions, as ExecutionEngine.ts reads them       *)
(* (nexus-workflow-core/src/model/types.ts).  The definitions a tenant has *)
(* deployed are constant and share no identifier; an instance runs one of  *)
(* them, which its start event tells.  Identifiers, names and condition    *)
(* expressions are abstract; what is kept of an element is what the engine *)
(* branches on.                                                            *)
(***************************************************************************)
EXTENDS Integers, Sequences, FiniteSets

CONSTANTS
    Elements,       \* identifiers of all the elements, nested ones included
    Flows,          \* identifiers of all the sequence flows
    El,             \* El[e] : the element e, see ElementRecord
    Target,         \* Target[f] : the element the flow f leads to
    Guarded,        \* the flows that carry a condition expression
    StartEvents,    \* the startEventId of each definition
    Names,          \* message names, signal names and error codes
    None            \* an absent optional field

TaskTypes == {"serviceTask", "userTask", "scriptTask", "manualTask"}

ElementTypes == TaskTypes \cup
    { "startEvent", "endEvent", "intermediateCatchEvent", "intermediateThrowEvent",
      "boundaryEvent", "exclusiveGateway", "parallelGateway", "inclusiveGateway",
      "eventBasedGateway", "subProcess", "callActivity" }

EventKinds == { "none", "timer", "message", "signal", "error", "cancel",
                "compensation", "terminate" }

ElementRecord ==
    [ type   : ElementTypes,
      event  : EventKinds,                \* eventDefinition.type
      name   : Names \cup {None},         \* messageName, signalName or errorCode
      out    : Seq(Flows),                \* outgoingFlows, in declaration order
      default: Flows \cup {None},         \* defaultFlow of a gateway
      within : Elements \cup {None},      \* the enclosing sub-process
      host   : Elements \cup {None},      \* attachedToRef of a boundary event
      cancels: BOOLEAN,                   \* cancelActivity of a boundary event
      bound  : Seq(Elements),             \* the boundary events attached to it, but for
                                          \* compensation boundaries
      undo   : Elements \cup {None},      \* handler named by its compensation boundary
      ref    : Elements \cup {None},      \* compensationActivityRef of a throw event
      undoes : BOOLEAN,                   \* isForCompensation
      loop   : {"none", "seq", "par"},    \* loopCharacteristics.isSequential
      stops  : BOOLEAN,                   \* loopCharacteristics.completionCondition
      tx     : BOOLEAN,                   \* isTransaction
      start  : Elements \cup {None} ]     \* startEventId of a sub-process

ASSUME DefinitionAssumption ==
    /\ El \in [Elements -> ElementRecord]
    /\ Target \in [Flows -> Elements]
    /\ Guarded \subseteq Flows
    /\ StartEvents \subseteq Elements
    /\ IsFiniteSet(Flows)
    /\ None \notin Elements \cup Flows
    /\ \A e \in Elements : El[e].type = "subProcess" => El[e].start \in Elements
    /\ \A e \in Elements : \A i \in DOMAIN El[e].bound :
            /\ El[El[e].bound[i]].type = "boundaryEvent"
            /\ El[El[e].bound[i]].event # "compensation"

----------------------------------------------------------------------------
\* The set of the flows an element lists as outgoing.
Outgoing(e) == {El[e].out[i] : i \in DOMAIN El[e].out}

\* getIncomingFlows
IncomingFlows == [e \in Elements |-> {f \in Flows : Target[f] = e}]
Incoming(e) == IncomingFlows[e]

\* The enumerations of the index set I in increasing order: there is exactly one.
Ascending(I) ==
    {p \in [1..Cardinality(I) -> I] : \A i, j \in DOMAIN p : i < j => p[i] < p[j]}

\* The outgoing flows of a gateway that are always true: neither the default nor guarded.
Unconditional(g) == {f \in Outgoing(g) : f # El[g].default /\ f \notin Guarded}

\* evaluateExclusiveSplit: what the gateway may select, for some outcome of its conditions.
\* The first true flow in declaration order wins; the default flow is the last resort.
ExclusiveChoices(g) ==
    LET out == El[g].out
        before(i) == {out[j] : j \in 1..(i - 1)}
    IN  {out[i] : i \in {k \in DOMAIN out : /\ out[k] # El[g].default
                                            /\ before(k) \cap Unconditional(g) = {}}}
        \cup (IF Unconditional(g) = {} /\ El[g].default # None THEN {El[g].default} ELSE {})

\* evaluateExclusiveSplit and evaluateInclusiveSplit throw when nothing matches and there
\* is no default flow.
NoFlowCanMatch(g) ==
    /\ Unconditional(g) = {}
    /\ El[g].default = None

\* evaluateInclusiveSplit: the sets of flows some outcome of the conditions activates.
InclusiveChoices(g) ==
    {A \in SUBSET (Outgoing(g) \ {El[g].default}) : Unconditional(g) \subseteq A /\ A # {}}
    \cup (IF Unconditional(g) = {} /\ El[g].default # None THEN {{El[g].default}} ELSE {})

\* findInclusiveJoinIncoming: the top-level inclusive joins with an activated flow among
\* their own incoming flows.  Only flows that lead straight from the split to the join are
\* looked at.  The code takes the first declared of them; the order of elements is left out.
InclusiveJoins(activated) ==
    {g \in Elements : /\ El[g].type = "inclusiveGateway"
                      /\ El[g].within = None
                      /\ Cardinality(Incoming(g)) > 1
                      /\ activated \cap Incoming(g) # {}}

\* validateEventBasedGateway: it reads the top-level elements and flows of the definition
\* only, so a gateway inside a sub-process is always refused.
EventGatewayValid(g) ==
    /\ El[g].out # << >>
    /\ El[g].within = None
    /\ \A f \in Outgoing(g) : /\ El[Target[f]].type = "intermediateCatchEvent"
                              /\ El[Target[f]].event \in {"message", "signal", "timer"}

\* findMatchingErrorBoundary: an exact code first, then a catch-all, each the first declared.
ErrorBoundary(e, code) ==
    LET errors(name) == {i \in DOMAIN El[e].bound :
                            /\ El[El[e].bound[i]].event = "error"
                            /\ El[El[e].bound[i]].name = name}
        first(S) == {El[e].bound[i] : i \in {k \in S : \A j \in S : k <= j}}
    IN  IF errors(code) # {} THEN first(errors(code)) ELSE first(errors(None))

\* Event definitions the engine knows how to wait for; others make it throw.
Awaitable(e) ==
    CASE El[e].type = "intermediateCatchEvent" -> El[e].event \in {"timer", "message", "signal"}
      [] El[e].type = "boundaryEvent" ->
            El[e].event \in {"timer", "message", "signal", "error", "cancel"}
      [] OTHER -> TRUE

=============================================================================
