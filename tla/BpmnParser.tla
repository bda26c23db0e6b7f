----------------------------- MODULE BpmnParser -----------------------------
(***************************************************************************)
(* From a BPMN document to the definition the engine walks                 *)
(* (BpmnXmlParser.ts).  Elements and flows are numbered in document order. *)
(* The parser knows some element types and drops the others with all they  *)
(* contain, marks default flows, and validates the top level only; nothing *)
(* below a sub-process is looked at, nor whether what an element lists as  *)
(* <outgoing> is a flow.  The engine finds elements and flows by name, in  *)
(* the whole tree, when a token comes to them.  The author edits a         *)
(* document and deploys it, even while an instance runs: the version is    *)
(* always 1, so the definition is replaced under it.  Sub-processes do     *)
(* not nest further here.                                                  *)
(***************************************************************************)
EXTENDS Naturals, FiniteSets, FiniteSetsExt

CONSTANTS Drawing,     \* the document before the first edit
          MaxEdits,    \* edits and deployments before the last edit
          MaxDeployments

Ids == DOMAIN Drawing.tag
FlowIds == DOMAIN Drawing.flow
Root == 0                          \* also: no element, no flow
EventTags == {"timer", "message", "compensation", "terminate"}
Nesting == {"subProcess", "transaction"}
Known == {"startEvent", "endEvent", "event", "boundaryEvent", "task", "gateway"} \cup Nesting
Tags == Known \cup {"sendTask"}    \* sendTask: any element type the parser does not know

\* A document as such: lists name flows or nothing, flows join elements, and an element that nests is in the process.
Documents ==
    [tag : [Ids -> Tags], in : [Ids -> Ids \cup {Root}], lists : [Ids -> SUBSET FlowIds],
     default : [Ids -> FlowIds \cup {Root}], event : [Ids -> SUBSET EventTags], host : [Ids -> Ids \cup {Root}],
     flow : [FlowIds -> [in : Ids \cup {Root}, from : Ids, to : Ids, guarded : BOOLEAN, drawn : BOOLEAN]]]

ASSUME DrawingAssumption ==
    /\ IsFiniteSet(Ids) /\ Ids = 1..Cardinality(Ids)
    /\ IsFiniteSet(FlowIds) /\ FlowIds = 1..Cardinality(FlowIds)
    /\ Drawing \in Documents /\ \A i \in Ids : Drawing.tag[i] \in Nesting => Drawing.in[i] = Root

VARIABLES document,    \* the author's document
          deployed,    \* the definition of version 1 with its source, and how often one was deployed
          token,       \* where the instance is: the element, and whether it is done there
          replaced,    \* the definition was replaced under the instance
          edits

parserVars == << document, deployed, token, replaced, edits >>

-----------------------------------------------------------------------------
(* Parsing                                                                  *)

\* What the parser finds at a level of the document: the process, or a sub-process.
Level(d, l) == {i \in Ids : d.tag[i] \in Known /\ d.in[i] = l}
Subs(d) == {i \in Level(d, Root) : d.tag[i] \in Nesting}
Parsed(d) == Level(d, Root) \cup UNION {Level(d, i) : i \in Subs(d)}
LevelFlows(d, l) == {f \in FlowIds : d.flow[f].in = l /\ d.flow[f].drawn}
ParsedFlows(d) == LevelFlows(d, Root) \cup UNION {LevelFlows(d, i) : i \in Subs(d)}

\* parseEventDefinition: the first of these that is there, in this order.
EventOf(tags) ==
    CASE "timer" \in tags -> "timer"
      [] "timer" \notin tags /\ "message" \in tags -> "message"
      [] tags \cap {"timer", "message"} = {} /\ "terminate" \in tags -> "terminate"
      [] tags = {"compensation"} -> "compensation"
      [] OTHER -> "none"

\* The first start event of a level.
StartOf(d, l) ==
    LET starts == {i \in Level(d, l) : d.tag[i] = "startEvent"}
    IN  IF starts = {} THEN Root ELSE Min(starts)

\* Flows of the process that a gateway of the process names; of no other level.
Marked(d) == LevelFlows(d, Root) \cap {d.default[g] : g \in {i \in Level(d, Root) : d.tag[i] = "gateway"}}

Default(d, i) == IF d.tag[i] = "gateway" THEN d.default[i] ELSE Root
Host(d, i) == IF d.tag[i] = "boundaryEvent" THEN d.host[i] ELSE Root

\* What every element has, beside what its type adds; a task has nothing else that matters here.
Base(d, i, event, default, host, start) ==
    [type |-> d.tag[i], out |-> d.lists[i], in |-> d.in[i],
     event |-> event, default |-> default, host |-> host, start |-> start]

ParseElement(d, i) ==
    Base(d, i, EventOf(d.event[i]), Default(d, i), Host(d, i), IF d.tag[i] \in Nesting THEN StartOf(d, i) ELSE Root)

ParseFlow(d, f) ==
    [in |-> d.flow[f].in, from |-> d.flow[f].from, to |-> d.flow[f].to,
     guarded |-> d.flow[f].guarded, isDefault |-> f \in Marked(d)]

ErrorsBroken(d) ==
    LET top == Level(d, Root)
    IN  (IF StartOf(d, Root) = Root THEN {"MISSING_START_EVENT"} ELSE {})
        \cup (IF \E f \in LevelFlows(d, Root) : d.flow[f].from \notin top THEN {"UNRESOLVED_FLOW_SOURCE"} ELSE {})

\* validate
Errors(d) ==
    LET top == Level(d, Root)
    IN  (IF StartOf(d, Root) = Root THEN {"MISSING_START_EVENT"} ELSE {})
        \cup (IF top # {} /\ \A i \in top : d.tag[i] # "endEvent" THEN {"MISSING_END_EVENT"} ELSE {})
        \cup (IF \E f \in LevelFlows(d, Root) : d.flow[f].from \notin top THEN {"UNRESOLVED_FLOW_SOURCE"} ELSE {})
        \cup (IF \E f \in LevelFlows(d, Root) : d.flow[f].to \notin top THEN {"UNRESOLVED_FLOW_TARGET"} ELSE {})

Parse(d, n) ==
    [elements |-> [i \in Parsed(d) |-> ParseElement(d, i)], flows |-> [f \in ParsedFlows(d) |-> ParseFlow(d, f)],
     start |-> StartOf(d, Root), isDeployable |-> Errors(d) = {}, deploys |-> n,
     source |-> d]

-----------------------------------------------------------------------------
(* The author                                                               *)

\* An edit commutes with the steps of a token, so only those made while none walks are followed.
Edited(d) ==
    /\ d # document /\ token.state = "none" /\ edits + deployed.deploys < MaxEdits /\ edits' = edits + 1 /\ document' = d
    /\ UNCHANGED << deployed, token, replaced >>

\* One element or flow of the document is changed, by hand or with an editor; an attribute only where the parser reads it.
EditsElement(i) ==
    \/ \E t \in Tags : (t \in Nesting => document.in[i] = Root) /\ Edited([document EXCEPT !.tag[i] = t])
    \/ \E l \in Subs(document) \cup {Root} : i \notin Subs(document) /\ Edited([document EXCEPT !.in[i] = l])
    \/ document.tag[i] \in {"endEvent", "event", "boundaryEvent"} /\ \E k \in EventTags : Edited([document EXCEPT !.event[i] = (@ \ {k}) \cup ({k} \ @)])
    \/ \E f \in FlowIds : Edited([document EXCEPT !.lists[i] = (@ \ {f}) \cup ({f} \ @)])
    \/ document.tag[i] = "gateway" /\ \E f \in FlowIds : Edited([document EXCEPT !.default[i] = f])
    \/ document.tag[i] = "boundaryEvent" /\ \E h \in Ids : Edited([document EXCEPT !.host[i] = h])

EditsFlow(f) ==
    \/ \E i \in Ids : Edited([document EXCEPT !.flow[f].from = i, !.lists[document.flow[f].from] = @ \ {f}])
    \/ \E i \in Ids : Edited([document EXCEPT !.flow[f].to = i])
    \/ \E l \in Subs(document) \cup {Root} : Edited([document EXCEPT !.flow[f].in = l])
    \/ Edited([document EXCEPT !.flow[f].guarded = ~ @])
    \/ Edited([document EXCEPT !.flow[f].drawn = ~ @])

Away == [at |-> Root, left |-> FALSE, state |-> "none"]

\* POST of the document: what the parser returns is saved with its errors, in place of what was there.
Deploys ==
    /\ deployed.deploys < MaxDeployments
    /\ deployed' = Parse(document, deployed.deploys + 1)
    /\ replaced' = (token.state # "none")
    /\ UNCHANGED << document, token, edits >>

-----------------------------------------------------------------------------
(* The engine on the parsed definition: the path of one token               *)

Element(i) == deployed.elements[i]
Found(i) == i \in DOMAIN deployed.elements
FoundFlow(f) == f \in DOMAIN deployed.flows

\* findFlowsBySource: those of the process if it has any, otherwise those of a sub-process.
FlowsFrom(i) ==
    LET of(l) == {f \in DOMAIN deployed.flows : deployed.flows[f].in = l /\ deployed.flows[f].from = i}
    IN  IF of(Root) # {} THEN of(Root) ELSE UNION {of(l) : l \in DOMAIN deployed.elements}

\* The flow a gateway leaves for last, and what it may select (evaluateExclusiveSplit).
LastResortBroken(g) == {f \in FlowsFrom(g) : deployed.flows[f].isDefault}
LastResort(g) == {f \in FlowsFrom(g) : f = Element(g).default \/ deployed.flows[f].isDefault}
Selects(g) ==
    LET open == FlowsFrom(g) \ LastResort(g)
        sure == {f \in open : ~deployed.flows[f].guarded}
    IN  {f \in open : \A s \in sure : f <= s}
        \cup (IF sure = {} /\ LastResort(g) # {} THEN {Max(LastResort(g))} ELSE {})

Comes(i) == token' = IF Found(i) THEN [at |-> i, left |-> FALSE, state |-> "walks"] ELSE [token EXCEPT !.state = "lost"]
Takes(f) == IF FoundFlow(f) THEN Comes(deployed.flows[f].to) ELSE token' = [token EXCEPT !.state = "lost"]

Passes(i) ==
    IF Element(i).out = {} THEN token' = Away ELSE \E f \in Element(i).out : Takes(f)

Begins ==
    /\ token.state = "none" /\ deployed.deploys > 0 /\ replaced' = FALSE
    /\ Comes(deployed.start)
    /\ UNCHANGED << document, deployed, edits >>

Walks ==
    /\ token.state = "walks"
    /\ LET i == token.at
       IN  IF ~Found(i) THEN token' = [token EXCEPT !.state = "lost"]
           ELSE \/ /\ Element(i).type = "gateway"
                   /\ IF Selects(i) = {} THEN token' = [token EXCEPT !.state = "lost"] ELSE \E f \in Selects(i) : Takes(f)
                \/ /\ Element(i).type \in Nesting
                   /\ IF token.left THEN Passes(i) ELSE Comes(Element(i).start)
                \/ /\ Element(i).type = "endEvent"
                   /\ token' = IF Element(i).in = Root \/ Element(i).event = "terminate" THEN Away
                               ELSE [at |-> Element(i).in, left |-> TRUE, state |-> "walks"]
                \/ /\ Element(i).type \in {"startEvent", "event", "boundaryEvent", "task"}
                   /\ Passes(i)
                \* a boundary event of the element fires: it, or a token beside it, goes on there
                \/ \E b \in DOMAIN deployed.elements :
                      /\ Element(b).host = i /\ Element(b).event # "compensation"
                      /\ Element(i).type \in {"task"} \cup Nesting /\ Comes(b)
    /\ UNCHANGED << document, deployed, replaced, edits >>

NoDefinition == [elements |-> << >>, flows |-> << >>, start |-> Root, isDeployable |-> FALSE, deploys |-> 0, source |-> Drawing]

ParserInit ==
    /\ document = Drawing /\ deployed = NoDefinition /\ token = Away /\ replaced = FALSE /\ edits = 0

ParserNext ==
    \/ \E i \in Ids : EditsElement(i)
    \/ \E f \in FlowIds : EditsFlow(f)
    \/ Deploys \/ Begins \/ Walks

ParserSpec == ParserInit /\ [][ParserNext]_parserVars

-----------------------------------------------------------------------------
ParserTypeOK ==
    /\ \A i \in DOMAIN deployed.elements :
          /\ Element(i).type \in Known /\ Element(i).event \in EventTags \cup {"none"}
          /\ Element(i).default \in FlowIds \cup {Root} /\ Element(i).host \in Ids \cup {Root}
          /\ Element(i).start # Root => Element(Element(i).start).in = i
    /\ deployed.start # Root => Element(deployed.start).in = Root

\* What the parser leaves to the author: sub-processes that start and whose flows lead to known elements, lists that
\* name flows, gateways with a flow that can be taken.
Trusted ==
    /\ \A i \in DOMAIN deployed.elements :
          /\ Element(i).type \in Nesting => Element(i).start # Root
          /\ Element(i).type # "gateway" => \A f \in Element(i).out : FoundFlow(f)
          /\ Element(i).type = "gateway" => Selects(i) # {}
    /\ \A f \in DOMAIN deployed.flows : deployed.flows[f].in # Root => Found(deployed.flows[f].to)

\* No error of the parser and no slip it does not look for: a token never comes to an element or a flow that the
\* engine does not find, unless the definition was replaced while the instance ran.
WalksResolve == token.state = "lost" => ~deployed.isDeployable \/ ~Trusted \/ replaced

\* A gateway leaves for last the flow it names as default, in a sub-process too, where the parser marks nothing.
DefaultsServe ==
    \A g \in DOMAIN deployed.elements :
        Element(g).type = "gateway" /\ deployed.source.default[g] \in FlowsFrom(g)
        => deployed.source.default[g] \in LastResort(g)
=============================================================================
