-------------------------- MODULE MCCommitProtocol --------------------------
(***************************************************************************)
(* One instance of a process with a service task a and a user task b in    *)
(* parallel, joined at the end; b has an interrupting timer, a can be      *)
(* compensated.  A worker completes a, a route completes b, the timer of b *)
(* fires and a route cancels the instance, all at the same time.           *)
(*                                                                         *)
(* Beside it, each in behaviours of its own: what the requests leave in    *)
(* the tables beside the state (UserTasks), the tables themselves          *)
(* (PostgresStore), and where the definitions come from (BpmnParser).  The *)
(* four share no state, so only the part chosen at the start moves and     *)
(* their states add up.                                                    *)
(***************************************************************************)
EXTENDS CommitProtocol, UserTasks, PostgresStore, BpmnParser

MCRequests == {"work", "complete", "timeout", "cancel"}
MCKind(a) == IF a = "work" THEN "worker" ELSE IF a = "timeout" THEN "timer" ELSE "route"

\* The status of the instance: sets, like the values of the other parts.
Active == {"active"}
Completed == {"completed"}
Terminated == {"terminated"}

MCReadOrder == << "instance", "tokens", "joins", "compensations" >>

MCValues == [p \in Parts |->
    IF p = "instance" THEN {Active, Completed, Terminated}
    ELSE IF p = "compensations" THEN SUBSET {"a"} ELSE SUBSET {"a", "b"}]

MCContent0 == [p \in Parts |->
    IF p = "instance" THEN Active ELSE IF p = "tokens" THEN {"a", "b"} ELSE {}]

TaskOf(a) == IF a = "work" THEN "a" ELSE "b"

\* The task is left towards the join, which fires when the other branch has arrived.
Complete(t, c) ==
    [p \in Parts |->
        CASE p = "instance" -> IF c["joins"] \cup {t} = {"a", "b"} THEN Completed ELSE c[p]
          [] p = "tokens" -> c[p] \ {t}
          [] p = "joins" -> IF c[p] \cup {t} = {"a", "b"} THEN {} ELSE c[p] \cup {t}
          [] p = "compensations" -> IF t = "a" THEN c[p] \cup {t} ELSE c[p]]

Cancel(c) == [c EXCEPT !["instance"] = Terminated, !["tokens"] = {}, !["joins"] = {}]

MCExecute(a, c) ==
    IF c["instance"] # Active THEN {}
    ELSE IF a = "cancel" THEN {Cancel(c)}
    ELSE IF TaskOf(a) \in c["tokens"] THEN {Complete(TaskOf(a), c)} ELSE {}

\* A start, a sub-process with a gateway between its start and its end, an end.
MCFlow(in, from, to) == [in |-> in, from |-> from, to |-> to, guarded |-> FALSE, drawn |-> TRUE]
MCDrawing ==
    [tag     |-> << "startEvent", "subProcess", "startEvent", "gateway", "endEvent", "endEvent" >>,
     in      |-> << 0, 0, 2, 2, 2, 0 >>,
     lists   |-> << {1}, {2}, {3}, {4}, {}, {} >>,
     default |-> << 0, 0, 0, 4, 0, 0 >>,
     event   |-> [i \in 1..6 |-> {}], host |-> [i \in 1..6 |-> 0],
     flow    |-> << MCFlow(0, 1, 2), MCFlow(0, 2, 6), MCFlow(2, 3, 4), MCFlow(2, 4, 5) >>]

VARIABLE part

StoresInit ==
    /\ part \in {"commit", "tasks", "store", "parser"}
    /\ Init /\ UserTasksInit /\ PostgresInit /\ ParserInit

StoresNext ==
    /\ UNCHANGED part
    /\ \/ part = "commit" /\ Next /\ UNCHANGED << userTaskVars, postgresVars, parserVars >>
       \/ part = "tasks" /\ UserTasksNext /\ UNCHANGED << vars, postgresVars, parserVars >>
       \/ part = "store" /\ PostgresNext /\ UNCHANGED << vars, userTaskVars, parserVars >>
       \/ part = "parser" /\ ParserNext /\ UNCHANGED << vars, userTaskVars, postgresVars >>

storesVars == << part, vars, userTaskVars, postgresVars, parserVars >>

\* In the other parts no request is ever sent, so that the fairness asks nothing of them.
StoresSpec == StoresInit /\ [][StoresNext]_storesVars /\ Fairness

\* Types of what is stored.
StoresTypeOK == TypeOK /\ UserTasksTypeOK /\ PostgresTypeOK /\ ParserTypeOK

\* A definition in use stays, and one that the parser passes can be walked.
DefinitionsServe == DefinitionsStay /\ WalksResolve /\ DefaultsServe
=============================================================================
