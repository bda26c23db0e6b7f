---------------------------- MODULE MCTaskWorker ----------------------------
(***************************************************************************)
(* One service task of a tenant, worked on by its workers one after the    *)
(* other; and the console, in which a person signs in, looks at the        *)
(* instances and pushes steps along.  They share no state: one of them is  *)
(* chosen at the start and only that one moves, so that their states add   *)
(* up instead of multiplying.                                              *)
(***************************************************************************)
EXTENDS TaskWorker, ConsoleSession, ConsoleInstances

CONSTANTS t1, w1, w2, p1, p2

OneToken == {t1}
OneWorker == {w1}
TwoWorkers == {w1, w2}

MCVisitors == {p1, p2}
MCStepKind == << "external", "timer" >>

\* The list of instances is not left, or one instance is looked at and nothing is done in the list.
MCInList == detail'.id = 0
MCInDetail == list'.newest <= 1 /\ acts' = {} /\ list'.confirming = {}

VARIABLE part

WorkInit ==
    /\ part \in {"worker", "session", "list", "detail"}
    /\ Init /\ ConsoleInit /\ InstancesInit
    /\ part = "session" \/ (jar = NoCookie /\ ~keyHeld /\ keyGood)
    /\ part = "list" \/ inst[2].status = "absent"

WorkNext ==
    /\ UNCHANGED part
    /\ \/ part = "worker" /\ Next /\ UNCHANGED << consoleVars, instancesVars >>
       \/ part = "session" /\ ConsoleNext /\ UNCHANGED << vars, instancesVars >>
       \/ part = "list" /\ InstancesNext /\ MCInList /\ UNCHANGED << vars, consoleVars >>
       \/ part = "detail" /\ InstancesNext /\ MCInDetail /\ UNCHANGED << vars, consoleVars >>

WorkSpec == WorkInit /\ [][WorkNext]_<< part, vars, consoleVars, instancesVars >> /\ (part = "worker" => Fairness)

\* The worker alone.
WorkerSpec == WorkInit /\ part = "worker" /\ [][WorkNext]_<< part, vars, consoleVars, instancesVars >> /\ Fairness

\* The console shows who is signed in, the list that was asked for, what a pushed step came to and the newest answer.
ConsoleShowsTheTruth ==
    /\ ConsoleTypeOK /\ InstancesTypeOK
    /\ ConsoleShowsTheServer /\ ListKeepsUp /\ ForcingTellsTheTruth /\ ViewIsTheNewest
=============================================================================
