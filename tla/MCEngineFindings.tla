--------------------------- MODULE MCEngineFindings ---------------------------
(***************************************************************************)
(* Process definitions on which the engine does otherwise than its          *)
(* documents, comments or tests say.  Each configuration checks the one     *)
(* property that the quoted text claims.                                    *)
(***************************************************************************)
EXTENDS MCTokenEngine

\* A task with an interrupting message boundary event and a timer.
RecallEl ==
    "start" :> Start("f1")
    @@ "work" :> [User("f2") EXCEPT !.bound = << "recall", "late" >>]
    @@ "recall" :> Boundary("message", "m", "work", TRUE, "f3")
    @@ "late" :> Boundary("timer", None, "work", TRUE, "f4")
    @@ "undo" :> Service("f5") @@ "end" :> End
RecallTarget ==
    "f1" :> "work" @@ "f2" :> "end" @@ "f3" :> "undo" @@ "f4" :> "end" @@ "f5" :> "end"
RecallElements == DOMAIN RecallEl
RecallFlows == DOMAIN RecallTarget

\* A transaction with a cancel boundary event that is not cancelled.
HappyEl ==
    "start" :> Start("f1")
    @@ "tx" :> [Service("f2") EXCEPT !.type = "subProcess", !.start = "s", !.tx = TRUE,
                                     !.bound = << "cancelled" >>]
    @@ "cancelled" :> Boundary("cancel", None, "tx", TRUE, "f3")
    @@ "s" :> Inside("tx", Start("g1")) @@ "pay" :> Inside("tx", User("g2"))
    @@ "stop" :> Inside("tx", End) @@ "end" :> End
HappyTarget ==
    "f1" :> "tx" @@ "f2" :> "end" @@ "f3" :> "end" @@ "g1" :> "pay" @@ "g2" :> "stop"
HappyElements == DOMAIN HappyEl
HappyFlows == DOMAIN HappyTarget

\* Inclusive branches with a task on each before they are joined.
BranchesEl ==
    "start" :> Start("f1") @@ "or" :> Gateway("inclusive", << "f2", "f3" >>)
    @@ "a" :> Service("f4") @@ "b" :> User("f5")
    @@ "orJoin" :> Gateway("inclusive", << "f6" >>) @@ "end" :> End
BranchesTarget ==
    "f1" :> "or" @@ "f2" :> "a" @@ "f3" :> "b" @@ "f4" :> "orJoin" @@ "f5" :> "orJoin"
    @@ "f6" :> "end"
BranchesElements == DOMAIN BranchesEl
BranchesFlows == DOMAIN BranchesTarget

\* One service task per item, in turn.
QueueEl ==
    "start" :> Start("f1") @@ "work" :> [Service("f2") EXCEPT !.loop = "seq"] @@ "end" :> End
QueueTarget == "f1" :> "work" @@ "f2" :> "end"
QueueElements == DOMAIN QueueEl
QueueFlows == DOMAIN QueueTarget

=============================================================================
