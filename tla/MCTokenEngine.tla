---------------------------- MODULE MCTokenEngine ----------------------------
(***************************************************************************)
(* Process definitions for checking the engine, each with the elements     *)
(* whose interplay is at stake, and small enough to explore every order of *)
(* commands.  A configuration deploys several of them side by side.        *)
(***************************************************************************)
EXTENDS TokenEngineProperties, TLC

Node == [ type |-> "serviceTask", event |-> "none", name |-> None, out |-> << >>,
          default |-> None, within |-> None, host |-> None, cancels |-> FALSE,
          bound |-> << >>, undo |-> None, ref |-> None, undoes |-> FALSE,
          loop |-> "none", stops |-> FALSE, tx |-> FALSE, start |-> None ]

Start(f) == [Node EXCEPT !.type = "startEvent", !.out = << f >>]
End == [Node EXCEPT !.type = "endEvent"]
Service(f) == [Node EXCEPT !.out = << f >>]
User(f) == [Node EXCEPT !.type = "userTask", !.out = << f >>]
Gateway(kind, out) == [Node EXCEPT !.type = kind \o "Gateway", !.out = out]
Catch(event, name, f) ==
    [Node EXCEPT !.type = "intermediateCatchEvent", !.event = event, !.name = name, !.out = << f >>]
Boundary(event, name, host, cancels, f) ==
    [Node EXCEPT !.type = "boundaryEvent", !.event = event, !.name = name, !.host = host,
                 !.cancels = cancels, !.out = << f >>]
Handler == [Node EXCEPT !.undoes = TRUE]
ThrowUndo(ref, f) ==
    [Node EXCEPT !.type = "intermediateThrowEvent", !.event = "compensation", !.ref = ref,
                 !.out = << f >>]
Inside(sp, node) == [node EXCEPT !.within = sp]

\* Two tasks in parallel, repeated until a check is satisfied.
ReworkEl ==
    "rework.start" :> Start("r1") @@ "rework.merge" :> Gateway("exclusive", << "r2" >>)
    @@ "rework.split" :> Gateway("parallel", << "r3", "r4" >>)
    @@ "a" :> Service("r5") @@ "b" :> User("r6")
    @@ "rework.join" :> Gateway("parallel", << "r7" >>)
    @@ "rework.check" :> [Gateway("exclusive", << "r8", "r9" >>) EXCEPT !.default = "r9"]
    @@ "rework.end" :> End
ReworkTarget ==
    "r1" :> "rework.merge" @@ "r2" :> "rework.split" @@ "r3" :> "a" @@ "r4" :> "b"
    @@ "r5" :> "rework.join"
    @@ "r6" :> "rework.join" @@ "r7" :> "rework.check" @@ "r8" :> "rework.merge"
    @@ "r9" :> "rework.end"

\* A review that expires and is then asked for again, with a reminder that does not interrupt
\* it, next to a charge that may be declined.
ReviewEl ==
    "review.start" :> Start("v1") @@ "review.split" :> Gateway("parallel", << "v2", "v3" >>)
    @@ "review.ask" :> Gateway("exclusive", << "v10" >>)
    @@ "review" :> [User("v4") EXCEPT !.bound = << "expire", "remind" >>]
    @@ "expire" :> Boundary("timer", None, "review", TRUE, "v5")
    @@ "remind" :> Boundary("timer", None, "review", FALSE, "v6")
    @@ "notify" :> [Node EXCEPT !.type = "scriptTask", !.out = << "v7" >>]
    @@ "charge" :> [Service("v8") EXCEPT !.bound = << "declined", "failed", "slow" >>]
    @@ "declined" :> Boundary("error", "no", "charge", TRUE, "v9")
    @@ "failed" :> Boundary("error", "m", "charge", TRUE, "v12")
    @@ "slow" :> Boundary("timer", None, "charge", TRUE, "v11")
    @@ "review.end" :> End
ReviewTarget ==
    "v1" :> "review.split" @@ "v2" :> "review.ask" @@ "v3" :> "charge"
    @@ "v4" :> "review.end" @@ "v5" :> "review.ask"
    @@ "v6" :> "notify" @@ "v7" :> "review.end" @@ "v8" :> "review.end" @@ "v9" :> "notify"
    @@ "v10" :> "review" @@ "v11" :> "review.end" @@ "v12" :> "review.end"

\* A race between a timer, a message and a signal that is run again when the timer wins,
\* next to a wait for the same message.
RaceEl ==
    "race.start" :> Start("a1") @@ "race.split" :> Gateway("parallel", << "a2", "a3" >>)
    @@ "race.again" :> Gateway("exclusive", << "a12" >>)
    @@ "race" :> Gateway("eventBased", << "a4", "a5", "a6" >>)
    @@ "timeout" :> Catch("timer", None, "a7")
    @@ "paid" :> Catch("message", "m", "a8")
    @@ "recall" :> Catch("signal", "m", "a9")
    @@ "copy" :> Catch("message", "m", "a10")
    @@ "note" :> [Node EXCEPT !.type = "manualTask", !.out = << "a11" >>]
    @@ "race.end" :> End
RaceTarget ==
    "a1" :> "race.split" @@ "a2" :> "race.again" @@ "a3" :> "copy" @@ "a4" :> "timeout"
    @@ "a5" :> "paid"
    @@ "a6" :> "recall" @@ "a7" :> "note" @@ "a8" :> "race.end" @@ "a9" :> "race.end"
    @@ "a10" :> "race.end"
    @@ "a11" :> "race.again" @@ "a12" :> "race"

\* Two activities that can be undone, and two throw events that compete for their records.
SagaEl ==
    "saga.start" :> Start("s1") @@ "saga.split" :> Gateway("parallel", << "s2", "s3", "s4" >>)
    @@ "book" :> [Service("s5") EXCEPT !.undo = "unbook"]
    @@ "pay" :> [User("s6") EXCEPT !.undo = "refund"]
    @@ "unbook" :> Handler
    @@ "refund" :> [Handler EXCEPT !.type = "userTask"]
    @@ "wait" :> Catch("timer", None, "s7")
    @@ "saga.join" :> Gateway("parallel", << "s8" >>)
    @@ "undoAll" :> ThrowUndo(None, "s9")
    @@ "undoBook" :> ThrowUndo("book", "s10")
    @@ "saga.end" :> End
SagaTarget ==
    "s1" :> "saga.split" @@ "s2" :> "book" @@ "s3" :> "pay" @@ "s4" :> "wait"
    @@ "s5" :> "saga.join"
    @@ "s6" :> "saga.join" @@ "s7" :> "undoBook" @@ "s8" :> "undoAll" @@ "s9" :> "saga.end"
    @@ "s10" :> "saga.end"

\* A panel that votes in parallel until it is settled or late, then one task per item in
\* turn, and perhaps all over again; a throw event with nothing to undo is passed on the way.
PanelEl ==
    "panel.start" :> Start("p1") @@ "panel.merge" :> Gateway("exclusive", << "p5" >>)
    @@ "vote" :> [User("p2") EXCEPT !.loop = "par", !.stops = TRUE, !.bound = << "late" >>]
    @@ "late" :> Boundary("timer", None, "vote", TRUE, "p3")
    @@ "handle" :> [Service("p4") EXCEPT !.loop = "seq", !.stops = TRUE]
    @@ "panel.check" :> [Gateway("exclusive", << "p6", "p7" >>) EXCEPT !.default = "p7"]
    @@ "panel.again" :> User("p9")
    @@ "signed" :> [Node EXCEPT !.type = "intermediateThrowEvent", !.out = << "p8" >>]
    @@ "panel.end" :> End
PanelTarget ==
    "p1" :> "panel.merge" @@ "p2" :> "handle" @@ "p3" :> "panel.check"
    @@ "p4" :> "panel.check" @@ "p5" :> "vote"
    @@ "p6" :> "panel.again" @@ "p9" :> "panel.merge" @@ "p7" :> "signed" @@ "p8" :> "panel.end"

\* Two embedded sub-processes: one forks inside, with a task under a time limit and manual
\* work per item, the other waits for a user.
ScopesEl ==
    "scopes.start" :> Start("o1") @@ "scopes.split" :> Gateway("parallel", << "o2", "o3" >>)
    @@ "one" :> [Service("o4") EXCEPT !.type = "subProcess", !.start = "scopes.s1"]
    @@ "scopes.s1" :> Inside("one", Start("og1"))
    @@ "scopes.fork" :> Inside("one", Gateway("parallel", << "og2", "og3" >>))
    @@ "x" :> Inside("one", [Service("og4") EXCEPT !.bound = << "bx" >>])
    @@ "bx" :> Inside("one", Boundary("timer", None, "x", TRUE, "og5"))
    @@ "y" :> Inside("one", [Service("og6") EXCEPT !.type = "manualTask", !.loop = "seq"])
    @@ "scopes.e1" :> Inside("one", End)
    @@ "two" :> [Service("o5") EXCEPT !.type = "subProcess", !.start = "scopes.s2", !.tx = TRUE]
    @@ "scopes.s2" :> Inside("two", Start("oh1"))
    @@ "z" :> Inside("two", User("oh2"))
    @@ "scopes.e2" :> Inside("two", End)
    @@ "scopes.join" :> Gateway("parallel", << "o6" >>) @@ "scopes.end" :> End
ScopesTarget ==
    "o1" :> "scopes.split" @@ "o2" :> "one" @@ "o3" :> "two" @@ "o4" :> "scopes.join"
    @@ "o5" :> "scopes.join"
    @@ "o6" :> "scopes.end" @@ "og1" :> "scopes.fork" @@ "og2" :> "x" @@ "og3" :> "y"
    @@ "og4" :> "scopes.e1"
    @@ "og5" :> "scopes.e1" @@ "og6" :> "scopes.e1" @@ "oh1" :> "z" @@ "oh2" :> "scopes.e2"

\* A transaction with two activities that can be undone and one that is under way when it is
\* cancelled, next to a branch outside of it.
TransactionEl ==
    "tx.start" :> Start("t1") @@ "tx.split" :> Gateway("parallel", << "t2", "t3" >>)
    @@ "tx" :> [Service("t4") EXCEPT !.type = "subProcess", !.start = "tx.s", !.tx = TRUE,
                                     !.bound = << "cancelled" >>]
    @@ "cancelled" :> Boundary("cancel", None, "tx", TRUE, "t5")
    @@ "tx.s" :> Inside("tx", Start("tg1"))
    @@ "tx.fork" :> Inside("tx", Gateway("parallel", << "tg2", "tg3" >>))
    @@ "pick" :> Inside("tx", [Service("tg4") EXCEPT !.undo = "unpick"])
    @@ "pack" :> Inside("tx", [User("tg6") EXCEPT !.undo = "unpack"])
    @@ "hold" :> Inside("tx", User("tg5"))
    @@ "unpick" :> Inside("tx", Handler) @@ "unpack" :> Inside("tx", Handler)
    @@ "abandon" :> Inside("tx", [End EXCEPT !.event = "cancel"])
    @@ "tx.stop" :> Inside("tx", End)
    @@ "ship" :> Service("t6") @@ "tx.join" :> Gateway("parallel", << "t7" >>)
    @@ "tx.end" :> End
TransactionTarget ==
    "t1" :> "tx.split" @@ "t2" :> "tx" @@ "t3" :> "ship" @@ "t4" :> "tx.end"
    @@ "t5" :> "tx.join"
    @@ "t6" :> "tx.join" @@ "t7" :> "tx.end" @@ "tg1" :> "tx.fork" @@ "tg2" :> "pick"
    @@ "tg3" :> "hold"
    @@ "tg4" :> "pack" @@ "tg5" :> "tx.stop" @@ "tg6" :> "abandon"

\* Inclusive branches that lead straight to their join, an exclusive gateway that may match
\* nothing, and an end event that stops what else is waiting.
ChoicesEl ==
    "choices.start" :> Start("c1") @@ "choices.fork" :> Gateway("parallel", << "c2", "c9" >>)
    @@ "choices.ask" :> User("c10")
    @@ "or" :> [Gateway("inclusive", << "c3", "c4", "c5" >>) EXCEPT !.default = "c5"]
    @@ "orJoin" :> Gateway("inclusive", << "c6" >>)
    @@ "xor" :> Gateway("exclusive", << "c7", "c8" >>)
    @@ "choices.stop" :> [End EXCEPT !.event = "terminate"]
    @@ "watch" :> [Service("c11") EXCEPT !.bound = << "soon" >>]
    @@ "soon" :> Boundary("timer", None, "watch", FALSE, "c12")
    @@ "choices.end" :> End
ChoicesTarget ==
    "c1" :> "choices.fork" @@ "c2" :> "choices.ask" @@ "c3" :> "orJoin" @@ "c4" :> "orJoin"
    @@ "c5" :> "orJoin"
    @@ "c6" :> "xor" @@ "c7" :> "choices.stop" @@ "c8" :> "choices.end" @@ "c9" :> "watch"
    @@ "c10" :> "or"
    @@ "c11" :> "choices.end" @@ "c12" :> "choices.end"

----------------------------------------------------------------------------
\* Definitions that end, provided their tasks and timers do.
EndingEl == ScopesEl @@ TransactionEl
EndingTarget == ScopesTarget @@ TransactionTarget
EndingElements == DOMAIN EndingEl
EndingFlows == DOMAIN EndingTarget

\* All of them.
AllEl == EndingEl @@ SagaEl @@ ReworkEl @@ ReviewEl @@ RaceEl @@ PanelEl @@ ChoicesEl
AllTarget == EndingTarget @@ SagaTarget @@ ReworkTarget @@ ReviewTarget @@ RaceTarget
                @@ PanelTarget @@ ChoicesTarget
AllElements == DOMAIN AllEl
AllFlows == DOMAIN AllTarget

=============================================================================
