--------------------------- MODULE CommitProtocol ---------------------------
(***************************************************************************)
(* How routes, workers, timers and signals run cycles on one instance at   *)
(* the same time.  Each of them reads the instance with one query per      *)
(* part, runs the engine on what it read, and writes the outcome in one    *)
(* transaction that fails if the version of the instance is no longer the  *)
(* one it read first.  Routes answer 409 then; the others load the         *)
(* instance again and try once more, a few times.  Events are published    *)
(* after the transaction.  All of it runs in one process, which may stop   *)
(* at any moment.                                                          *)
(***************************************************************************)
EXTENDS Naturals, Sequences, FiniteSets

CONSTANTS
    Requests,           \* the cycles somebody starts
    Kind(_),            \* who starts it: "route", "worker", "timer" or "signal"
    ReadOrder,          \* the queries of loadEngineState, in their order
    Values,             \* Values[p]: what part p may hold
    Content0,           \* the instance as it was created
    Execute(_, _),      \* Execute(a, c): the outcomes of a's command on c, none if it is refused
    MaxCommitAttempts   \* MAX_COMMIT_ATTEMPTS

VARIABLES
    content,    \* the rows of the instance
    version,    \* the column instances.version
    pc,         \* how far each request is
    base,       \* the version that came with the instance row
    seen,       \* the parts as they were read
    reads,      \* how many parts were read in this attempt
    attempt,    \* the attempts of this request
    done        \* the requests that took effect

vars == << content, version, pc, base, seen, reads, attempt, done >>

Parts == {ReadOrder[i] : i \in 1..Len(ReadOrder)}
Content == {c \in [Parts -> UNION {Values[p] : p \in Parts}] : \A p \in Parts : c[p] \in Values[p]}

ASSUME CommitAssumption ==
    /\ IsFiniteSet(Requests)
    /\ ReadOrder \in Seq(Parts) /\ Len(ReadOrder) > 0
    /\ Content0 \in Content
    /\ \A a \in Requests : \A c \in Content : Execute(a, c) \subseteq Content
    /\ MaxCommitAttempts \in Nat \ {0}

\* Routes write every part (computeStoreOps); workers and timers never write the
\* compensation records their cycle made or used up (their own buildStoreOps).
Writes(a) == IF Kind(a) \in {"worker", "timer"} THEN Parts \ {"compensations"} ELSE Parts
Written(a, r) == [p \in Parts |-> IF p \in Writes(a) THEN r[p] ELSE content[p]]

\* Routes leave it to the client to try again (conflictAwareErrorHandler).
Retries(a) == Kind(a) \in {"worker", "timer", "signal"}

\* Mutants: one attempt too many; one too few.
TriesTooOften(a) == Retries(a) /\ attempt[a] <= MaxCommitAttempts
TriesTooRarely(a) == Retries(a) /\ attempt[a] + 1 < MaxCommitAttempts

\* May the cycle be run once more after a conflict?
TriesAgain(a) == Retries(a) /\ attempt[a] < MaxCommitAttempts

InFlight == {"loading", "publishing"}
Ended == {"ok", "refused", "conflict", "gaveUp", "lost"}

----------------------------------------------------------------------------
Init ==
    /\ content = Content0 /\ version = 0
    /\ pc = [a \in Requests |-> "new"]
    /\ base = [a \in Requests |-> 0]
    /\ seen = [a \in Requests |-> Content0]
    /\ reads = [a \in Requests |-> 0]
    /\ attempt = [a \in Requests |-> 1]
    /\ done = {}

\* Somebody sends the request, the event arrives, the timer is due.
Receive(a) ==
    /\ pc[a] = "new"
    /\ pc' = [pc EXCEPT ![a] = "loading"]
    /\ UNCHANGED << content, version, base, seen, reads, attempt, done >>

\* Mutant: the version is the one of the last query.
ReadBroken(a) ==
    /\ pc[a] = "loading" /\ reads[a] < Len(ReadOrder)
    /\ seen' = [seen EXCEPT ![a][ReadOrder[reads[a] + 1]] = content[ReadOrder[reads[a] + 1]]]
    /\ reads' = [reads EXCEPT ![a] = @ + 1]
    /\ base' = [base EXCEPT ![a] = version]
    /\ UNCHANGED << content, version, pc, attempt, done >>

\* Mutant: the last query is never sent.
ReadTooFew(a) ==
    /\ pc[a] = "loading" /\ reads[a] + 1 < Len(ReadOrder)
    /\ LET p == ReadOrder[reads[a] + 1] IN
        /\ seen' = [seen EXCEPT ![a][p] = content[p]]
        /\ reads' = [reads EXCEPT ![a] = @ + 1]
        /\ base' = [base EXCEPT ![a] = IF reads[a] = 0 THEN version ELSE @]
    /\ UNCHANGED << content, version, pc, attempt, done >>

\* One query of loadEngineState.  The first one brings the version along.
Read(a) ==
    /\ pc[a] = "loading" /\ reads[a] < Len(ReadOrder)
    /\ LET p == ReadOrder[reads[a] + 1] IN
        /\ seen' = [seen EXCEPT ![a][p] = content[p]]
        /\ reads' = [reads EXCEPT ![a] = @ + 1]
        /\ base' = [base EXCEPT ![a] = IF reads[a] = 0 THEN version ELSE @]
    /\ UNCHANGED << content, version, pc, attempt, done >>

\* What a request knows goes with it when it ends or loads again.
Forget(A) ==
    /\ base' = [a \in Requests |-> IF a \in A THEN 0 ELSE base[a]]
    /\ seen' = [a \in Requests |-> IF a \in A THEN Content0 ELSE seen[a]]
    /\ reads' = [a \in Requests |-> IF a \in A THEN 0 ELSE reads[a]]

Loaded(a) == pc[a] = "loading" /\ reads[a] = Len(ReadOrder)

\* The engine refuses the command: a route answers 422, the others drop it.
Refuse(a) ==
    /\ Loaded(a) /\ Execute(a, seen[a]) = {}
    /\ pc' = [pc EXCEPT ![a] = "refused"]
    /\ Forget({a})
    /\ UNCHANGED << content, version, attempt, done >>

\* The engine runs on what was read, and the transaction goes through.
Commit(a) ==
    /\ Loaded(a) /\ version = base[a]
    /\ \E r \in Execute(a, seen[a]) : content' = Written(a, r)
    /\ version' = version + 1
    /\ done' = done \cup {a}
    /\ pc' = [pc EXCEPT ![a] = "publishing"]
    /\ Forget({a})
    /\ UNCHANGED attempt

\* Somebody else committed since the instance row was read: nothing is written.
Conflict(a) ==
    /\ Loaded(a) /\ version # base[a] /\ Execute(a, seen[a]) # {}
    /\ IF TriesAgain(a)
       THEN attempt' = [attempt EXCEPT ![a] = @ + 1] /\ UNCHANGED pc
       ELSE pc' = [pc EXCEPT ![a] = IF Retries(a) THEN "gaveUp" ELSE "conflict"] /\ UNCHANGED attempt
    /\ Forget({a})
    /\ UNCHANGED << content, version, done >>

\* The handlers of the event hub get the events, and the caller its answer.
Publish(a) ==
    /\ pc[a] = "publishing"
    /\ pc' = [pc EXCEPT ![a] = "ok"]
    /\ UNCHANGED << content, version, base, seen, reads, attempt, done >>

\* The process stops: whatever was under way is gone, what was committed stays.
Crash ==
    /\ \E a \in Requests : pc[a] \in InFlight
    /\ pc' = [a \in Requests |-> IF pc[a] \in InFlight THEN "lost" ELSE pc[a]]
    /\ Forget({a \in Requests : pc[a] \in InFlight})
    /\ UNCHANGED << content, version, attempt, done >>

Step(a) == Read(a) \/ Refuse(a) \/ Commit(a) \/ Conflict(a) \/ Publish(a)

Next == Crash \/ \E a \in Requests : Receive(a) \/ Step(a)

\* A request that is under way goes on: queries return, promises are resumed.
Fairness == \A a \in Requests : WF_vars(Step(a))

Spec == Init /\ [][Next]_vars /\ Fairness

----------------------------------------------------------------------------
TypeOK ==
    /\ content \in Content /\ version \in Nat
    /\ pc \in [Requests -> {"new"} \cup InFlight \cup Ended]
    /\ base \in [Requests -> Nat]
    /\ seen \in [Requests -> Content]
    /\ reads \in [Requests -> 0..Len(ReadOrder)]
    /\ attempt \in [Requests -> 1..MaxCommitAttempts]
    /\ done \subseteq Requests

\* Commands take effect as if they were sent one after another, each on the whole state the
\* one before it left, although loadEngineState reads the parts at different moments.
Serial == INSTANCE SerialInstance WITH
    Requests <- Requests, Parts <- Parts, Content0 <- Content0, Execute <- Execute, Writes <- Writes,
    content <- content, done <- done
Serializable == Serial!Spec

\* A request that ends in a conflict lost to others who committed while it was under way, once
\* in every attempt: 409 and giving up are never the answer to a command that was alone.
LosesOnlyToOthers ==
    \A a \in Requests : pc[a] \in {"conflict", "gaveUp"} =>
        Cardinality(done \ {a}) >= IF pc[a] = "gaveUp" THEN MaxCommitAttempts ELSE 1

\* Nothing stays under way for ever: no request loads again and again because of the others,
\* every conflict is answered, and a command that took effect gets to publishing its events.
EveryRequestEnds == []<>(\A a \in Requests : pc[a] \notin InFlight)
=============================================================================
