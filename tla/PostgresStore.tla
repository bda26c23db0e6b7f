---------------------------- MODULE PostgresStore ----------------------------
(***************************************************************************)
(* The same store in a tenant's schema, and the cycles that use it: each   *)
(* client loads an instance, and sends what it derives from the outcome of *)
(* the engine as one database transaction.  Statements insert, upsert or   *)
(* update rows under the constraints of the schema; an error rolls the     *)
(* transaction back.  Tokens are written as they are, and read back        *)
(* without the state of a loop (reviveToken).                              *)
(***************************************************************************)
EXTENDS Naturals, Sequences, FiniteSets

CONSTANTS
    Clients,        \* routes, workers and timers
    StoredTokens,   \* the tokens there ever are, in the order of their creation
    TheInstance,    \* the instance
    Absent,
    NotLoaded

VARIABLES
    rows,       \* the tables
    versions,   \* instances.version
    entries,    \* history_entries and compensation_records: tables with a primary key, written once
    loaded,     \* what each client has loaded
    batch       \* the transaction that was executed last

postgresVars == << rows, versions, entries, loaded, batch >>

StoredIds == StoredTokens \cup {TheInstance}

Memory == INSTANCE MemoryStore WITH
    Keys <- StoredIds, Absent <- Absent, batch <- batch,
    memory <- [rows |-> rows, version |-> versions,
               times |-> [t \in {"history", "compensationRecords"} |->
                            [k \in StoredIds |-> IF k \in entries[t] THEN 1 ELSE 0]]]

Write(what, k, v) == Memory!Write(what, k, v)
Delete(what, k) == Memory!Delete(what, k)
Table(o) == Memory!TableOfOp[o.op]
State == [rows |-> rows, version |-> versions, entries |-> entries]

PostgresInit ==
    /\ rows = [t \in Memory!Tables |-> [k \in StoredIds |-> Absent]]
    /\ versions = [k \in StoredIds |-> 0]
    /\ entries = [t \in Memory!Appended |-> {}]
    /\ loaded = [c \in Clients |-> NotLoaded]
    /\ batch = << >>

\* "No row" is no value a row can have; tokens are numbered in the order of their creation.
ASSUME PostgresAssumption ==
    /\ Absent \notin {"waiting", "looping", "over", "open", "completed", "active"}
    /\ StoredTokens \subseteq Nat /\ IsFiniteSet(StoredTokens)

----------------------------------------------------------------------------
(* One statement: the state after it, or an error *)

Put(s, o) == [s EXCEPT !.rows[Table(o)][o.key] = o.value]
Error == [error |-> TRUE]
Fails(s) == s = Error

\* INSERT ... ON CONFLICT DO UPDATE.
SaveDefinitionWith(s, o) == Put(s, o)
SaveTokensWith(s, o) == Put(s, o)
SaveScopeWith(s, o) == Put(s, o)
SaveSubscriptionWith(s, o) == Put(s, o)
SaveGatewayStateWith(s, o) == Put(s, o)
SaveTimerWith(s, o) == Put(s, o)

\* DELETE ... WHERE id.
DeleteSubscriptionWith(s, o) == Put(s, o)
DeleteGatewayStateWith(s, o) == Put(s, o)
DeleteTimerWith(s, o) == Put(s, o)

\* INSERT: the primary key refuses a second row.
CreateUserTaskWith(s, o) == IF s.rows["userTasks"][o.key] = Absent THEN Put(s, o) ELSE Error

\* UPDATE ... WHERE id: no row, no change.
UpdateUserTaskWith(s, o) == IF s.rows["userTasks"][o.key] = Absent THEN s ELSE Put(s, o)

\* Mutant: the row is written whatever version it is at.
UpdateInstanceWithBroken(s, o) ==
    IF s.version[o.key] = 0 THEN s ELSE [Put(s, o) EXCEPT !.version[o.key] = @ + 1]

\* updateInstanceWith: only while the row is at the version it was read with; a row that is there but
\* at another version is a ConcurrentModificationError.
UpdateInstanceWith(s, o) ==
    IF s.version[o.key] = o.version THEN [Put(s, o) EXCEPT !.version[o.key] = @ + 1]
    ELSE IF s.version[o.key] = 0 THEN s ELSE Error

CreateInstanceWith(s, o) == IF s.version[o.key] # 0 THEN Error ELSE [Put(s, o) EXCEPT !.version[o.key] = 1]

\* INSERT ... ON CONFLICT DO NOTHING.
AppendHistoryWith(s, o) == [s EXCEPT !.entries["history"] = @ \cup {o.key}]
SaveCompensationRecordWith(s, o) == [s EXCEPT !.entries["compensationRecords"] = @ \cup {o.key}]
DeleteCompensationRecordWith(s, o) == [s EXCEPT !.entries["compensationRecords"] = @ \ {o.key}]

ApplyOp(s, o) ==
    CASE o.op = "saveDefinition" -> SaveDefinitionWith(s, o)
      [] o.op = "createInstance" -> CreateInstanceWith(s, o)
      [] o.op = "updateInstance" -> UpdateInstanceWith(s, o)
      [] o.op = "saveTokens" -> SaveTokensWith(s, o)
      [] o.op = "saveScope" -> SaveScopeWith(s, o)
      [] o.op = "createUserTask" -> CreateUserTaskWith(s, o)
      [] o.op = "updateUserTask" -> UpdateUserTaskWith(s, o)
      [] o.op = "saveSubscription" -> SaveSubscriptionWith(s, o)
      [] o.op = "deleteSubscription" -> DeleteSubscriptionWith(s, o)
      [] o.op = "saveGatewayState" -> SaveGatewayStateWith(s, o)
      [] o.op = "deleteGatewayState" -> DeleteGatewayStateWith(s, o)
      [] o.op = "appendHistory" -> AppendHistoryWith(s, o)
      [] o.op = "saveTimer" -> SaveTimerWith(s, o)
      [] o.op = "deleteTimer" -> DeleteTimerWith(s, o)
      [] o.op = "saveCompensationRecord" -> SaveCompensationRecordWith(s, o)
      [] o.op = "deleteCompensationRecord" -> DeleteCompensationRecordWith(s, o)

\* The statements of a transaction one after another; after the first error none has an effect.
PostgresStep(s, o) == IF Fails(s) THEN s ELSE ApplyOp(s, o)

PostgresRun(s, ops) ==
    LET after[i \in 0..Len(ops)] == IF i = 0 THEN s ELSE PostgresStep(after[i - 1], ops[i]) IN after

\* executeTransaction: all of it or nothing.
ExecuteTransaction(ops) ==
    LET after == PostgresRun(State, ops)[Len(ops)] IN
    /\ batch' = ops
    /\ IF Fails(after) THEN UNCHANGED << rows, versions, entries >>
       ELSE rows' = after.rows /\ versions' = after.version /\ entries' = after.entries

----------------------------------------------------------------------------
(* What clients send *)

Tok(s, status) == {t \in StoredTokens : s.rows["tokens"][t] = status}
Next1(s) == {t \in Tok(s, Absent) : \A u \in Tok(s, Absent) : t <= u}

\* A token comes to wait: for a user, for a message, for a timer, for other branches at a join, or for
\* the items of a sequential multi-instance activity, with the state of the loop.
Waits == {"user", "message", "timer", "join", "items"}
Arrives(t, for) ==
    CASE for = "user" -> << Write("saveTokens", t, "waiting"), Write("createUserTask", t, "open") >>
      [] for = "message" -> << Write("saveTokens", t, "waiting"), Write("saveSubscription", t, "active") >>
      [] for = "timer" -> << Write("saveTokens", t, "waiting"), Write("saveTimer", t, "active") >>
      [] for = "join" -> << Write("saveTokens", t, "waiting"), Write("saveGatewayState", TheInstance, "active") >>
      [] for = "items" -> << Write("saveTokens", t, "looping") >>

\* Mutant: only the visits of user tasks leave a step.
DeriveHistoryBroken(s, t) ==
    IF s.rows["userTasks"][t] = Absent THEN << >> ELSE << Write("appendHistory", t, "over") >>

\* deriveHistory: one entry for the visit that ended in this cycle.
DeriveHistory(s, t) == << Write("appendHistory", t, "over") >>

\* computeStoreOps for a cycle in which t moves on: the instance first, then what changed.
ComputeStoreOps(s, t) ==
    << Memory!Op("updateInstance", TheInstance, "active", s.version[TheInstance]),
       Write("saveTokens", t, "over"), Write("saveScope", TheInstance, "active") >>
    \o (IF s.rows["gatewayStates"][TheInstance] # Absent THEN << Delete("deleteGatewayState", TheInstance) >> ELSE << >>)
    \o (IF s.rows["subscriptions"][t] # Absent THEN << Delete("deleteSubscription", t) >> ELSE << >>)
    \o (IF s.rows["timers"][t] # Absent THEN << Delete("deleteTimer", t) >> ELSE << >>)
    \o DeriveHistory(s, t)

\* The lists of the elements of S, in their order.
Listings(S) ==
    {q \in [1..Cardinality(S) -> S] :
        /\ \A u \in S : \E i \in DOMAIN q : q[i] = u
        /\ \A i, j \in DOMAIN q : i < j => q[i] < q[j]}

\* saveTokens writes every token of the instance: those that did not move as they were read.
SavedAgain(s, t) ==
    {[i \in DOMAIN q |-> Write("saveTokens", q[i], "waiting")] : q \in Listings(Tok(s, "waiting") \ {t})}

\* The activity it leaves can be compensated, or what was recorded before is used up.
Compensations(s, t) ==
    {<< >>, << Write("saveCompensationRecord", t, "over") >>} \cup
    {<< Delete("deleteCompensationRecord", u) >> : u \in s.entries["compensationRecords"]}

Start ==
    /\ versions[TheInstance] = 0
    /\ \E t \in Next1(State), for \in Waits :
        ExecuteTransaction(<< Write("createInstance", TheInstance, "active"), Write("saveScope", TheInstance, "active"),
                              Write("saveDefinition", TheInstance, "active") >> \o Arrives(t, for))
    /\ UNCHANGED loaded

\* reviveToken takes over the fields it names; loopState is not one of them.
Revived(s) ==
    [s EXCEPT !.rows["tokens"] =
        [k \in StoredIds |-> IF s.rows["tokens"][k] = "looping" THEN "waiting" ELSE s.rows["tokens"][k]]]

\* loadEngineState.
Load(c) ==
    /\ versions[TheInstance] # 0 /\ loaded[c] = NotLoaded
    /\ loaded' = [loaded EXCEPT ![c] = Revived(State)]
    /\ batch' = << >>
    /\ UNCHANGED << rows, versions, entries >>

\* The engine runs on what was loaded, and what it derives is sent.
RunOn(s) ==
    \E t \in Tok(s, "waiting"), arrival \in {<< >>} \cup {Arrives(u, for) : u \in Next1(s), for \in Waits} :
    \E k \in Compensations(s, t), again \in SavedAgain(s, t) :
        LET task == IF s.rows["userTasks"][t] # Absent THEN << Write("updateUserTask", t, "completed") >> ELSE << >>
        IN ExecuteTransaction(ComputeStoreOps(s, t) \o again \o k \o arrival \o task)

\* A client that meets a conflict loads again.
Cycle(c) ==
    /\ loaded[c] # NotLoaded
    /\ RunOn(loaded[c])
    /\ loaded' = [loaded EXCEPT ![c] = NotLoaded]

\* Claiming and releasing write a record that was read, without touching the instance.
Claim(c) ==
    /\ loaded[c] # NotLoaded
    /\ \E t \in StoredTokens : loaded[c].rows["userTasks"][t] # Absent
                                /\ ExecuteTransaction(<< Write("updateUserTask", t, "open") >>)
    /\ loaded' = [loaded EXCEPT ![c] = NotLoaded]

PostgresNext == Start \/ \E c \in Clients : Load(c) \/ Cycle(c) \/ Claim(c)

PostgresSpec == PostgresInit /\ [][PostgresNext]_postgresVars

----------------------------------------------------------------------------
\* Types; every token that is over left its step in the history, whoever moved it.
PostgresTypeOK ==
    /\ rows \in [Memory!Tables -> [StoredIds -> {Absent, "waiting", "looping", "over", "open", "completed", "active"}]]
    /\ versions \in [StoredIds -> Nat]
    /\ entries \in [Memory!Appended -> SUBSET StoredIds]
    /\ \A t \in StoredTokens : rows["tokens"][t] = "over" <=> t \in entries["history"]

\* Both stores do the same with the transactions they are given: what commits, what conflicts and what is
\* there afterwards; although one of them upserts where the other updates, appends where the other
\* inserts once, and cannot roll back.  This is about what is written.  What an engine reads is not the
\* same: the memory store hands a token out as it was written, the database without the state of its
\* loop (Revived), and the next transaction takes it out of the tables as well.
CommitsLikeMemory == Memory!MemorySpec
=============================================================================
