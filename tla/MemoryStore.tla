----------------------------- MODULE MemoryStore -----------------------------
(***************************************************************************)
(* The store of the engine kept in memory: tables of entries by key, and   *)
(* transactions that apply their operations one after another, with        *)
(* nothing to undo them.  This is what the engine's own tests run against; *)
(* PostgresStore shows that the database does the same with the same       *)
(* transactions.                                                           *)
(***************************************************************************)
EXTENDS Naturals, Sequences

CONSTANTS
    Keys,       \* ids of rows
    Absent      \* no row

VARIABLES
    memory,     \* the tables, the version of each instance, and how often an entry was appended
    batch       \* the transaction that was executed last

memoryVars == << memory, batch >>

Tables == {"definitions", "instances", "tokens", "scopes", "userTasks", "subscriptions", "gatewayStates", "timers"}
Appended == {"history", "compensationRecords"}

\* The table an operation is about.
TableOfOp == [
    saveDefinition |-> "definitions", createInstance |-> "instances", updateInstance |-> "instances",
    saveTokens |-> "tokens", saveScope |-> "scopes", createUserTask |-> "userTasks",
    updateUserTask |-> "userTasks", saveSubscription |-> "subscriptions",
    deleteSubscription |-> "subscriptions", saveGatewayState |-> "gatewayStates",
    deleteGatewayState |-> "gatewayStates", appendHistory |-> "history", saveTimer |-> "timers",
    deleteTimer |-> "timers", saveCompensationRecord |-> "compensationRecords",
    deleteCompensationRecord |-> "compensationRecords"]

\* An operation: what, of which row, the value it writes, and the version the instance was read with.
Op(what, k, v, n) == [op |-> what, key |-> k, value |-> v, version |-> n]
Write(what, k, v) == Op(what, k, v, 0)
Delete(what, k) == Op(what, k, Absent, 0)

NothingStored ==
    [rows |-> [t \in Tables |-> [k \in Keys |-> Absent]],
     version |-> [k \in Keys |-> 0],
     times |-> [t \in Appended |-> [k \in Keys |-> 0]]]

MemoryInit == memory = NothingStored /\ batch = << >>

----------------------------------------------------------------------------
\* saveX, deleteX and updateUserTask: the entry of the key is replaced, whether or not there is one.
Replaced(m, o) == [m EXCEPT !.rows[TableOfOp[o.op]][o.key] = o.value]

CreatedInstance(m, o) == [Replaced(m, o) EXCEPT !.version[o.key] = 1]

\* updateInstance throws if somebody wrote since it was read.
MemoryConflict(m, o) == o.op = "updateInstance" /\ m.version[o.key] # 0 /\ m.version[o.key] # o.version
UpdatedInstance(m, o) == [Replaced(m, o) EXCEPT !.version[o.key] = @ + 1]

AppendedTo(m, o) == [m EXCEPT !.times[TableOfOp[o.op]][o.key] = @ + 1]
Filtered(m, o) == [m EXCEPT !.times[TableOfOp[o.op]][o.key] = 0]

MemoryApply(m, o) ==
    CASE o.op = "createInstance" -> CreatedInstance(m, o)
      [] o.op = "updateInstance" -> UpdatedInstance(m, o)
      [] o.op \in {"appendHistory", "saveCompensationRecord"} -> AppendedTo(m, o)
      [] o.op = "deleteCompensationRecord" -> Filtered(m, o)
      [] OTHER -> Replaced(m, o)

\* executeTransaction: operation by operation; the one that throws ends it, and what was done stays.
MemoryStep(acc, o) ==
    IF acc.thrown \/ MemoryConflict(acc.m, o) THEN [acc EXCEPT !.thrown = TRUE]
    ELSE [acc EXCEPT !.m = MemoryApply(acc.m, o)]

MemoryRun(m, ops) ==
    LET after[i \in 0..Len(ops)] ==
            IF i = 0 THEN [m |-> m, thrown |-> FALSE] ELSE MemoryStep(after[i - 1], ops[i])
    IN  after

ExecuteTransaction == memory' = MemoryRun(memory, batch')[Len(batch')].m

MemorySpec == MemoryInit /\ [][ExecuteTransaction]_memoryVars
=============================================================================
