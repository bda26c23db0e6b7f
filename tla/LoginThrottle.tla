---------------------------- MODULE LoginThrottle ----------------------------
(***************************************************************************)
(* How sign-ins are held back.  Every attempt is counted against several   *)
(* guards: its account at its address, its account, its address.  All of   *)
(* them are asked and take the attempt in at once; the password is checked *)
(* later, and the outcome is reported to each.  The guards live in tables  *)
(* of bounded size, in memory.                                             *)
(***************************************************************************)
EXTENDS Naturals, FiniteSets

CONSTANTS
    Attempts,       \* the sign-ins people try, right or wrong
    Guards,         \* the keys they are counted under, of all tables
    Uses(_),        \* Uses(a): the guards of an attempt
    Narrow(_),      \* Narrow(a): the one for the account at the address, which a success clears
    Tables,         \* a partition of Guards: one LoginThrottle object each
    MaxFailures(_), \* MaxFailures(g): failures that lock
    MaxKeys         \* the most keys a table holds

VARIABLES
    entry,      \* what is tracked of each guard
    attempt,    \* new, checking, right, wrong or refused
    disturbed,  \* guards whose entry was dropped, or that forgot an attempt under way
    locks       \* guards locked by failures whose time is not over

ASSUME ThrottleAssumption ==
    /\ \A a \in Attempts : Uses(a) \subseteq Guards /\ Narrow(a) \in Uses(a)
    /\ UNION Tables = Guards /\ \A T, U \in Tables : T # U => T \cap U = {}
    /\ \A g \in Guards : MaxFailures(g) \in Nat \ {0}
    /\ MaxKeys \in Nat

throttleVars == << entry, attempt, disturbed, locks >>

Untracked == [tracked |-> FALSE, failures |-> 0, pending |-> {}, locked |-> FALSE]
Fresh == [Untracked EXCEPT !.tracked = TRUE]
TableOf(g) == CHOOSE T \in Tables : g \in T
Tracked(T) == {g \in T : entry[g].tracked}
InUse(g) == entry[g].failures + Cardinality(entry[g].pending)

ThrottleInit ==
    /\ entry = [g \in Guards |-> Untracked]
    /\ attempt = [a \in Attempts |-> "new"]
    /\ disturbed = {} /\ locks = {}

----------------------------------------------------------------------------
CanMakeRoom(T) == \E g \in Tracked(T) : ~entry[g].locked

\* Mutant: attempts under way take up no capacity.
MayBeginBroken(g) ==
    IF entry[g].tracked THEN ~entry[g].locked /\ entry[g].failures < MaxFailures(g)
    ELSE Cardinality(Tracked(TableOf(g))) < MaxKeys \/ CanMakeRoom(TableOf(g))

\* check: not locked, and below the limit counting what is under way; a new key needs room.
MayBegin(g) ==
    IF entry[g].tracked THEN ~entry[g].locked /\ InUse(g) < MaxFailures(g)
    ELSE Cardinality(Tracked(TableOf(g))) < MaxKeys \/ CanMakeRoom(TableOf(g))

Stale(g) == ~entry[g].locked /\ InUse(g) = 0

\* Mutant: the oldest go, locked or not.
VictimsBroken(T) == IF Cardinality(Tracked(T)) < MaxKeys THEN {{}} ELSE {{g} : g \in Tracked(T)}

\* makeRoom: all stale entries go, then unlocked ones until there is room; which are the oldest is
\* left open.  Never a lock.
Victims(T) ==
    IF Cardinality(Tracked(T)) < MaxKeys THEN {{}}
    ELSE LET stale == {g \in Tracked(T) : Stale(g)}
             unlocked == {g \in Tracked(T) : ~entry[g].locked}
         IN IF stale # {} \/ unlocked = {} THEN {stale} ELSE {{g} : g \in unlocked}

\* What makeRoom may drop so that the untracked guards of an attempt can be entered.
Droppings(a) ==
    LET missing(T) == \E g \in T \cap Uses(a) : ~entry[g].tracked IN
    {dropped \in SUBSET Guards :
        \A T \in Tables : IF missing(T) THEN dropped \cap T \in Victims(T) ELSE dropped \cap T = {}}

HasRoom(T, dropped) == Cardinality(Tracked(T) \ dropped) < MaxKeys
EntryFor(g) == IF entry[g].tracked THEN entry[g] ELSE Fresh
Kept(g, dropped) == IF g \in dropped THEN Untracked ELSE entry[g]
Disturbs(dropped) == {g \in dropped : InUse(g) > 0}

\* POST /auth/login, steps 1 and 2: checked by all, then taken in by all; no other request between.
Begin(a) ==
    /\ attempt[a] = "new" /\ \A g \in Uses(a) : MayBegin(g)
    /\ attempt' = [attempt EXCEPT ![a] = "checking"]
    /\ \E dropped \in Droppings(a) :
        /\ entry' = [g \in Guards |->
             IF g \in Uses(a) THEN [EntryFor(g) EXCEPT !.pending = @ \cup {a}] ELSE Kept(g, dropped)]
        /\ disturbed' = disturbed \cup Disturbs(dropped)
    /\ UNCHANGED locks

Refuse(a) ==
    /\ attempt[a] = "new" /\ \E g \in Uses(a) : ~MayBegin(g)
    /\ attempt' = [attempt EXCEPT ![a] = "refused"]
    /\ UNCHANGED << entry, disturbed, locks >>

\* settle, then addFailure: the entry may be gone, and there may be no room for a new one.
Fail(a) ==
    /\ attempt[a] = "checking"
    /\ attempt' = [attempt EXCEPT ![a] = "wrong"]
    /\ \E dropped \in Droppings(a) :
        LET counts(g) == g \in Uses(a) /\ (entry[g].tracked \/ HasRoom(TableOf(g), dropped))
            after(g) == [EntryFor(g) EXCEPT !.pending = @ \ {a}, !.failures = @ + 1]
            over == {g \in Guards : counts(g) /\ after(g).failures >= MaxFailures(g)}
        IN /\ entry' = [g \in Guards |->
                IF g \in over THEN [after(g) EXCEPT !.failures = 0, !.locked = TRUE]
                ELSE IF counts(g) THEN after(g) ELSE Kept(g, dropped)]
           /\ locks' = locks \cup over
           /\ disturbed' = disturbed \cup Disturbs(dropped)

\* releaseAll and, for a right password, recordSuccess on the narrow guard; our own failure releases only.
Succeed(a) ==
    /\ attempt[a] = "checking"
    /\ attempt' = [attempt EXCEPT ![a] = "right"]
    /\ \E clears \in {{}, {Narrow(a)}} :
        entry' = [g \in Guards |->
            LET left == entry[g].pending \ {a} IN
            IF g \in clears /\ ~entry[g].locked
            THEN IF left = {} THEN Untracked ELSE [entry[g] EXCEPT !.pending = left, !.failures = 0]
            ELSE [entry[g] EXCEPT !.pending = left]]
    /\ UNCHANGED << disturbed, locks >>

----------------------------------------------------------------------------
\* windowMs has gone by since a failure, lockMs since a lock, pendingTtlMs since an attempt began.
FailureFades(g) ==
    /\ entry[g].failures > 0
    /\ entry' = [entry EXCEPT ![g].failures = @ - 1]
    /\ UNCHANGED << attempt, disturbed, locks >>

LockEnds(g) ==
    /\ entry[g].locked
    /\ entry' = [entry EXCEPT ![g].locked = FALSE]
    /\ locks' = locks \ {g}
    /\ UNCHANGED << attempt, disturbed >>

AttemptForgotten(g) ==
    /\ \E a \in entry[g].pending : entry' = [entry EXCEPT ![g].pending = @ \ {a}]
    /\ disturbed' = disturbed \cup {g}
    /\ UNCHANGED << attempt, locks >>

ThrottleNext ==
    \/ \E a \in Attempts : Begin(a) \/ Refuse(a) \/ Fail(a) \/ Succeed(a)
    \/ \E g \in Guards : FailureFades(g) \/ LockEnds(g) \/ AttemptForgotten(g)

ThrottleSpec == ThrottleInit /\ [][ThrottleNext]_throttleVars

----------------------------------------------------------------------------
\* Types: a guard that is not tracked holds nothing.
ThrottleTypeOK ==
    /\ entry \in [Guards -> [tracked : BOOLEAN, failures : Nat, pending : SUBSET Attempts, locked : BOOLEAN]]
    /\ \A g \in Guards : ~entry[g].tracked => entry[g] = Untracked
    /\ attempt \in [Attempts -> {"new", "checking", "right", "wrong", "refused"}]
    /\ disturbed \subseteq Guards /\ locks \subseteq Guards

\* The two promises of LoginThrottle: failures and attempts under way together never pass the limit,
\* however many requests come at once, unless the entry was dropped or an attempt took too long; and
\* filling the table never frees a guard that is locked.
LimitHolds ==
    \A g \in Guards :
        /\ g \notin disturbed => InUse(g) <= MaxFailures(g)
        /\ g \in locks => entry[g].tracked /\ entry[g].locked
=============================================================================
