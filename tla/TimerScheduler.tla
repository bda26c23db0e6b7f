--------------------------- MODULE TimerScheduler ---------------------------
(***************************************************************************)
(* How the timers of one tenant fire.  A token that waits for a timer is   *)
(* announced once its cycle is committed; TimerCoordinator then saves a    *)
(* row for it, and deletes the row when the token is cancelled or fired by *)
(* hand.  PostgresScheduler polls for the rows that are due, deletes each  *)
(* of them and then lets TimerCoordinator run the engine.  A poll does not *)
(* wait for the one before, and the sets of workers of a tenant that come  *)
(* one after another may overlap.  The rows outlive the process.           *)
(*                                                                         *)
(* A whole cycle is one step here: see CommitProtocol and SerialInstance.  *)
(***************************************************************************)
EXTENDS Integers, FiniteSets

CONSTANTS
    Tokens,     \* tokens that wait for a timer
    MaxSets,    \* bound: the sets of workers the tenant has, one after another
    MaxPolls,   \* bound: polls of one set under way at the same time
    MaxFaults,  \* bound: how often the process stops or a poll is refused by the database
    None        \* no token

VARIABLES
    token,      \* none, waiting or left
    row,        \* scheduled_timers: none, set or due
    calls,      \* TokenWaiting under way: the sets whose coordinator is still to save the row
    cancelling, \* TokenCancelled or StepForced under way
    stage,      \* off, on, leaving (no longer the manager's, still subscribed) or ended
    polls,      \* the polls under way: what is left of the due timers, and the one that fires
    lost,       \* waiting tokens whose timer may never fire
    faults      \* crashes and failed polls so far

vars == << token, row, calls, cancelling, stage, polls, lost, faults >>

Sets == 1..MaxSets
Slots == 1..MaxPolls

ASSUME TimerAssumption ==
    /\ IsFiniteSet(Tokens) /\ None \notin Tokens
    /\ MaxSets \in Nat /\ MaxPolls \in Nat /\ MaxFaults \in Nat

Idle == [busy |-> FALSE, todo |-> {}, fires |-> None]
Poll(todo, t) == IF todo = {} /\ t = None THEN Idle ELSE [busy |-> TRUE, todo |-> todo, fires |-> t]
PollTypes == {Idle} \cup [busy : {TRUE}, todo : SUBSET Tokens, fires : Tokens \cup {None}]

Subscribed == {w \in Sets : stage[w] \in {"on", "leaving"}}
StoreOpen(w) == stage[w] # "ended"

\* The handler the event hub calls next: sets subscribe in their order.
IsNext(t, w) == w \in calls[t] /\ \A v \in calls[t] : w <= v

----------------------------------------------------------------------------
Init ==
    /\ token = [t \in Tokens |-> "none"]
    /\ row = [t \in Tokens |-> "none"]
    /\ calls = [t \in Tokens |-> {}]
    /\ cancelling = {}
    /\ stage = [w \in Sets |-> "off"]
    /\ polls = [w \in Sets |-> [i \in Slots |-> Idle]]
    /\ lost = {} /\ faults = 0

\* Somebody's cycle lets t wait for a timer, and the event hub begins to call its handlers.
Enter(t) ==
    /\ token[t] = "none"
    /\ token' = [token EXCEPT ![t] = "waiting"]
    /\ calls' = [calls EXCEPT ![t] = Subscribed]
    /\ lost' = IF Subscribed = {} THEN lost \cup {t} ELSE lost
    /\ UNCHANGED << row, cancelling, stage, polls, faults >>

\* onTokenWaiting of the next set: the row is written, over one that may be there.
Save(t) ==
    /\ \E w \in Sets : IsNext(t, w) /\ StoreOpen(w) /\ calls' = [calls EXCEPT ![t] = @ \ {w}]
    /\ row' = [row EXCEPT ![t] = "set"]
    /\ UNCHANGED << token, cancelling, stage, polls, lost, faults >>

\* The expression is no timer, or the store was closed: there is no row.  A handler that fails
\* keeps the event from the ones after it.
SaveFails(t) ==
    /\ calls[t] # {}
    /\ calls' = [calls EXCEPT ![t] = {}]
    /\ lost' = IF token[t] = "waiting" /\ row[t] = "none" THEN lost \cup {t} ELSE lost
    /\ UNCHANGED << token, row, cancelling, stage, polls, faults >>

\* Somebody else's cycle ends the waiting: another event, a completed host, a cancellation, or
\* a person who fires the timer by hand.
Leave(t) ==
    /\ token[t] = "waiting"
    /\ token' = [token EXCEPT ![t] = "left"]
    /\ cancelling' = cancelling \cup {t}
    /\ UNCHANGED << row, calls, stage, polls, lost, faults >>

\* The coordinators hear of it and delete the row; or none is subscribed, or the delete fails, or
\* there was nothing to hear (FireTimer sent as a command).
Cancel(t) ==
    /\ t \in cancelling
    /\ cancelling' = cancelling \ {t}
    /\ \/ Subscribed # {} /\ row' = [row EXCEPT ![t] = "none"]
       \/ UNCHANGED row
    /\ UNCHANGED << token, calls, stage, polls, lost, faults >>

\* fireAt has come.
Ripen(t) ==
    /\ row[t] = "set"
    /\ row' = [row EXCEPT ![t] = "due"]
    /\ UNCHANGED << token, calls, cancelling, stage, polls, lost, faults >>

----------------------------------------------------------------------------
\* Mutant: the due timers are deleted as they are read.
BeginPollBroken(w, i) ==
    /\ w \in Subscribed /\ ~polls[w][i].busy
    /\ LET due == {t \in Tokens : row[t] = "due"} IN
        /\ due # {}
        /\ polls' = [polls EXCEPT ![w][i] = Poll(due, None)]
        /\ row' = [t \in Tokens |-> IF t \in due THEN "none" ELSE row[t]]
    /\ UNCHANGED << token, calls, cancelling, stage, lost, faults >>

\* The set polls, at its start and then at intervals, whether or not earlier polls are over.
BeginPoll(w, i) ==
    /\ w \in Subscribed /\ ~polls[w][i].busy
    /\ LET due == {t \in Tokens : row[t] = "due"} IN
        due # {} /\ polls' = [polls EXCEPT ![w][i] = Poll(due, None)]
    /\ UNCHANGED << token, row, calls, cancelling, stage, lost, faults >>

\* Mutant: the row of a token that is no longer waiting is left alone.
DeleteBroken(w, i) ==
    /\ StoreOpen(w) /\ polls[w][i].fires = None
    /\ \E t \in polls[w][i].todo :
        /\ row' = IF token[t] = "waiting" THEN [row EXCEPT ![t] = "none"] ELSE row
        /\ polls' = [polls EXCEPT ![w][i] = Poll(@.todo \ {t}, t)]
    /\ UNCHANGED << token, calls, cancelling, stage, lost, faults >>

\* The next due timer: its row is deleted before it fires.
Delete(w, i) ==
    /\ StoreOpen(w) /\ polls[w][i].fires = None
    /\ \E t \in polls[w][i].todo :
        /\ row' = [row EXCEPT ![t] = "none"]
        /\ polls' = [polls EXCEPT ![w][i] = Poll(@.todo \ {t}, t)]
    /\ UNCHANGED << token, calls, cancelling, stage, lost, faults >>

\* The timer that the poll was firing does not fire: nothing but its row could make it.
Drops(w, i) ==
    LET t == polls[w][i].fires IN
    lost' = IF t # None /\ token[t] = "waiting" /\ row[t] = "none" /\ calls[t] = {}
            THEN lost \cup {t} ELSE lost

\* onTimerFired: the engine fires the timer, unless the token has left.
Fire(w, i) ==
    /\ StoreOpen(w) /\ polls[w][i].fires # None
    /\ token' = [token EXCEPT ![polls[w][i].fires] = "left"]
    /\ polls' = [polls EXCEPT ![w][i] = Poll(@.todo, None)]
    /\ UNCHANGED << row, calls, cancelling, stage, lost, faults >>

\* The engine throws a RuntimeError, or the definition is gone: the poll goes on as if the token
\* had left, and its row is gone.
FireIgnored(w, i) ==
    /\ StoreOpen(w) /\ polls[w][i].fires # None
    /\ Drops(w, i)
    /\ polls' = [polls EXCEPT ![w][i] = Poll(@.todo, None)]
    /\ UNCHANGED << token, row, calls, cancelling, stage, faults >>

\* Mutant: the poll that failed keeps its list.
PollFailsBroken(w, i) ==
    /\ polls[w][i].busy
    /\ IF StoreOpen(w) THEN faults < MaxFaults /\ faults' = faults + 1 ELSE UNCHANGED faults
    /\ Drops(w, i)
    /\ polls' = [polls EXCEPT ![w][i].busy = FALSE]
    /\ UNCHANGED << token, row, calls, cancelling, stage >>

\* The store was closed, a query fails, the engine throws something else, or the commit lost
\* five times: the poll is over.  The timers it did not come to still have their rows.
PollFails(w, i) ==
    /\ polls[w][i].busy
    /\ IF StoreOpen(w) THEN faults < MaxFaults /\ faults' = faults + 1 ELSE UNCHANGED faults
    /\ Drops(w, i)
    /\ polls' = [polls EXCEPT ![w][i] = Idle]
    /\ UNCHANGED << token, row, calls, cancelling, stage >>

----------------------------------------------------------------------------
Moves(w, from, to) ==
    /\ stage[w] = from
    /\ stage' = [stage EXCEPT ![w] = to]
    /\ UNCHANGED << token, row, cancelling, polls, lost, faults >>

\* The next set subscribes.  Events that are being delivered may still reach it.
Start(w) ==
    /\ \A v \in Sets : stage[v] # "on" /\ (v < w => stage[v] # "off")
    /\ Moves(w, "off", "on")
    /\ \E heard \in SUBSET {t \in Tokens : calls[t] # {}} :
        calls' = [t \in Tokens |-> IF t \in heard THEN calls[t] \cup {w} ELSE calls[t]]

\* The manager forgets the set: from now on another one may be started.
Remove(w) == Moves(w, "on", "leaving") /\ UNCHANGED calls

\* The set is unsubscribed, polls no more and closes its store, whatever poll is under way.
Stop(w) == Moves(w, "leaving", "ended") /\ UNCHANGED calls

\* The process stops and is started again: the rows are there, the rest is gone.
Crash ==
    /\ faults < MaxFaults
    /\ faults' = faults + 1
    /\ stage' = [w \in Sets |-> IF stage[w] = "off" THEN "off" ELSE "ended"]
    /\ calls' = [t \in Tokens |-> {}]
    /\ cancelling' = {}
    /\ polls' = [w \in Sets |-> [i \in Slots |-> Idle]]
    /\ lost' = lost \cup {t \in Tokens : token[t] = "waiting" /\ row[t] = "none"}
    /\ UNCHANGED << token, row >>

PollStep(w, i) == Delete(w, i) \/ Fire(w, i) \/ FireIgnored(w, i) \/ PollFails(w, i)

Next ==
    \/ \E t \in Tokens : Enter(t) \/ Save(t) \/ SaveFails(t) \/ Leave(t) \/ Cancel(t) \/ Ripen(t)
    \/ \E w \in Sets : Start(w) \/ Remove(w) \/ Stop(w)
    \/ \E w \in Sets, i \in Slots : BeginPoll(w, i) \/ PollStep(w, i)
    \/ Crash

\* Time goes by, a set that runs polls, and what is under way goes on.
Fairness ==
    /\ \A t \in Tokens : WF_vars(Ripen(t)) /\ WF_vars(Save(t) \/ SaveFails(t)) /\ WF_vars(Cancel(t))
    /\ \A w \in Sets : WF_vars(\E i \in Slots : BeginPoll(w, i))
    /\ \A w \in Sets, i \in Slots : WF_vars(PollStep(w, i))

Spec == Init /\ [][Next]_vars /\ Fairness

----------------------------------------------------------------------------
TypeOK ==
    /\ token \in [Tokens -> {"none", "waiting", "left"}]
    /\ row \in [Tokens -> {"none", "set", "due"}]
    /\ calls \in [Tokens -> SUBSET Sets]
    /\ cancelling \subseteq Tokens
    /\ stage \in [Sets -> {"off", "on", "leaving", "ended"}]
    /\ polls \in [Sets -> [Slots -> PollTypes]]
    /\ lost \subseteq Tokens
    /\ faults \in 0..MaxFaults

\* A token that waits for a timer has one that will fire: its row is there, or about to be
\* written, or its poll has just deleted it to fire it.  No cancellation of another one, no
\* overlapping poll and no set that stops ever takes the row of a token that still waits; what
\* can lose a timer is what puts it into lost; a poll that fails loses the one that was firing,
\* not the ones it had read besides.
Kept ==
    \A t \in Tokens : token[t] = "waiting" /\ t \notin lost =>
        \/ row[t] # "none" \/ calls[t] # {}
        \/ \E w \in Sets, i \in Slots : polls[w][i].fires = t

\* As long as the tenant's workers run, every row goes in the end, and then its token has left or
\* its timer was lost: due timers fire, also after a restart, and a row that was saved after its
\* cancellation, or whose cancellation nobody heard, is no burden for ever.
DueTimersFire ==
    \A t \in Tokens : row[t] # "none" ~>
        \/ row[t] = "none" /\ (token[t] = "left" \/ t \in lost)
        \/ \A w \in Sets : stage[w] # "on"
=============================================================================
