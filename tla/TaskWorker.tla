----------------------------- MODULE TaskWorker -----------------------------
(***************************************************************************)
(* How the service tasks of one tenant are worked on.  A task that is      *)
(* entered is announced once the cycle is committed; the task worker of    *)
(* the tenant then loads the instance, calls the handler and commits what  *)
(* came of it, or tries again later.  Which attempt a task is at, and what *)
(* is still to be tried, is in memory only.  When the tenant is suspended  *)
(* its worker is unsubscribed and its connections are closed; when it is   *)
(* active again a new worker begins with nothing.  All of it runs in one   *)
(* process, which may stop at any moment.                                  *)
(*                                                                         *)
(* A whole cycle is one step here: see CommitProtocol and SerialInstance.  *)
(***************************************************************************)
EXTENDS Naturals, FiniteSets

CONSTANTS
    Tokens,         \* the visits of service tasks in the tenant's instances
    Workers,        \* the tenant's workers, one after another
    MaxAttempts,    \* maxAttempts
    MaxDeliveries,  \* bound: how often a task is announced
    MaxCrashes      \* bound: how often the process stops by itself

VARIABLES
    token,          \* none, waiting, failed (still waiting, instance suspended) or left
    due,            \* announcements of a task that are still to be delivered
    stage,          \* off, on, leaving (out of the manager's map), stopped, ended (store closed)
    attemptByToken, \* attemptByToken of each worker; 0: no entry
    inflightKeys,   \* inflightKeys of each worker
    runs,           \* the calls of runAttempt of each worker that have not returned
    timers,         \* the attempts each worker has put off with setTimeout
    missed,         \* tasks announced to nobody, or forgotten when the process stopped
    dropped,        \* tasks whose command the engine refused although they were still waiting
    crashes         \* how often the process stopped by itself

memory == << attemptByToken, inflightKeys, runs, timers >>
vars == << token, due, stage, memory, missed, dropped, crashes >>

ASSUME WorkerAssumption ==
    /\ IsFiniteSet(Tokens) /\ IsFiniteSet(Workers)
    /\ MaxAttempts \in Nat \ {0}
    /\ MaxDeliveries \in Nat \ {0} /\ MaxCrashes \in Nat

Keys == Tokens \X (1..MaxAttempts)
Runs == [token : Tokens, attempt : 1..MaxAttempts, at : {"load", "handler", "complete", "fail"}]
Run(t, n, at) == [token |-> t, attempt |-> n, at |-> at]

\* Is the token waiting, as the engine sees it?
Actionable(t) == token[t] \in {"waiting", "failed"}

Subscribed(w) == stage[w] \in {"on", "leaving"}
StoreOpen(w) == stage[w] # "ended"

\* The attempt an announcement is for.
Attempt(w, t) == IF attemptByToken[w][t] = 0 THEN 1 ELSE attemptByToken[w][t]

\* Mutant: no check of the key.
BeginsAlways(w, t) == Subscribed(w)

\* Does the announcement of t begin an attempt?
Begins(w, t) == Subscribed(w) /\ << t, Attempt(w, t) >> \notin inflightKeys[w]

\* Mutant: one attempt too many.
OneTooMany(n) == n <= MaxAttempts

\* May there be another attempt after the n-th?
TriesAgain(n) == n < MaxAttempts

----------------------------------------------------------------------------
Init ==
    /\ token = [t \in Tokens |-> "none"]
    /\ due = [t \in Tokens |-> 0]
    /\ stage = [w \in Workers |-> "off"]
    /\ attemptByToken = [w \in Workers |-> [t \in Tokens |-> 0]]
    /\ inflightKeys = [w \in Workers |-> {}]
    /\ runs = [w \in Workers |-> {}]
    /\ timers = [w \in Workers |-> {}]
    /\ missed = {} /\ dropped = {} /\ crashes = 0

\* Somebody's cycle lets a token wait at a service task; ServiceTaskStarted is to be published.
Enter(t) ==
    /\ token[t] = "none"
    /\ token' = [token EXCEPT ![t] = "waiting"]
    /\ \E n \in 1..MaxDeliveries : due' = [due EXCEPT ![t] = n]
    /\ UNCHANGED << stage, memory, missed, dropped, crashes >>

\* The event hub calls the subscribed workers (dispatch).
Deliver(t) ==
    /\ due[t] > 0
    /\ due' = [due EXCEPT ![t] = @ - 1]
    /\ attemptByToken' = [w \in Workers |->
          IF Begins(w, t) THEN [attemptByToken[w] EXCEPT ![t] = Attempt(w, t)] ELSE attemptByToken[w]]
    /\ inflightKeys' = [w \in Workers |->
          IF Begins(w, t) THEN inflightKeys[w] \cup {<< t, Attempt(w, t) >>} ELSE inflightKeys[w]]
    /\ runs' = [w \in Workers |->
          IF Begins(w, t) THEN runs[w] \cup {Run(t, Attempt(w, t), "load")} ELSE runs[w]]
    /\ missed' = IF \E w \in Workers : Subscribed(w) THEN missed ELSE missed \cup {t}
    /\ UNCHANGED << token, stage, timers, dropped, crashes >>

\* The run r of w gets to another place, or returns.
Goes(w, r, at) == runs' = [runs EXCEPT ![w] = (@ \ {r}) \cup {[r EXCEPT !.at = at]}]
Returns(w, r) == runs' = [runs EXCEPT ![w] = @ \ {r}]

\* Mutant: a task without handler is left alone.
LoadBroken(w, r) ==
    /\ r.at = "load" /\ StoreOpen(w)
    /\ \/ Returns(w, r)
       \/ Actionable(r.token) /\ Goes(w, r, "handler")
    /\ UNCHANGED << token, due, stage, attemptByToken, inflightKeys, timers, missed, dropped, crashes >>

\* The instance is loaded and the handler looked up.  Somebody may have dealt with the token by
\* now, and there may be no handler for its task type.
Load(w, r) ==
    /\ r.at = "load" /\ StoreOpen(w)
    /\ \/ ~Actionable(r.token) /\ Returns(w, r)
       \/ Actionable(r.token) /\ \E at \in {"handler", "fail"} : Goes(w, r, at)
    /\ UNCHANGED << token, due, stage, attemptByToken, inflightKeys, timers, missed, dropped, crashes >>

\* The handler has returned or thrown.
Succeed(w, r) ==
    /\ r.at = "handler"
    /\ Goes(w, r, "complete")
    /\ UNCHANGED << token, due, stage, attemptByToken, inflightKeys, timers, missed, dropped, crashes >>

Error(w, r) ==
    /\ r.at = "handler"
    /\ Goes(w, r, "fail")
    /\ UNCHANGED << token, due, stage, attemptByToken, inflightKeys, timers, missed, dropped, crashes >>

\* The handler asks for another attempt later; when there is none left the task fails (Error).
Retry(w, r) ==
    /\ r.at = "handler" /\ TriesAgain(r.attempt)
    /\ Returns(w, r)
    /\ attemptByToken' = [attemptByToken EXCEPT ![w][r.token] = r.attempt + 1]
    /\ timers' = [timers EXCEPT ![w] = @ \cup {<< r.token, r.attempt + 1 >>}]
    /\ UNCHANGED << token, due, stage, inflightKeys, missed, dropped, crashes >>

\* Mutant: no check of the key when the time has come.
TickBroken(w, k) ==
    /\ timers' = [timers EXCEPT ![w] = @ \ {k}]
    /\ inflightKeys' = [inflightKeys EXCEPT ![w] = @ \cup {k}]
    /\ runs' = [runs EXCEPT ![w] = @ \cup {Run(k[1], k[2], "load")}]
    /\ UNCHANGED << token, due, stage, attemptByToken, missed, dropped, crashes >>

\* The time of an attempt that was put off has come.  Stopping the worker does not clear it.
Tick(w, k) ==
    /\ timers' = [timers EXCEPT ![w] = @ \ {k}]
    /\ inflightKeys' = [inflightKeys EXCEPT ![w] = @ \cup {k}]
    /\ runs' = IF k \in inflightKeys[w] THEN runs
               ELSE [runs EXCEPT ![w] = @ \cup {Run(k[1], k[2], "load")}]
    /\ UNCHANGED << token, due, stage, attemptByToken, missed, dropped, crashes >>

\* The command is committed, or the run returns without: the token is no longer waiting, or the engine
\* refuses the command with the token where it is (an inclusive join behind it, say), or the definition
\* or the instance is gone.  The key stays with the worker either way.  A failure without a matching
\* error boundary event leaves the token where it is and suspends the instance.
Settle(w, r) ==
    /\ r.at \in {"complete", "fail"} /\ StoreOpen(w)
    /\ \/ ~Actionable(r.token) /\ UNCHANGED << token, dropped >>
       \/ /\ Actionable(r.token) /\ UNCHANGED dropped
          /\ \E to \in IF r.at = "complete" THEN {"left"} ELSE {"left", "failed"} :
                token' = [token EXCEPT ![r.token] = to]
       \/ /\ Actionable(r.token) /\ UNCHANGED token
          /\ dropped' = dropped \cup {r.token}
    /\ Returns(w, r)
    /\ attemptByToken' = [attemptByToken EXCEPT ![w][r.token] = 0]
    /\ UNCHANGED << due, stage, inflightKeys, timers, missed, crashes >>

\* Somebody else moves the token: a boundary event, an operator, a cancellation.
OthersLeave(t) ==
    /\ Actionable(t)
    /\ token' = [token EXCEPT ![t] = "left"]
    /\ UNCHANGED << due, stage, memory, missed, dropped, crashes >>

----------------------------------------------------------------------------
\* The manager builds and starts a worker when it has none for the tenant (ensure).
Start(w) ==
    /\ stage[w] = "off" /\ \A v \in Workers : stage[v] # "on"
    /\ stage' = [stage EXCEPT ![w] = "on"]
    /\ UNCHANGED << token, due, memory, missed, dropped, crashes >>

\* The manager forgets the worker (stopTenant) ...
Remove(w) ==
    /\ stage[w] = "on"
    /\ stage' = [stage EXCEPT ![w] = "leaving"]
    /\ UNCHANGED << token, due, memory, missed, dropped, crashes >>

\* Mutant: what was put off is cleared when the worker stops.
StopBroken(w) ==
    /\ stage[w] = "leaving"
    /\ stage' = [stage EXCEPT ![w] = "stopped"]
    /\ timers' = [timers EXCEPT ![w] = {}]
    /\ UNCHANGED << token, due, attemptByToken, inflightKeys, runs, missed, dropped, crashes >>

\* ... and a moment later unsubscribes it.  What it is at goes on.
Stop(w) ==
    /\ stage[w] = "leaving"
    /\ stage' = [stage EXCEPT ![w] = "stopped"]
    /\ UNCHANGED << token, due, memory, missed, dropped, crashes >>

\* Its connections are closed, whatever it is at.
EndStore(w) ==
    /\ stage[w] = "stopped"
    /\ stage' = [stage EXCEPT ![w] = "ended"]
    /\ UNCHANGED << token, due, memory, missed, dropped, crashes >>

\* The process ends and is started again: the workers are gone with what they knew.
ProcessEnds ==
    /\ stage' = [w \in Workers |-> IF stage[w] = "off" THEN "off" ELSE "ended"]
    /\ attemptByToken' = [w \in Workers |-> [t \in Tokens |-> 0]]
    /\ inflightKeys' = [w \in Workers |-> {}]
    /\ runs' = [w \in Workers |-> {}]
    /\ timers' = [w \in Workers |-> {}]
    /\ due' = [t \in Tokens |-> 0]
    /\ missed' = missed \cup {t \in Tokens : token[t] = "waiting"}
    /\ UNCHANGED << token, dropped >>

\* A run that uses a closed store is rejected.  Nobody waits for the promise, so the rejection
\* is unhandled and ends the process.
Reject(w, r) == r.at # "handler" /\ ~StoreOpen(w) /\ ProcessEnds /\ UNCHANGED crashes

\* The process stops for another reason: one is a command that lost to others MAX_COMMIT_ATTEMPTS times,
\* whose rejection nobody handles either.
Crash == crashes < MaxCrashes /\ crashes' = crashes + 1 /\ ProcessEnds

RunStep(w, r) ==
    Load(w, r) \/ Succeed(w, r) \/ Error(w, r) \/ Retry(w, r) \/ Settle(w, r) \/ Reject(w, r)
AnyRun(w) == \E r \in runs[w] : RunStep(w, r)
AnyTick(w) == \E k \in timers[w] : Tick(w, k)

Next ==
    \/ \E t \in Tokens : Enter(t) \/ Deliver(t) \/ OthersLeave(t)
    \/ \E w \in Workers :
          AnyRun(w) \/ AnyTick(w) \/ Start(w) \/ Remove(w) \/ Stop(w) \/ EndStore(w)
    \/ Crash

\* Events are delivered, handlers return, timers go off, promises are resumed.
Fairness ==
    /\ \A t \in Tokens : WF_vars(Deliver(t))
    /\ \A w \in Workers : WF_vars(AnyTick(w))
    /\ \A w \in Workers, t \in Tokens : WF_vars(\E r \in runs[w] : r.token = t /\ RunStep(w, r))

Spec == Init /\ [][Next]_vars /\ Fairness

----------------------------------------------------------------------------
TypeOK ==
    /\ token \in [Tokens -> {"none", "waiting", "failed", "left"}]
    /\ due \in [Tokens -> 0..MaxDeliveries]
    /\ stage \in [Workers -> {"off", "on", "leaving", "stopped", "ended"}]
    /\ attemptByToken \in [Workers -> [Tokens -> 0..MaxAttempts]]
    /\ inflightKeys \in [Workers -> SUBSET Keys]
    /\ runs \in [Workers -> SUBSET Runs]
    /\ timers \in [Workers -> SUBSET Keys]
    /\ missed \subseteq Tokens /\ dropped \subseteq Tokens
    /\ crashes \in 0..MaxCrashes

\* A worker is never at the same task twice, however often the task is announced, also when an
\* announcement overtakes a retry that was put off; and every attempt before the present one
\* has been made, once: a handler is called at most MaxAttempts times.
OneAtATime ==
    \A w \in Workers : \A r \in runs[w] :
        /\ \A s \in runs[w] : s.token = r.token => s = r
        /\ {k \in inflightKeys[w] : k[1] = r.token} = {r.token} \X (1..r.attempt)

\* Will the worker w come back to t?
AttendedBy(w, t) ==
    \/ \E r \in runs[w] : r.token = t
    \/ \E k \in timers[w] \ inflightKeys[w] : k[1] = t

\* A task that was announced to a worker and is still waiting is being worked on or put off: neither
\* an announcement that is ignored, nor a retry that meets one, nor a worker that stops leaves it
\* behind.  A process that ends does, and so does a command the engine refuses (runCommand returns on
\* any RuntimeError): its key is never given back and later announcements are ignored.
Attended ==
    \A t \in Tokens \ (missed \cup dropped) : token[t] = "waiting" /\ due[t] = 0 =>
        \E w \in Workers : AttendedBy(w, t)

\* A waiting task is left or fails in the end, unless it was announced to nobody, the process ended
\* meanwhile or the engine refused its command: retries come to an end, and no task waits for a
\* handler that is not there.
Served == \A t \in Tokens : token[t] = "waiting" ~> token[t] # "waiting" \/ t \in missed \cup dropped

\* "In-flight tasks continue until they settle" (TaskWorker.stop); a command that is dropped has settled.
InFlightSettles ==
    \A w \in Workers, t \in Tokens :
        stage[w] = "stopped" /\ AttendedBy(w, t) ~> token[t] # "waiting" \/ t \in dropped
=============================================================================
