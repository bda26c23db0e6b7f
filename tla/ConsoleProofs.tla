--------------------------- MODULE ConsoleProofs ----------------------------
(***************************************************************************)
(* What the task workers promise and what the console shows, for any       *)
(* number of tasks, workers, attempts, people, instances and requests under *)
(* way.  Inv says of each worker and task that its attempts are begun one  *)
(* after the other and that something brings the worker back to a task it  *)
(* has begun with.  SessionInv says of every request of which sign-in and  *)
(* cookie it is, so that what its answer changes is still true when it     *)
(* comes; InstInv says that no row, view or message is ahead of the        *)
(* instance it is about, and of which filter and page the newest request   *)
(* of the list is.                                                         *)
(***************************************************************************)
EXTENDS MCTaskWorker, TLAPS, FiniteSetTheorems

-----------------------------------------------------------------------------
(* The task workers                                                        *)

\* What the worker w holds of the task t.
RunsOf(w, t) == {r \in runs[w] : r.token = t}
Started(w, t) == {k \in inflightKeys[w] : k[1] = t}
PutOff(w, t) == {k \in timers[w] : k[1] = t}

\* The attempts begun are the first m; a call of runAttempt is the only one and at the last of
\* them; an attempt that was put off and not begun is the one attemptByToken tells.
InOrder(w, t) ==
    \E m \in 0..MaxAttempts :
        /\ Started(w, t) = {t} \X (1..m)
        /\ attemptByToken[w][t] <= m + 1
        /\ \A r \in RunsOf(w, t) :
              r.attempt = m /\ attemptByToken[w][t] = m /\ \A s \in RunsOf(w, t) : s = r
        /\ \A k \in PutOff(w, t) \ Started(w, t) : attemptByToken[w][t] = k[2]

\* A worker that has begun with a task that is still waiting, and whose command was not refused, comes back to it.
Faithful(w, t) ==
    token[t] = "waiting" /\ Started(w, t) # {} /\ t \notin dropped =>
        RunsOf(w, t) # {} \/ PutOff(w, t) \ Started(w, t) # {}

\* Of a task that was not entered yet nobody knows anything.
Unborn(w, t) ==
    token[t] = "none" => due[t] = 0 /\ Started(w, t) = {} /\ PutOff(w, t) = {}

Pair(w, t) == InOrder(w, t) /\ Faithful(w, t) /\ Unborn(w, t)

Inv == TypeOK /\ (\A w \in Workers, t \in Tokens : Pair(w, t)) /\ Attended

----------------------------------------------------------------------------
\* Coming back to a task, in the terms of the invariant.
LEMMA AttendedMeans ==
    ASSUME NEW w, NEW t
    PROVE  AttendedBy(w, t) <=> RunsOf(w, t) # {} \/ PutOff(w, t) \ Started(w, t) # {}
BY DEF AttendedBy, RunsOf, Started, PutOff

\* A worker whose knowledge of t a step leaves alone keeps its part of the invariant, unless the
\* step enters t.
LEMMA Bystander ==
    ASSUME NEW w \in Workers, NEW t \in Tokens, Pair(w, t),
           attemptByToken'[w][t] = attemptByToken[w][t], RunsOf(w, t)' = RunsOf(w, t),
           Started(w, t)' = Started(w, t), PutOff(w, t)' = PutOff(w, t),
           token'[t] = "waiting" => token[t] = "waiting", dropped \subseteq dropped',
           token'[t] = "none" => token[t] = "none" /\ due'[t] = due[t]
    PROVE  Pair(w, t)'
<1>1. InOrder(w, t)'
  BY DEF Pair, InOrder
<1>2. Faithful(w, t)'
  BY DEF Pair, Faithful
<1>3. Unborn(w, t)'
  BY DEF Pair, Unborn
<1> QED
  BY <1>1, <1>2, <1>3 DEF Pair

\* A task somebody is at was entered, and the call is the only one.
LEMMA RunKnown ==
    ASSUME TypeOK, NEW w \in Workers, NEW r \in runs[w], Pair(w, r.token)
    PROVE  /\ r \in Runs /\ r.token \in Tokens /\ r.attempt \in 1..MaxAttempts
           /\ RunsOf(w, r.token) = {r}
           /\ Started(w, r.token) = {r.token} \X (1..r.attempt)
           /\ attemptByToken[w][r.token] = r.attempt
           /\ PutOff(w, r.token) \ Started(w, r.token) = {}
           /\ token[r.token] # "none"
<1> DEFINE t == r.token
<1>1. r \in Runs /\ t \in Tokens /\ r.attempt \in 1..MaxAttempts
  BY DEF TypeOK, Runs
<1>2. r \in RunsOf(w, t)
  BY DEF RunsOf
<1>3. /\ Started(w, t) = {t} \X (1..r.attempt)
      /\ attemptByToken[w][t] = r.attempt
      /\ \A s \in RunsOf(w, t) : s = r
      /\ \A k \in PutOff(w, t) \ Started(w, t) : attemptByToken[w][t] = k[2]
  BY <1>2 DEF Pair, InOrder
<1>4. ASSUME NEW k \in PutOff(w, t) \ Started(w, t) PROVE FALSE
  <2>1. k \in Keys /\ k[1] = t
    BY DEF PutOff, TypeOK
  <2>2. k = << t, r.attempt >>
    BY <2>1, <1>3 DEF Keys
  <2>3. k \in Started(w, t)
    BY <2>2, <1>3, <1>1
  <2> QED
    BY <2>3
<1>5. << t, r.attempt >> \in Started(w, t)
  BY <1>3, <1>1
<1>6. token[t] # "none"
  BY <1>5 DEF Pair, Unborn
<1> QED
  BY <1>1, <1>2, <1>3, <1>4, <1>6

\* The conjunct of Attended for one task.
AttendedTask(t) ==
    token[t] = "waiting" /\ due[t] = 0 /\ t \notin missed \cup dropped =>
        \E w \in Workers : RunsOf(w, t) # {} \/ PutOff(w, t) \ Started(w, t) # {}

LEMMA AttendedByTask == Attended <=> \A t \in Tokens : AttendedTask(t)
BY AttendedMeans DEF Attended, AttendedTask

\* A task that no worker loses sight of stays attended.
LEMMA AttendedKept ==
    ASSUME NEW t \in Tokens, AttendedTask(t),
           token'[t] = "waiting" => token[t] = "waiting" /\ due'[t] = due[t],
           missed \subseteq missed', dropped \subseteq dropped',
           \A w \in Workers :
               \/ token'[t] # "waiting" \/ t \in dropped'
               \/ RunsOf(w, t)' # {} \/ (PutOff(w, t) \ Started(w, t))' # {}
               \/ /\ RunsOf(w, t)' = RunsOf(w, t)
                  /\ (PutOff(w, t) \ Started(w, t))' = PutOff(w, t) \ Started(w, t)
    PROVE  AttendedTask(t)'
BY DEF AttendedTask

----------------------------------------------------------------------------
\* An announcement begins an attempt at most where none is under way.
LEMMA DeliverPair ==
    ASSUME TypeOK, NEW t \in Tokens, Deliver(t), NEW w \in Workers, NEW u \in Tokens, Pair(w, u)
    PROVE  Pair(w, u)'
<1>1. CASE u # t \/ ~Begins(w, t)
  <2>1. attemptByToken'[w][u] = attemptByToken[w][u]
    BY <1>1 DEF Deliver, TypeOK
  <2>2. RunsOf(w, u)' = RunsOf(w, u)
    BY <1>1 DEF Deliver, RunsOf, Run
  <2>3. Started(w, u)' = Started(w, u)
    BY <1>1 DEF Deliver, Started
  <2>4. PutOff(w, u)' = PutOff(w, u)
    BY DEF Deliver, PutOff
  <2>5. token' = token /\ dropped' = dropped /\ (token[u] = "none" => due'[u] = due[u])
    BY DEF Deliver, TypeOK, Pair, Unborn
  <2> QED
    BY <2>1, <2>2, <2>3, <2>4, <2>5, Bystander
<1>2. CASE u = t /\ Begins(w, t)
  <2> DEFINE n == Attempt(w, t)
             run == Run(t, n, "load")
  <2>1. PICK m \in 0..MaxAttempts :
            /\ Started(w, t) = {t} \X (1..m)
            /\ attemptByToken[w][t] <= m + 1
            /\ \A r \in RunsOf(w, t) :
                  r.attempt = m /\ attemptByToken[w][t] = m /\ \A s \in RunsOf(w, t) : s = r
            /\ \A k \in PutOff(w, t) \ Started(w, t) : attemptByToken[w][t] = k[2]
    BY <1>2 DEF Pair, InOrder
  <2>2. n \in 1..MaxAttempts /\ attemptByToken[w][t] \in 0..MaxAttempts
    BY WorkerAssumption DEF Attempt, TypeOK
  <2>3. << t, n >> \notin Started(w, t)
    BY <1>2 DEF Begins, Started
  <2>4. n = m + 1
    <3>1. n \notin 1..m
      BY <2>1, <2>3
    <3> QED
      BY <3>1, <2>1, <2>2 DEF Attempt
  <2>5. RunsOf(w, t) = {}
    <3> SUFFICES ASSUME NEW r \in RunsOf(w, t) PROVE FALSE
      OBVIOUS
    <3>1. attemptByToken[w][t] = m /\ r.attempt = m /\ r.attempt \in 1..MaxAttempts
      BY <2>1 DEF RunsOf, TypeOK, Runs
    <3> QED
      BY <3>1, <2>4 DEF Attempt
  <2>6. attemptByToken'[w][t] = n
    BY <1>2 DEF Deliver, TypeOK
  <2>7. Started(w, t)' = {t} \X (1..n)
    <3>1. Started(w, t)' = Started(w, t) \cup {<< t, n >>}
      BY <1>2 DEF Deliver, Started
    <3> QED
      BY <3>1, <2>1, <2>2, <2>4
  <2>8. RunsOf(w, t)' = {run}
    <3>1. RunsOf(w, t)' = RunsOf(w, t) \cup {run}
      BY <1>2 DEF Deliver, RunsOf, Run
    <3> QED
      BY <3>1, <2>5
  <2>9. \A k \in (PutOff(w, t) \ Started(w, t))' : k[2] = n
    <3> SUFFICES ASSUME NEW k \in (PutOff(w, t) \ Started(w, t))' PROVE k[2] = n
      OBVIOUS
    <3>1. k \in PutOff(w, t) \ Started(w, t)
      BY <1>2 DEF Deliver, PutOff, Started
    <3>2. k[2] \in 1..MaxAttempts
      BY <3>1 DEF PutOff, TypeOK, Keys
    <3> QED
      BY <3>1, <3>2, <2>1 DEF Attempt
  <2>10. InOrder(w, t)'
    <3>1. run.attempt = n
      BY DEF Run
    <3>2. n \in 0..MaxAttempts /\ n <= n + 1
      BY <2>2
    <3> QED
      BY <3>1, <3>2, <2>6, <2>7, <2>8, <2>9 DEF InOrder
  <2>11. Faithful(w, t)'
    BY <2>8 DEF Faithful
  <2>12. Unborn(w, t)'
    BY <1>2 DEF Deliver, Pair, Unborn, TypeOK
  <2> QED
    BY <1>2, <2>10, <2>11, <2>12 DEF Pair
<1> QED
  BY <1>1, <1>2

\* The time of an attempt that was put off comes while nobody is at the task, or the attempt was
\* begun already.
LEMMA TickPair ==
    ASSUME TypeOK, NEW v \in Workers, NEW l \in timers[v], Tick(v, l), Pair(v, l[1]),
           NEW w \in Workers, NEW u \in Tokens, Pair(w, u)
    PROVE  Pair(w, u)'
<1> DEFINE t == l[1]
<1>0. l \in Keys /\ t \in Tokens /\ l[2] \in 1..MaxAttempts /\ l = << t, l[2] >>
  BY DEF TypeOK, Keys
<1>1. CASE w # v \/ u # t
  <2>1. RunsOf(w, u)' = RunsOf(w, u)
    BY <1>1 DEF Tick, RunsOf, Run, TypeOK
  <2>2. Started(w, u)' = Started(w, u)
    BY <1>1 DEF Tick, Started, TypeOK
  <2>3. PutOff(w, u)' = PutOff(w, u)
    BY <1>1 DEF Tick, PutOff, TypeOK
  <2> QED
    BY <2>1, <2>2, <2>3, Bystander DEF Tick
<1>2. CASE w = v /\ u = t
  <2>0. UNCHANGED << token, due, attemptByToken, dropped >>
    BY DEF Tick
  <2>1. PICK m \in 0..MaxAttempts :
            /\ Started(v, t) = {t} \X (1..m)
            /\ attemptByToken[v][t] <= m + 1
            /\ \A r \in RunsOf(v, t) :
                  r.attempt = m /\ attemptByToken[v][t] = m /\ \A s \in RunsOf(v, t) : s = r
            /\ \A k \in PutOff(v, t) \ Started(v, t) : attemptByToken[v][t] = k[2]
    BY DEF Pair, InOrder
  <2>2. /\ Started(v, t)' = Started(v, t) \cup {l}
        /\ PutOff(v, t)' = PutOff(v, t) \ {l}
    BY DEF Tick, Started, PutOff, TypeOK
  <2>3. l \in PutOff(v, t)
    BY DEF PutOff
  <2>4. token[t] # "none"
    BY <2>3 DEF Pair, Unborn
  <2>5. CASE l \in inflightKeys[v]
    <3>1. l \in Started(v, t)
      BY <2>5 DEF Started
    <3>2. Started(v, t)' = Started(v, t) /\ (PutOff(v, t) \ Started(v, t))' = PutOff(v, t) \ Started(v, t)
      BY <3>1, <2>2
    <3>3. RunsOf(v, t)' = RunsOf(v, t)
      BY <2>5 DEF Tick, RunsOf
    <3>4. InOrder(v, t)'
      BY <3>2, <3>3, <2>0, <2>1 DEF InOrder
    <3>5. Faithful(v, t)'
      BY <3>2, <3>3, <2>0 DEF Pair, Faithful
    <3>6. Unborn(v, t)'
      BY <2>0, <2>4 DEF Unborn
    <3> QED
      BY <1>2, <3>4, <3>5, <3>6 DEF Pair
  <2>6. CASE l \notin inflightKeys[v]
    <3> DEFINE run == Run(t, l[2], "load")
    <3>1. l \in PutOff(v, t) \ Started(v, t)
      BY <2>3, <2>6 DEF Started
    <3>2. attemptByToken[v][t] = l[2] /\ l[2] = m + 1
      <4>1. l[2] \notin 1..m
        BY <3>1, <2>1, <1>0
      <4> QED
        BY <4>1, <3>1, <2>1, <1>0
    <3>3. RunsOf(v, t) = {}
      BY <3>2, <2>1
    <3>4. RunsOf(v, t)' = {run}
      <4>1. RunsOf(v, t)' = RunsOf(v, t) \cup {run}
        BY <2>6 DEF Tick, RunsOf, Run, TypeOK
      <4> QED
        BY <4>1, <3>3
    <3>5. Started(v, t)' = {t} \X (1..l[2])
      BY <2>2, <2>1, <3>2, <1>0
    <3>6. \A k \in (PutOff(v, t) \ Started(v, t))' : k[2] = l[2]
      BY <2>2, <2>1, <3>2
    <3>7. InOrder(v, t)'
      <4>1. run.attempt = l[2]
        BY DEF Run
      <4>2. l[2] \in 0..MaxAttempts /\ l[2] <= l[2] + 1
        BY <1>0
      <4> QED
        BY <4>1, <4>2, <3>2, <3>4, <3>5, <3>6, <2>0 DEF InOrder
    <3>8. Faithful(v, t)'
      BY <3>4 DEF Faithful
    <3>9. Unborn(v, t)'
      BY <2>0, <2>4 DEF Unborn
    <3> QED
      BY <1>2, <3>7, <3>8, <3>9 DEF Pair
  <2> QED
    BY <2>5, <2>6
<1> QED
  BY <1>1, <1>2

----------------------------------------------------------------------------
\* A run that goes on is still the only one, at the same attempt.
LEMMA GoesPair ==
    ASSUME TypeOK, NEW v \in Workers, NEW r \in runs[v], NEW at, Goes(v, r, at), Pair(v, r.token),
           UNCHANGED << token, due, attemptByToken, inflightKeys, timers, dropped >>,
           NEW w \in Workers, NEW u \in Tokens, Pair(w, u)
    PROVE  Pair(w, u)' /\ (u = r.token => RunsOf(v, u)' # {})
<1> DEFINE q == [r EXCEPT !.at = at]
<1>0. Started(w, u)' = Started(w, u) /\ PutOff(w, u)' = PutOff(w, u)
  BY DEF Started, PutOff
<1>1. r \in Runs /\ r.attempt \in 1..MaxAttempts /\ q.token = r.token /\ q.attempt = r.attempt
  BY RunKnown DEF Runs
<1>2. CASE w # v \/ u # r.token
  <2>1. RunsOf(w, u)' = RunsOf(w, u)
    BY <1>1, <1>2 DEF Goes, RunsOf, TypeOK
  <2>2. Pair(w, u)'
    BY <2>1, <1>0, Bystander
  <2>3. u = r.token => RunsOf(v, u)' # {}
    BY <1>1 DEF Goes, RunsOf, TypeOK
  <2> QED
    BY <2>2, <2>3
<1>3. CASE w = v /\ u = r.token
  <2>1. RunsOf(v, u) = {r}
    BY <1>3, RunKnown
  <2>2. RunsOf(v, u)' = {q}
    <3>1. RunsOf(v, u)' = (RunsOf(v, u) \ {r}) \cup {q}
      BY <1>1, <1>3 DEF Goes, RunsOf, TypeOK
    <3> QED
      BY <3>1, <2>1
  <2>3. InOrder(v, u)'
    <3>1. PICK m \in 0..MaxAttempts :
              /\ Started(v, u) = {u} \X (1..m)
              /\ attemptByToken[v][u] <= m + 1
              /\ r.attempt = m /\ attemptByToken[v][u] = m
              /\ \A k \in PutOff(v, u) \ Started(v, u) : attemptByToken[v][u] = k[2]
      BY <1>3, <2>1 DEF Pair, InOrder
    <3> QED
      BY <3>1, <2>2, <1>0, <1>1, <1>3 DEF InOrder
  <2>4. Faithful(v, u)'
    BY <2>2 DEF Faithful
  <2>5. Unborn(v, u)'
    BY <1>0, <1>3 DEF Pair, Unborn
  <2> QED
    BY <1>3, <2>2, <2>3, <2>4, <2>5 DEF Pair
<1> QED
  BY <1>2, <1>3

\* A run that returns without another attempt leaves a task that is no longer waiting, or one whose
\* command was refused.
LEMMA ReturnsPair ==
    ASSUME TypeOK, NEW v \in Workers, NEW r \in runs[v], Returns(v, r), Pair(v, r.token),
           UNCHANGED << due, inflightKeys, timers >>,
           attemptByToken' \in {attemptByToken, [attemptByToken EXCEPT ![v][r.token] = 0]},
           token'[r.token] # "waiting" \/ r.token \in dropped', token'[r.token] # "none",
           dropped \subseteq dropped', token'[r.token] = "waiting" => token[r.token] = "waiting",
           \A t \in Tokens \ {r.token} : token'[t] = token[t],
           NEW w \in Workers, NEW u \in Tokens, Pair(w, u)
    PROVE  Pair(w, u)'
<1>0. Started(w, u)' = Started(w, u) /\ PutOff(w, u)' = PutOff(w, u)
  BY DEF Started, PutOff
<1>1. CASE w # v \/ u # r.token
  <2>1. RunsOf(w, u)' = RunsOf(w, u)
    BY <1>1 DEF Returns, RunsOf, TypeOK
  <2>2. attemptByToken'[w][u] = attemptByToken[w][u]
    BY <1>1 DEF TypeOK
  <2> QED
    BY <2>1, <2>2, <1>0, Bystander
<1>2. CASE w = v /\ u = r.token
  <2>1. /\ r.attempt \in 1..MaxAttempts
        /\ RunsOf(v, u) = {r} /\ Started(v, u) = {u} \X (1..r.attempt)
        /\ attemptByToken[v][u] = r.attempt /\ PutOff(v, u) \ Started(v, u) = {}
    BY <1>2, RunKnown
  <2>2. RunsOf(v, u)' = {}
    BY <1>2, <2>1 DEF Returns, RunsOf, TypeOK
  <2>3. attemptByToken'[v][u] \in 0..r.attempt
    BY <1>2, <2>1 DEF TypeOK
  <2>4. InOrder(v, u)'
    BY <2>1, <2>2, <2>3, <1>0, <1>2 DEF InOrder
  <2>5. Faithful(v, u)' /\ Unborn(v, u)'
    BY <1>2 DEF Faithful, Unborn
  <2> QED
    BY <1>2, <2>4, <2>5 DEF Pair
<1> QED
  BY <1>1, <1>2

\* A run that asks for another attempt leaves it to the timer.
LEMMA RetryPair ==
    ASSUME TypeOK, NEW v \in Workers, NEW r \in runs[v], Retry(v, r), Pair(v, r.token),
           NEW w \in Workers, NEW u \in Tokens, Pair(w, u)
    PROVE  Pair(w, u)' /\ (u = r.token => (PutOff(v, u) \ Started(v, u))' # {})
<1> DEFINE t == r.token
           l == << t, r.attempt + 1 >>
<1>0. Started(w, u)' = Started(w, u) /\ UNCHANGED << token, due >>
  BY DEF Retry, Started
<1>01. dropped' = dropped
  BY DEF Retry
<1>1. /\ r.attempt \in 1..MaxAttempts /\ t \in Tokens
      /\ RunsOf(v, t) = {r} /\ Started(v, t) = {t} \X (1..r.attempt)
      /\ PutOff(v, t) \ Started(v, t) = {} /\ token[t] # "none"
  BY RunKnown
<1>2. (PutOff(v, t) \ Started(v, t))' = {l}
  <2>1. PutOff(v, t)' = PutOff(v, t) \cup {l}
    BY <1>1 DEF Retry, PutOff, TypeOK
  <2>2. Started(v, t)' = Started(v, t)
    BY DEF Retry, Started
  <2>3. l \notin Started(v, t)
    BY <1>1
  <2> QED
    BY <1>1, <2>1, <2>2, <2>3
<1>3. CASE w # v \/ u # t
  <2>1. RunsOf(w, u)' = RunsOf(w, u)
    BY <1>3 DEF Retry, Returns, RunsOf, TypeOK
  <2>2. attemptByToken'[w][u] = attemptByToken[w][u]
    BY <1>3 DEF Retry, TypeOK
  <2>3. PutOff(w, u)' = PutOff(w, u)
    BY <1>3 DEF Retry, PutOff, TypeOK
  <2> QED
    BY <2>1, <2>2, <2>3, <1>0, <1>01, <1>2, Bystander
<1>4. CASE w = v /\ u = t
  <2>1. RunsOf(v, t)' = {}
    BY <1>1 DEF Retry, Returns, RunsOf, TypeOK
  <2>2. attemptByToken'[v][t] = r.attempt + 1
    BY <1>1 DEF Retry, TypeOK
  <2>3. InOrder(v, t)'
    <3>1. \A k \in (PutOff(v, t) \ Started(v, t))' : attemptByToken'[v][t] = k[2]
      BY <1>2, <2>2
    <3>2. Started(v, t)' = {t} \X (1..r.attempt)
      BY <1>0, <1>1, <1>4
    <3> QED
      BY <3>1, <3>2, <2>1, <2>2, <1>1 DEF InOrder
  <2>4. Faithful(v, t)'
    BY <1>2 DEF Faithful
  <2>5. Unborn(v, t)'
    BY <1>0, <1>1 DEF Unborn
  <2> QED
    BY <1>2, <1>4, <2>3, <2>4, <2>5 DEF Pair
<1> QED
  BY <1>3, <1>4

\* A new process knows nothing.
LEMMA EndPair ==
    ASSUME TypeOK, ProcessEnds, NEW w \in Workers, NEW u \in Tokens, Pair(w, u)
    PROVE  Pair(w, u)'
<1>1. RunsOf(w, u)' = {} /\ Started(w, u)' = {} /\ PutOff(w, u)' = {}
  BY DEF ProcessEnds, RunsOf, Started, PutOff
<1>2. attemptByToken'[w][u] = 0 /\ due'[u] = 0 /\ token' = token
  BY DEF ProcessEnds
<1>3. InOrder(w, u)'
  <2>1. 0 \in 0..MaxAttempts /\ {u} \X (1..0) = {}
    BY WorkerAssumption
  <2> QED
    BY <2>1, <1>1, <1>2 DEF InOrder
<1>4. Faithful(w, u)' /\ Unborn(w, u)'
  BY <1>1, <1>2 DEF Faithful, Unborn
<1> QED
  BY <1>3, <1>4 DEF Pair

\* A task that is entered is not known to anybody.
LEMMA EnterPair ==
    ASSUME TypeOK, NEW t \in Tokens, Enter(t), NEW w \in Workers, NEW u \in Tokens, Pair(w, u)
    PROVE  Pair(w, u)'
<1>0. RunsOf(w, u)' = RunsOf(w, u) /\ Started(w, u)' = Started(w, u) /\ PutOff(w, u)' = PutOff(w, u)
  BY DEF Enter, memory, RunsOf, Started, PutOff
<1>1. attemptByToken' = attemptByToken
  BY DEF Enter, memory
<1>2. CASE u # t
  BY <1>0, <1>1, <1>2, Bystander DEF Enter, TypeOK
<1>3. CASE u = t
  <2>1. InOrder(w, u)'
    BY <1>0, <1>1 DEF Pair, InOrder
  <2>2. Faithful(w, u)' /\ Unborn(w, u)'
    BY <1>0, <1>3 DEF Pair, Faithful, Unborn, Enter, TypeOK
  <2> QED
    BY <2>1, <2>2 DEF Pair
<1> QED
  BY <1>2, <1>3

----------------------------------------------------------------------------
\* The manager starts or stops the worker w.
StageMove(w) == Start(w) \/ Remove(w) \/ Stop(w) \/ EndStore(w)

\* Every step keeps the types.
LEMMA TypeStep == TypeOK /\ [Next]_vars => TypeOK'
<1> SUFFICES ASSUME TypeOK, [Next]_vars PROVE TypeOK'
  OBVIOUS
<1> USE WorkerAssumption
<1>1. ASSUME NEW t \in Tokens, Enter(t) PROVE TypeOK'
  BY <1>1 DEF Enter, memory, TypeOK
<1>2. ASSUME NEW t \in Tokens, Deliver(t) PROVE TypeOK'
  <2>1. \A w \in Workers : Attempt(w, t) \in 1..MaxAttempts
    BY DEF Attempt, TypeOK
  <2>2. \A w \in Workers : << t, Attempt(w, t) >> \in Keys /\ Run(t, Attempt(w, t), "load") \in Runs
    BY <2>1 DEF Keys, Runs, Run
  <2>3. due' \in [Tokens -> 0..MaxDeliveries]
    BY <1>2 DEF Deliver, TypeOK
  <2>4. attemptByToken' \in [Workers -> [Tokens -> 0..MaxAttempts]]
    BY <1>2, <2>1 DEF Deliver, TypeOK
  <2>5. inflightKeys' \in [Workers -> SUBSET Keys] /\ runs' \in [Workers -> SUBSET Runs]
    BY <1>2, <2>2 DEF Deliver, TypeOK
  <2> QED
    BY <1>2, <2>3, <2>4, <2>5 DEF Deliver, TypeOK
<1>3. ASSUME NEW t \in Tokens, OthersLeave(t) PROVE TypeOK'
  BY <1>3 DEF OthersLeave, memory, TypeOK
<1>4. ASSUME NEW w \in Workers, NEW r \in runs[w], RunStep(w, r) PROVE TypeOK'
  <2>1. r \in Runs /\ r.token \in Tokens /\ r.attempt \in 1..MaxAttempts
    BY DEF TypeOK, Runs
  <2>2. ASSUME NEW at \in {"load", "handler", "complete", "fail"}, Goes(w, r, at)
        PROVE  runs' \in [Workers -> SUBSET Runs]
    <3>1. [r EXCEPT !.at = at] \in Runs
      BY <2>1 DEF Runs
    <3> QED
      BY <2>2, <3>1 DEF Goes, TypeOK
  <2>3. Returns(w, r) => runs' \in [Workers -> SUBSET Runs]
    BY DEF Returns, TypeOK
  <2>4. Load(w, r) => TypeOK'
    BY <2>2, <2>3 DEF Load, TypeOK
  <2>5. Succeed(w, r) \/ Error(w, r) => TypeOK'
    BY <2>2 DEF Succeed, Error, TypeOK
  <2>6. ASSUME Retry(w, r) PROVE TypeOK'
    <3>1. r.attempt + 1 \in 1..MaxAttempts
      BY <2>1, <2>6 DEF Retry, TriesAgain
    <3>2. << r.token, r.attempt + 1 >> \in Keys
      BY <2>1, <3>1 DEF Keys
    <3>3. timers' \in [Workers -> SUBSET Keys]
      BY <2>6, <3>2 DEF Retry, TypeOK
    <3>4. attemptByToken' \in [Workers -> [Tokens -> 0..MaxAttempts]]
      BY <2>1, <2>6, <3>1 DEF Retry, TypeOK
    <3>5. runs' \in [Workers -> SUBSET Runs]
      BY <2>3, <2>6 DEF Retry
    <3>6. UNCHANGED << token, due, stage, inflightKeys, missed, dropped, crashes >>
      BY <2>6 DEF Retry
    <3> QED
      BY <3>3, <3>4, <3>5, <3>6 DEF TypeOK
  <2>7. Settle(w, r) => TypeOK'
    BY <2>1, <2>3 DEF Settle, TypeOK
  <2>8. Reject(w, r) => TypeOK'
    BY DEF Reject, ProcessEnds, TypeOK
  <2> QED
    BY <1>4, <2>4, <2>5, <2>6, <2>7, <2>8 DEF RunStep
<1>5. ASSUME NEW w \in Workers, NEW k \in timers[w], Tick(w, k) PROVE TypeOK'
  <2>1. k \in Keys /\ Run(k[1], k[2], "load") \in Runs
    BY DEF TypeOK, Keys, Run, Runs
  <2> QED
    BY <1>5, <2>1 DEF Tick, TypeOK
<1>6. ASSUME NEW w \in Workers, StageMove(w) PROVE TypeOK'
  BY <1>6 DEF StageMove, Start, Remove, Stop, EndStore, memory, TypeOK
<1>7. Crash => TypeOK'
  BY DEF Crash, ProcessEnds, TypeOK
<1>8. UNCHANGED vars => TypeOK'
  BY DEF vars, memory, TypeOK
<1> QED
  BY <1>1, <1>2, <1>3, <1>4, <1>5, <1>6, <1>7, <1>8 DEF Next, AnyRun, AnyTick, StageMove

\* What a step of a run does: it goes on, it returns a task that is done with, or it puts it off;
\* or it ends the process.
LEMMA RunStepCases ==
    ASSUME TypeOK, NEW v \in Workers, NEW r \in runs[v], RunStep(v, r), Pair(v, r.token)
    PROVE  \/ /\ \E at \in {"handler", "complete", "fail"} : Goes(v, r, at)
              /\ UNCHANGED << token, due, attemptByToken, inflightKeys, timers, missed, dropped >>
           \/ /\ Returns(v, r)
              /\ UNCHANGED << due, inflightKeys, timers, missed >>
              /\ attemptByToken' \in {attemptByToken, [attemptByToken EXCEPT ![v][r.token] = 0]}
              /\ token'[r.token] # "waiting" \/ r.token \in dropped'
              /\ token'[r.token] # "none" /\ dropped \subseteq dropped'
              /\ token'[r.token] = "waiting" => token[r.token] = "waiting"
              /\ \A t \in Tokens \ {r.token} : token'[t] = token[t]
           \/ Retry(v, r)
           \/ ProcessEnds
<1>1. r.token \in Tokens /\ token[r.token] # "none"
  BY RunKnown
<1>2. CASE Load(v, r)
  BY <1>1, <1>2 DEF Load, Actionable
<1>3. CASE Succeed(v, r) \/ Error(v, r)
  BY <1>3 DEF Succeed, Error
<1>4. CASE Settle(v, r)
  BY <1>1, <1>4 DEF Settle, Actionable, TypeOK
<1>5. CASE Retry(v, r) \/ Reject(v, r)
  BY <1>5 DEF Reject
<1> QED
  BY <1>2, <1>3, <1>4, <1>5 DEF RunStep

\* Every step keeps what a worker knows of a task in order.
LEMMA PairStep ==
    ASSUME TypeOK, \A w \in Workers, u \in Tokens : Pair(w, u), [Next]_vars,
           NEW w \in Workers, NEW u \in Tokens
    PROVE  Pair(w, u)'
<1>0. Pair(w, u)
  OBVIOUS
<1>1. ASSUME NEW t \in Tokens, Enter(t) PROVE Pair(w, u)'
  BY <1>0, <1>1, EnterPair
<1>2. ASSUME NEW t \in Tokens, Deliver(t) PROVE Pair(w, u)'
  BY <1>0, <1>2, DeliverPair
<1>3. ASSUME attemptByToken' = attemptByToken, runs' = runs, inflightKeys' = inflightKeys, timers' = timers,
             due' = due, dropped' = dropped, token'[u] \in {token[u], "left"}
      PROVE  Pair(w, u)'
  <2>1. RunsOf(w, u)' = RunsOf(w, u) /\ Started(w, u)' = Started(w, u) /\ PutOff(w, u)' = PutOff(w, u)
    BY <1>3 DEF RunsOf, Started, PutOff
  <2> QED
    BY <1>0, <1>3, <2>1, Bystander
<1>4. ASSUME NEW t \in Tokens, OthersLeave(t) PROVE Pair(w, u)'
  BY <1>3, <1>4 DEF OthersLeave, memory, TypeOK
<1>5. ASSUME NEW v \in Workers, NEW r \in runs[v], RunStep(v, r) PROVE Pair(w, u)'
  <2>1. r.token \in Tokens
    BY DEF TypeOK, Runs
  <2>2. Pair(v, r.token)
    BY <2>1
  <2> QED
    BY <1>0, <1>5, <2>2, RunStepCases, GoesPair, ReturnsPair, RetryPair, EndPair
<1>6. ASSUME NEW v \in Workers, NEW k \in timers[v], Tick(v, k) PROVE Pair(w, u)'
  <2>1. k[1] \in Tokens
    BY DEF TypeOK, Keys
  <2> QED
    BY <1>0, <1>6, <2>1, TickPair
<1>7. ASSUME NEW v \in Workers, StageMove(v) PROVE Pair(w, u)'
  BY <1>3, <1>7 DEF StageMove, Start, Remove, Stop, EndStore, memory
<1>8. Crash => Pair(w, u)'
  BY <1>0, EndPair DEF Crash
<1>9. UNCHANGED vars => Pair(w, u)'
  BY <1>3 DEF vars, memory
<1> QED
  BY <1>1, <1>2, <1>4, <1>5, <1>6, <1>7, <1>8, <1>9 DEF Next, AnyRun, AnyTick, StageMove

\* Every step keeps a task attended: whoever lets go of a task that waits has put it off.
LEMMA AttendedStep ==
    ASSUME TypeOK, \A w \in Workers, t \in Tokens : Pair(w, t), [Next]_vars,
           NEW u \in Tokens, AttendedTask(u)
    PROVE  AttendedTask(u)'
<1> DEFINE Same(w) == /\ RunsOf(w, u)' = RunsOf(w, u)
                      /\ (PutOff(w, u) \ Started(w, u))' = PutOff(w, u) \ Started(w, u)
           Here(w) == RunsOf(w, u)' # {} \/ (PutOff(w, u) \ Started(w, u))' # {}
<1>0. ASSUME runs' = runs, inflightKeys' = inflightKeys, timers' = timers
      PROVE  \A w \in Workers : Same(w)
  BY <1>0 DEF RunsOf, Started, PutOff
<1>1. ASSUME NEW t \in Tokens, Enter(t) PROVE AttendedTask(u)'
  <2>1. CASE u = t
    BY <1>1, <2>1, WorkerAssumption DEF Enter, AttendedTask, TypeOK
  <2>2. CASE u # t
    BY <1>0, <1>1, <2>2, AttendedKept DEF Enter, memory, TypeOK
  <2> QED
    BY <2>1, <2>2
<1>2. ASSUME NEW t \in Tokens, Deliver(t) PROVE AttendedTask(u)'
  <2>1. CASE u = t
    <3> SUFFICES ASSUME token'[t] = "waiting", t \notin missed', t \notin dropped'
                 PROVE  \E w \in Workers : Here(w)
      BY <2>1 DEF AttendedTask
    <3>1. PICK w \in Workers : Subscribed(w)
      BY <1>2 DEF Deliver
    <3>2. << t, Attempt(w, t) >> \in inflightKeys'[w]
      BY <1>2, <3>1 DEF Deliver, Begins
    <3>3. Started(w, t)' # {}
      BY <3>2 DEF Started
    <3>4. Pair(w, t)'
      BY PairStep
    <3> QED
      BY <2>1, <3>3, <3>4 DEF Pair, Faithful
  <2>2. CASE u # t
    <3>1. \A w \in Workers : Same(w)
      BY <1>2, <2>2 DEF Deliver, RunsOf, Started, PutOff, Run
    <3> QED
      BY <1>2, <2>2, <3>1, AttendedKept DEF Deliver, TypeOK
  <2> QED
    BY <2>1, <2>2
<1>3. ASSUME NEW t \in Tokens, OthersLeave(t) PROVE AttendedTask(u)'
  BY <1>0, <1>3, AttendedKept DEF OthersLeave, memory, TypeOK
<1>4. ProcessEnds => AttendedTask(u)'
  BY DEF ProcessEnds, AttendedTask
<1>5. ASSUME NEW v \in Workers, NEW r \in runs[v], RunStep(v, r) PROVE AttendedTask(u)'
  <2>0. r.token \in Tokens /\ Pair(v, r.token) /\ Pair(v, u)
    BY DEF TypeOK, Runs
  <2>1. ASSUME NEW at, Goes(v, r, at), UNCHANGED << token, due, attemptByToken, inflightKeys, timers, missed, dropped >>
        PROVE  AttendedTask(u)'
    <3>1. \A w \in Workers : Same(w) \/ Here(w)
      <4>1. CASE u = r.token
        <5>1. Here(v)
          BY <2>0, <2>1, <4>1, GoesPair
        <5>2. \A w \in Workers \ {v} : Same(w)
          BY <2>1 DEF Goes, RunsOf, Started, PutOff, TypeOK
        <5> QED
          BY <5>1, <5>2
      <4>2. CASE u # r.token
        <5>1. [r EXCEPT !.at = at].token = r.token
          BY DEF TypeOK, Runs
        <5> QED
          BY <2>1, <4>2, <5>1 DEF Goes, RunsOf, Started, PutOff, TypeOK
      <4> QED
        BY <4>1, <4>2
    <3> QED
      BY <2>1, <3>1, AttendedKept
  <2>2. ASSUME Returns(v, r), UNCHANGED << due, inflightKeys, timers, missed >>,
               token'[r.token] # "waiting" \/ r.token \in dropped', dropped \subseteq dropped',
               token'[r.token] = "waiting" => token[r.token] = "waiting",
               \A t \in Tokens \ {r.token} : token'[t] = token[t]
        PROVE  AttendedTask(u)'
    <3>1. \A w \in Workers : token'[u] # "waiting" \/ u \in dropped' \/ Same(w)
      BY <2>2 DEF Returns, RunsOf, Started, PutOff, TypeOK
    <3>2. token'[u] = "waiting" => token[u] = "waiting" /\ due'[u] = due[u]
      BY <2>2
    <3> QED
      BY <2>2, <3>1, <3>2, AttendedKept
  <2>3. ASSUME Retry(v, r) PROVE AttendedTask(u)'
    <3>1. \A w \in Workers : Same(w) \/ Here(w)
      <4>1. CASE u = r.token
        <5>1. Here(v)
          BY <2>0, <2>3, <4>1, RetryPair
        <5>2. \A w \in Workers \ {v} : Same(w)
          BY <2>3 DEF Retry, Returns, RunsOf, Started, PutOff, TypeOK
        <5> QED
          BY <5>1, <5>2
      <4>2. CASE u # r.token
        BY <2>3, <4>2 DEF Retry, Returns, RunsOf, Started, PutOff, TypeOK
      <4> QED
        BY <4>1, <4>2
    <3> QED
      BY <2>3, <3>1, AttendedKept DEF Retry
  <2> QED
    BY <1>4, <1>5, <2>0, <2>1, <2>2, <2>3, RunStepCases
<1>6. ASSUME NEW v \in Workers, NEW k \in timers[v], Tick(v, k) PROVE AttendedTask(u)'
  <2>0. k \in Keys
    BY DEF TypeOK
  <2>1. \A w \in Workers \ {v} : Same(w)
    BY <1>6 DEF Tick, RunsOf, Started, PutOff, TypeOK
  <2>2. CASE k[1] = u /\ k \notin inflightKeys[v]
    <3>1. Run(k[1], k[2], "load") \in RunsOf(v, u)'
      BY <1>6, <2>2 DEF Tick, RunsOf, Run, TypeOK
    <3>2. Here(v)
      BY <3>1
    <3> QED
      BY <1>6, <2>1, <3>2, AttendedKept DEF Tick
  <2>3. Same(v) => AttendedTask(u)'
    BY <1>6, <2>1, AttendedKept DEF Tick
  <2>4. k[1] # u => Same(v)
    BY <1>6 DEF Tick, RunsOf, Started, PutOff, Run, TypeOK
  <2>5. k[1] = u /\ k \in inflightKeys[v] => Same(v)
    BY <1>6 DEF Tick, RunsOf, Started, PutOff, TypeOK
  <2> QED
    BY <2>2, <2>3, <2>4, <2>5
<1>7. ASSUME NEW v \in Workers, StageMove(v) PROVE AttendedTask(u)'
  BY <1>0, <1>7, AttendedKept DEF StageMove, Start, Remove, Stop, EndStore, memory
<1>8. Crash => AttendedTask(u)'
  BY <1>4 DEF Crash
<1>9. UNCHANGED vars => AttendedTask(u)'
  BY <1>0, AttendedKept DEF vars, memory
<1> QED
  BY <1>1, <1>2, <1>3, <1>5, <1>6, <1>7, <1>8, <1>9 DEF Next, AnyRun, AnyTick, StageMove

----------------------------------------------------------------------------
LEMMA InitInv == Init => Inv
<1> SUFFICES ASSUME Init PROVE Inv
  OBVIOUS
<1>1. TypeOK
  BY WorkerAssumption DEF Init, TypeOK
<1>2. ASSUME NEW w \in Workers, NEW t \in Tokens PROVE Pair(w, t)
  <2>1. RunsOf(w, t) = {} /\ Started(w, t) = {} /\ PutOff(w, t) = {} /\ attemptByToken[w][t] = 0
    BY DEF Init, RunsOf, Started, PutOff
  <2>2. 0 \in 0..MaxAttempts /\ {t} \X (1..0) = {}
    BY WorkerAssumption
  <2>3. InOrder(w, t)
    BY <2>1, <2>2 DEF InOrder
  <2> QED
    BY <2>1, <2>3 DEF Pair, Faithful, Unborn, Init
<1>3. Attended
  BY DEF Init, Attended
<1> QED
  BY <1>1, <1>2, <1>3 DEF Inv

LEMMA NextInv == Inv /\ [Next]_vars => Inv'
<1> SUFFICES ASSUME Inv, [Next]_vars PROVE Inv'
  OBVIOUS
<1>1. TypeOK'
  BY TypeStep DEF Inv
<1>2. \A w \in Workers, t \in Tokens : Pair(w, t)'
  BY PairStep DEF Inv
<1>3. \A t \in Tokens : AttendedTask(t)'
  BY AttendedStep, AttendedByTask DEF Inv
<1>4. Attended' <=> \A t \in Tokens : AttendedTask(t)'
  BY DEF Attended, AttendedTask, AttendedBy, RunsOf, Started, PutOff
<1> QED
  BY <1>1, <1>2, <1>3, <1>4 DEF Inv

\* The invariant says what OneAtATime says.
LEMMA InvOneAtATime == Inv => OneAtATime
<1> SUFFICES ASSUME Inv, NEW w \in Workers, NEW r \in runs[w]
             PROVE  /\ \A s \in runs[w] : s.token = r.token => s = r
                    /\ {k \in inflightKeys[w] : k[1] = r.token} = {r.token} \X (1..r.attempt)
  BY DEF OneAtATime
<1>1. r.token \in Tokens
  BY DEF Inv, TypeOK, Runs
<1>2. RunsOf(w, r.token) = {r} /\ Started(w, r.token) = {r.token} \X (1..r.attempt)
  BY <1>1, RunKnown DEF Inv
<1> QED
  BY <1>2 DEF RunsOf, Started

\* The inductive invariant holds throughout.
THEOREM Invariance == Spec => []Inv
BY InitInv, NextInv, PTL DEF Spec

\* Type correctness: no worker ever begins an attempt beyond maxAttempts.
THEOREM TypeCorrectness == Spec => []TypeOK
<1>1. Inv => TypeOK
  BY DEF Inv
<1> QED
  BY <1>1, Invariance, PTL

\* A worker is never at the same task twice, and makes each attempt once, in order.
THEOREM AttemptsInTurn == Spec => []OneAtATime
BY InvOneAtATime, Invariance, PTL

\* A waiting task that was announced to a worker is worked on or put off, until the process ends or the engine refuses
\* the worker's command: then runCommand returns without a word and the key stays in inflightKeys (dropped).
THEOREM NobodyForgotten == Spec => []Attended
<1>1. Inv => Attended
  BY DEF Inv
<1> QED
  BY <1>1, Invariance, PTL

-----------------------------------------------------------------------------
(* Who is signed in                                                         *)

Cookies == [who : Visitors, n : Nat]
Whats == {"login", "accept", "try key", "logout", "info", "me", "call"}
Whos == Visitors \cup {"nobody", "key"}
Requests ==
    [n : Nat \ {0}, what : Whats, who : Whos, with : Cookies \cup {NoCookie}, key : BOOLEAN,
     answer : {"none", "welcome", "refused", "forbidden"}]

SessionTypes ==
    /\ sent \in Nat /\ shownAs \in Shown /\ guest \in {"gone", "unknown", "found", "invalid"}
    /\ saidWhy \in {"nothing", "session ended", "key refused"}
    /\ keyHeld \in BOOLEAN /\ asking \in BOOLEAN /\ mixed \in BOOLEAN /\ unheard \in BOOLEAN /\ keyGood \in BOOLEAN
    /\ offer \in Visitors \cup {"nobody"} /\ openSessions \subseteq Cookies /\ jar \in Cookies \cup {NoCookie}
    /\ outgoing \subseteq Requests
    /\ keyHeld <=> shownAs = "key"

\* A cookie has the number of the sign-in that brought it, so that one that is still to come is not known yet.
Numbered ==
    /\ jar.n <= sent /\ \A s \in openSessions : s.n <= sent
    /\ \A c \in outgoing :
          /\ c.n <= sent /\ c.with.n <= sent /\ jar.n # c.n
          /\ \A d \in outgoing : (d.n = c.n => d = c) /\ d.with.n # c.n
          /\ c.answer = "none" => \A s \in openSessions : s.n # c.n

\* What is under way, and what the server has answered.
UnderWay(c) ==
    /\ asking => c.what \in {"me", "info", "accept"}
    /\ c.what = "me" => /\ asking /\ ~c.key /\ c.answer # "forbidden"
                        /\ \A d \in outgoing : d.what = "me" => d = c
                        /\ c.answer = "welcome" => c.with \in Cookies
    /\ c.what \in {"me", "call"} /\ c.answer = "refused" => c.with \notin openSessions
    /\ c.what = "login" => c.who \in Visitors
    /\ c.what = "try key" => c.who = "key"
    /\ c.what = "accept" => c.who \in Visitors \/ (c.who = "nobody" /\ offer = "nobody" /\ c.answer # "welcome")

\* Of whom the browser's cookie and the requests under way are.
Unmixed ==
    /\ shownAs \in Visitors => jar.who = shownAs
    /\ saidWhy = "session ended" => jar \notin openSessions
    /\ ~unheard /\ shownAs \notin Visitors => jar \notin openSessions \/ \E c \in outgoing : c.what \in {"me", "logout"}
    /\ \A c \in outgoing :
          /\ c.what = "me" \/ (c.what = "call" /\ shownAs # "nobody") => c.with = jar
          /\ c.what \in {"logout", "try key"} => shownAs = "nobody"

SessionInv == SessionTypes /\ Numbered /\ (\A c \in outgoing : UnderWay(c)) /\ (~mixed => Unmixed)

\* The parts of the invariant that a step which only ends requests leaves alone.
LEMMA SessionInit == ConsoleInit => SessionInv
  <1> SUFFICES ASSUME ConsoleInit PROVE SessionInv
      OBVIOUS
  <1>1. Cookie(Early, 0) \in Cookies /\ Cookie(Early, 0).n = 0 /\ NoCookie.n = 0
      BY SessionAssumption DEF Cookies, Cookie, NoCookie
  <1>2. jar \in {NoCookie, Cookie(Early, 0)} /\ openSessions \subseteq {Cookie(Early, 0)} /\ outgoing = {} /\ sent = 0
      BY DEF ConsoleInit
  <1>3. SessionTypes
      <2>1. keyHeld \in BOOLEAN /\ shownAs = (IF keyHeld THEN "key" ELSE "nobody")
          BY DEF ConsoleInit
      <2>2. shownAs \in Shown /\ (keyHeld <=> shownAs = "key")
          BY <2>1 DEF Shown
      <2>3. asking \in BOOLEAN /\ mixed \in BOOLEAN /\ unheard \in BOOLEAN /\ keyGood \in BOOLEAN
            /\ guest = "gone" /\ saidWhy = "nothing" /\ offer \in Visitors
          BY DEF ConsoleInit
      <2>4. openSessions \subseteq Cookies /\ jar \in Cookies \cup {NoCookie} /\ outgoing \subseteq Requests /\ sent \in Nat
          BY <1>1, <1>2
      <2> QED BY <2>1, <2>2, <2>3, <2>4 DEF SessionTypes
  <1>4. Numbered
      BY <1>1, <1>2 DEF Numbered
  <1> QED
      BY <1>3, <1>4, SessionAssumption DEF ConsoleInit, SessionInv, Unmixed, UnderWay, NoCookie, Cookie

\* A request that is made is a new one and carries the cookie of now.
LEMMA RequestMade ==
    ASSUME SessionTypes, Numbered, NEW c \in Requests, c.n = sent + 1, c.with = jar, c.answer = "none",
           Sends(c), UNCHANGED << jar, openSessions >>
    PROVE  Numbered' /\ outgoing' \subseteq Requests /\ sent' \in Nat
  <1>1. outgoing' = outgoing \cup {c} /\ sent' = sent + 1 /\ sent \in Nat /\ outgoing \subseteq Requests
      BY DEF Sends, SessionTypes
  <1>2. \A s \in Cookies \cup {NoCookie} : s.n \in Nat
      BY DEF Cookies, NoCookie
  <1>2a. \A d \in Requests : d.n \in Nat /\ d.with \in Cookies \cup {NoCookie}
      BY DEF Requests
  <1>2b. jar.n \in Nat /\ (\A s \in openSessions : s.n \in Nat) /\ \A d \in outgoing : d.n \in Nat /\ d.with.n \in Nat
      BY <1>1, <1>2, <1>2a DEF SessionTypes
  <1>3. jar.n <= sent /\ \A d \in outgoing : d.n <= sent /\ d.with.n <= sent
      BY DEF Numbered
  <1>4. jar'.n <= sent' /\ \A s \in openSessions' : s.n <= sent'
      BY <1>1, <1>2b DEF Numbered
  <1>5. ASSUME NEW d \in outgoing' PROVE
           /\ d.n <= sent' /\ d.with.n <= sent' /\ jar'.n # d.n
           /\ d.answer = "none" => \A s \in openSessions' : s.n # d.n
      BY <1>1, <1>2b, <1>5 DEF Numbered
  <1>6. ASSUME NEW d \in outgoing', NEW x \in outgoing' PROVE (x.n = d.n => x = d) /\ x.with.n # d.n
      <2>1. CASE x = c /\ d = c
          BY <2>1, <1>1, <1>2b, <1>3
      <2>2. CASE x = c /\ d \in outgoing
          BY <2>2, <1>1, <1>2b, <1>3 DEF Numbered
      <2>3. CASE x \in outgoing /\ d = c
          BY <2>3, <1>1, <1>2b, <1>3
      <2>4. CASE x \in outgoing /\ d \in outgoing
          BY <2>4 DEF Numbered
      <2> QED BY <2>1, <2>2, <2>3, <2>4, <1>1, <1>6
  <1> QED
      BY <1>1, <1>4, <1>5, <1>6 DEF Numbered

\* A request that is over leaves the others as they were.
LEMMA RequestOver ==
    ASSUME SessionTypes, Numbered, NEW c \in outgoing, outgoing' = outgoing \ {c}, UNCHANGED << jar, openSessions, sent >>
    PROVE  Numbered'
  BY DEF Numbered

\* A request that is answered keeps its number.
LEMMA RequestAnswered ==
    ASSUME SessionTypes, Numbered, NEW c \in outgoing, c.answer = "none",
           NEW a \in {"welcome", "refused", "forbidden"}, Answered(c, a),
           UNCHANGED << jar, sent >>, openSessions' \subseteq openSessions
    PROVE  /\ Numbered' /\ outgoing' \subseteq Requests
           /\ \A d \in outgoing' : d = [c EXCEPT !.answer = a] \/ (d \in outgoing /\ d # c)
           /\ [c EXCEPT !.answer = a] \in outgoing'
  <1> DEFINE e == [c EXCEPT !.answer = a]
  <1>1. e \in Requests /\ e.n = c.n /\ e.with = c.with /\ e.answer = a /\ e.answer # "none"
      BY DEF SessionTypes, Requests
  <1>2. outgoing' = (outgoing \ {c}) \cup {e}
      BY DEF Answered
  <1> HIDE DEF e
  <1>3. outgoing' \subseteq Requests /\ \A d \in outgoing' : d = e \/ (d \in outgoing /\ d # c)
      BY <1>1, <1>2 DEF SessionTypes
  <1>4. Numbered'
      <2>1. jar'.n <= sent' /\ \A s \in openSessions' : s.n <= sent'
          BY DEF Numbered
      <2>2. ASSUME NEW d \in outgoing' PROVE
               /\ d.n <= sent' /\ d.with.n <= sent' /\ jar'.n # d.n
               /\ d.answer = "none" => \A s \in openSessions' : s.n # d.n
          BY <1>1, <1>3, <2>2 DEF Numbered
      <2>3. ASSUME NEW d \in outgoing', NEW x \in outgoing' PROVE (x.n = d.n => x = d) /\ x.with.n # d.n
          BY <1>1, <1>3, <2>3 DEF Numbered
      <2> QED BY <2>1, <2>2, <2>3 DEF Numbered
  <1> QED
      BY <1>2, <1>3, <1>4 DEF e

\* What the server says to one that is welcome: a cookie nobody has yet.
LEMMA Welcomed ==
    ASSUME SessionTypes, Numbered, NEW c \in outgoing, c.answer = "none", NEW u \in Visitors,
           Welcomes(c, u), UNCHANGED << jar, sent >>
    PROVE  /\ Numbered' /\ outgoing' \subseteq Requests /\ openSessions' \subseteq Cookies
           /\ \A d \in outgoing' : d = [c EXCEPT !.answer = "welcome"] \/ (d \in outgoing /\ d # c)
           /\ [c EXCEPT !.answer = "welcome"] \in outgoing'
           /\ \A s \in {jar} \cup {d.with : d \in outgoing} : s \in openSessions' => s \in openSessions
  <1> DEFINE e == [c EXCEPT !.answer = "welcome"]
             k == Cookie(u, c.n)
  <1>1. e \in Requests /\ e.n = c.n /\ e.with = c.with /\ e.answer = "welcome" /\ c.n \in Nat
      BY DEF SessionTypes, Requests
  <1>2. k \in Cookies /\ k.n = c.n
      BY <1>1 DEF Cookie, Cookies
  <1>3. outgoing' = (outgoing \ {c}) \cup {e} /\ openSessions' = (openSessions \ {c.with}) \cup {k}
      BY DEF Answered, Welcomes
  <1> HIDE DEF e, k
  <1>4. outgoing' \subseteq Requests /\ \A d \in outgoing' : d = e \/ (d \in outgoing /\ d # c)
      BY <1>1, <1>3 DEF SessionTypes
  <1>5. Numbered'
      <2>1. jar'.n <= sent' /\ \A s \in openSessions' : s.n <= sent'
          BY <1>2, <1>3 DEF Numbered
      <2>2. ASSUME NEW d \in outgoing' PROVE
               /\ d.n <= sent' /\ d.with.n <= sent' /\ jar'.n # d.n
               /\ d.answer = "none" => \A s \in openSessions' : s.n # d.n
          BY <1>1, <1>2, <1>3, <1>4, <2>2 DEF Numbered
      <2>3. ASSUME NEW d \in outgoing', NEW x \in outgoing' PROVE (x.n = d.n => x = d) /\ x.with.n # d.n
          BY <1>1, <1>4, <2>3 DEF Numbered
      <2> QED BY <2>1, <2>2, <2>3 DEF Numbered
  <1>6. jar \in openSessions' => jar \in openSessions
      BY <1>2, <1>3 DEF Numbered
  <1>7. \A d \in outgoing : d.with \in openSessions' => d.with \in openSessions
      BY <1>2, <1>3 DEF Numbered
  <1>8. openSessions' \subseteq Cookies
      BY <1>2, <1>3 DEF SessionTypes
  <1> QED
      BY <1>3, <1>4, <1>5, <1>6, <1>7, <1>8 DEF e

LEMMA SessionNumbers ==
    ASSUME SessionTypes
    PROVE  /\ sent \in Nat /\ sent + 1 \in Nat \ {0} /\ sent + 2 \in Nat \ {0} /\ jar.n \in Nat
           /\ \A s \in openSessions : s.n \in Nat
           /\ \A c \in outgoing : c.n \in Nat /\ c.with.n \in Nat
  <1>1. sent \in Nat /\ openSessions \subseteq Cookies /\ jar \in Cookies \cup {NoCookie} /\ outgoing \subseteq Requests
      BY DEF SessionTypes
  <1>2. \A s \in Cookies \cup {NoCookie} : s.n \in Nat
      BY DEF Cookies, NoCookie
  <1>3. \A c \in Requests : c.n \in Nat /\ c.with \in Cookies \cup {NoCookie}
      BY DEF Requests
  <1> QED BY <1>1, <1>2, <1>3

\* A request that may be made at that moment.
LEMMA MadeInTurn ==
    ASSUME SessionInv, NEW c \in Requests, c.n = sent + 1, c.with = jar, c.answer = "none", Sends(c),
           c.what # "me", asking => c.what = "accept", UNCHANGED << asking, jar, openSessions, offer >>,
           c.what = "login" => c.who \in Visitors, c.what = "try key" => c.who = "key",
           c.what = "accept" => c.who \in Visitors \/ (c.who = "nobody" /\ offer = "nobody")
    PROVE  Numbered' /\ outgoing' \subseteq Requests /\ sent' \in Nat /\ \A d \in outgoing' : UnderWay(d)'
  <1>1. Numbered' /\ outgoing' \subseteq Requests /\ sent' \in Nat
      BY RequestMade DEF SessionInv
  <1>2. outgoing' = outgoing \cup {c}
      BY DEF Sends
  <1>3. UnderWay(c)'
      BY DEF UnderWay
  <1>4. ASSUME NEW d \in outgoing PROVE UnderWay(d)'
      <2>1. UnderWay(d)
          BY DEF SessionInv
      <2> QED BY <1>2, <2>1 DEF UnderWay
  <1> QED BY <1>1, <1>2, <1>3, <1>4

\* A call made with the cookie of now is a request.
LEMMA Words ==
    /\ "login" \in Whats /\ "accept" \in Whats /\ "try key" \in Whats /\ "logout" \in Whats
    /\ "info" \in Whats /\ "me" \in Whats /\ "call" \in Whats
    /\ "nobody" \in Whos /\ "key" \in Whos /\ \A u \in Visitors : u \in Whos
  BY DEF Whats, Whos

LEMMA CallIsRequest ==
    ASSUME SessionTypes, NEW what \in Whats, NEW who \in Whos
    PROVE  \E k \in Requests :
              /\ k = Call(what, who) /\ k.n = sent + 1 /\ k.with = jar /\ k.answer = "none"
              /\ k.what = what /\ k.who = who
  <1>1. sent + 1 \in Nat \ {0} /\ keyHeld \in BOOLEAN /\ jar \in Cookies \cup {NoCookie}
      BY SessionNumbers DEF SessionTypes
  <1>2. /\ Call(what, who) \in Requests /\ Call(what, who).n = sent + 1 /\ Call(what, who).with = jar
        /\ Call(what, who).answer = "none" /\ Call(what, who).what = what /\ Call(what, who).who = who
      BY <1>1 DEF Call, Requests
  <1> QED
      BY <1>2

LEMMA Loading ==
    ASSUME SessionInv, NEW invited \in BOOLEAN, Loads(invited)
    PROVE  SessionInv'
  <1>0. SessionTypes
      BY DEF SessionInv
  <1>1. PICK m \in Requests : /\ m = Call("me", "nobody") /\ m.n = sent + 1 /\ m.with = jar /\ m.answer = "none"
                              /\ m.what = "me" /\ m.who = "nobody"
      <2>1. "me" \in Whats /\ "nobody" \in Whos
          BY Words
      <2> QED BY <1>0, <2>1, CallIsRequest, Zenon
  <1>11. m.key = keyHeld
      BY <1>1 DEF Call
  <1>2. PICK k \in Requests : /\ k = Call("info", "nobody") /\ k.n = sent + 1 /\ k.with = jar /\ k.answer = "none"
                              /\ k.what = "info" /\ k.who = "nobody"
      <2>1. "info" \in Whats /\ "nobody" \in Whos
          BY Words
      <2> QED BY <1>0, <2>1, CallIsRequest, Zenon
  <1>3. PICK i \in Requests :
           i = [k EXCEPT !.n = sent + 2] /\ i.n = sent + 2 /\ i.with = jar /\ i.what = "info" /\ i.answer = "none"
      <2>1. sent + 2 \in Nat \ {0}
          BY <1>0, SessionNumbers
      <2> DEFINE x == [k EXCEPT !.n = sent + 2]
      <2>2. x \in Requests /\ x.n = sent + 2 /\ x.with = jar /\ x.what = "info" /\ x.answer = "none"
          BY <1>2, <2>1 DEF Requests
      <2> QED BY <2>2
  <1>4. outgoing' = {c \in {m, i} : IF c.what = "me" THEN ~keyHeld ELSE invited}
      BY <1>1, <1>2, <1>3 DEF Loads, Opened
  <1>5. outgoing' \subseteq {m, i} /\ (~keyHeld => m \in outgoing') /\ (m \in outgoing' => ~keyHeld)
      BY <1>1, <1>3, <1>4
  <1>6. /\ sent' = sent + 2 /\ shownAs' = (IF keyHeld THEN "key" ELSE "nobody") /\ asking' = ~keyHeld
        /\ guest' = (IF invited THEN "unknown" ELSE "gone") /\ saidWhy' = "nothing"
        /\ mixed' = FALSE /\ unheard' = keyHeld /\ UNCHANGED << keyHeld, jar, openSessions, keyGood, offer >>
      BY DEF Loads, Opened, serverVars
  <1>7. SessionTypes'
      <2>1. outgoing' \subseteq Requests
          BY <1>1, <1>3, <1>5
      <2>2. keyHeld \in BOOLEAN
          BY DEF SessionInv, SessionTypes
      <2>3. shownAs' \in Shown /\ (keyHeld' <=> shownAs' = "key") /\ asking' \in BOOLEAN /\ mixed' \in BOOLEAN /\ unheard' \in BOOLEAN
          BY <1>6, <2>2 DEF Shown
      <2>4. sent' \in Nat /\ guest' \in {"gone", "unknown", "found", "invalid"}
          BY <1>6, SessionNumbers DEF SessionInv
      <2> QED BY <1>6, <2>1, <2>2, <2>3, <2>4 DEF SessionInv, SessionTypes
  <1>8. Numbered'
      <2>1. sent \in Nat /\ jar.n \in Nat /\ jar.n <= sent /\ \A s \in openSessions : s.n \in Nat /\ s.n <= sent
          BY SessionNumbers DEF SessionInv, Numbered
      <2>2. \A c \in outgoing' : c.n \in {sent + 1, sent + 2} /\ c.with = jar
          BY <1>1, <1>3, <1>5
      <2>3. \A c, d \in outgoing' : c.n = d.n => c = d
          <3>1. m.n # i.n
              BY <1>1, <1>3, <2>1
          <3> QED BY <1>5, <3>1
      <2> QED BY <1>6, <2>1, <2>2, <2>3 DEF Numbered
  <1>9. \A c \in outgoing' : UnderWay(c)'
      <2>1. ASSUME m \in outgoing' PROVE UnderWay(m)'
          BY <1>1, <1>11, <1>3, <1>5, <1>6, <2>1 DEF UnderWay
      <2>2. ASSUME i \in outgoing' PROVE UnderWay(i)'
          BY <1>3, <2>2 DEF UnderWay
      <2> QED BY <1>5, <2>1, <2>2
  <1>10. Unmixed'
      <2>1. shownAs' \notin Visitors
          BY <1>6, SessionAssumption
      <2>2. ~unheard' => \E c \in outgoing' : c.what = "me"
          BY <1>1, <1>5, <1>6
      <2>3. ASSUME NEW c \in outgoing' PROVE c.what \in {"me", "info"} /\ c.with = jar
          BY <1>1, <1>3, <1>5, <2>3
      <2> QED BY <1>6, <2>1, <2>2, <2>3 DEF Unmixed
  <1> QED BY <1>7, <1>8, <1>9, <1>10 DEF SessionInv

\* What is typed at the sign-in or the invitation page.
LEMMA SubmittingThis ==
    ASSUME SessionInv, NEW c \in Requests,
           c.n = sent + 1, c.with = jar, c.answer = "none", Sends(c), c.what \in {"login", "try key", "accept"},
           asking => c.what = "accept", c.what = "login" => c.who \in Visitors,
           c.what = "try key" => c.who = "key" /\ shownAs = "nobody",
           c.what = "accept" => c.who \in Visitors \/ (c.who = "nobody" /\ offer = "nobody"),
           UNCHANGED << shownAs, keyHeld, asking, guest, saidWhy, jar, serverVars, mixed, unheard >>
    PROVE  SessionInv'
  <1>3. Numbered' /\ outgoing' \subseteq Requests /\ sent' \in Nat /\ \A d \in outgoing' : UnderWay(d)'
      BY MadeInTurn DEF serverVars
  <1>4. SessionTypes'
      BY <1>3 DEF SessionInv, SessionTypes, serverVars
  <1>5. Unmixed => Unmixed'
      BY DEF Unmixed, Sends, serverVars
  <1> QED BY <1>3, <1>4, <1>5 DEF SessionInv

LEMMA Submitting ==
    ASSUME SessionInv, (\E u \in Visitors : SubmitsPassword(u)) \/ SubmitsKey \/ AcceptsInvite
    PROVE  SessionInv'
  <1>0. SessionTypes
      BY DEF SessionInv
  <1>1. CASE \E u \in Visitors : SubmitsPassword(u)
      <2> PICK u \in Visitors : SubmitsPassword(u)
          BY <1>1
      <2>1. PICK k \in Requests : /\ k = Call("login", u) /\ k.n = sent + 1 /\ k.with = jar /\ k.answer = "none"
                                  /\ k.what = "login" /\ k.who = u
          <3>1. "login" \in Whats /\ u \in Whos
              BY Words
          <3> QED BY <1>0, <3>1, CallIsRequest, Zenon
      <2>2. /\ Sends(k) /\ ~asking
            /\ UNCHANGED << shownAs, keyHeld, asking, guest, saidWhy, jar, serverVars, mixed, unheard >>
          BY <2>1 DEF SubmitsPassword, AtSignIn
      <2> QED BY <2>1, <2>2, SubmittingThis
  <1>2. CASE SubmitsKey
      <2>1. PICK k \in Requests : /\ k = Call("try key", "key") /\ k.n = sent + 1 /\ k.with = jar /\ k.answer = "none"
                                  /\ k.what = "try key" /\ k.who = "key"
          <3>1. "try key" \in Whats /\ "key" \in Whos
              BY Words
          <3> QED BY <1>0, <3>1, CallIsRequest, Zenon
      <2>3. PICK c \in Requests : /\ c = [k EXCEPT !.key = TRUE] /\ c.n = sent + 1 /\ c.with = jar /\ c.answer = "none"
                                  /\ c.what = "try key" /\ c.who = "key"
          <3>1. [k EXCEPT !.key = TRUE] \in Requests
              BY DEF Requests
          <3>2. /\ [k EXCEPT !.key = TRUE].n = k.n /\ [k EXCEPT !.key = TRUE].with = k.with
                /\ [k EXCEPT !.key = TRUE].answer = k.answer /\ [k EXCEPT !.key = TRUE].what = k.what
                /\ [k EXCEPT !.key = TRUE].who = k.who
              BY DEF Requests
          <3> QED BY <2>1, <3>1, <3>2
      <2>2. /\ Sends(c) /\ shownAs = "nobody" /\ ~asking
            /\ UNCHANGED << shownAs, keyHeld, asking, guest, saidWhy, jar, serverVars, mixed, unheard >>
          BY <1>2, <2>1, <2>3 DEF SubmitsKey, AtSignIn
      <2> QED BY <2>2, <2>3, SubmittingThis
  <1>3. CASE AcceptsInvite
      <2>1. offer \in Whos /\ offer \in Visitors \cup {"nobody"}
          BY DEF SessionInv, SessionTypes, Whos
      <2>2. PICK k \in Requests : /\ k = Call("accept", offer) /\ k.n = sent + 1 /\ k.with = jar /\ k.answer = "none"
                                  /\ k.what = "accept" /\ k.who = offer
          <3>1. "accept" \in Whats /\ offer \in Whos
              BY <2>1, Words
          <3> QED BY <1>0, <2>1, <3>1, CallIsRequest, Zenon
      <2>3. /\ Sends(k)
            /\ UNCHANGED << shownAs, keyHeld, asking, guest, saidWhy, jar, serverVars, mixed, unheard >>
          BY <1>3, <2>2 DEF AcceptsInvite
      <2> QED BY <2>1, <2>2, <2>3, SubmittingThis
  <1> QED BY <1>1, <1>2, <1>3

LEMMA Working == ASSUME SessionInv, Works PROVE SessionInv'
  <1>0. SessionTypes
      BY DEF SessionInv
  <1>1. PICK c \in Requests : /\ c = Call("call", "nobody") /\ c.n = sent + 1 /\ c.with = jar /\ c.answer = "none"
                              /\ c.what = "call" /\ c.who = "nobody"
      <2>1. "call" \in Whats /\ "nobody" \in Whos
          BY Words
      <2> QED BY <1>0, <2>1, CallIsRequest, Zenon
  <1>2. Sends(c) /\ ~asking /\ UNCHANGED << pageVars, jar, serverVars, mixed, unheard >>
      BY <1>1 DEF Works, AtWork
  <1>3. Numbered' /\ outgoing' \subseteq Requests /\ sent' \in Nat /\ \A d \in outgoing' : UnderWay(d)'
      BY <1>1, <1>2, MadeInTurn DEF serverVars, pageVars
  <1>4. SessionTypes'
      BY <1>2, <1>3 DEF SessionInv, SessionTypes, serverVars, pageVars
  <1>5. Unmixed => Unmixed'
      BY <1>1, <1>2 DEF Unmixed, Sends, serverVars, pageVars
  <1> QED BY <1>2, <1>3, <1>4, <1>5 DEF SessionInv, pageVars

LEMMA SigningOut == ASSUME SessionInv, SignsOutHere PROVE SessionInv'
  <1>1. /\ shownAs # "nobody" /\ ~asking /\ shownAs' = "nobody" /\ keyHeld' = FALSE /\ saidWhy' = "nothing"
        /\ UNCHANGED << asking, guest, jar, serverVars, mixed, unheard >>
      BY DEF SignsOutHere, AtWork, Store
  <1>2. CASE shownAs \in Visitors
      <2>0. SessionTypes
          BY DEF SessionInv
      <2>1. PICK k \in Requests : /\ k = Call("logout", "nobody") /\ k.n = sent + 1 /\ k.with = jar /\ k.answer = "none"
                                  /\ k.what = "logout" /\ k.who = "nobody"
          <3>1. "logout" \in Whats /\ "nobody" \in Whos
              BY Words
          <3> QED BY <2>0, <3>1, CallIsRequest, Zenon
      <2>3. PICK c \in Requests : /\ c = [k EXCEPT !.key = FALSE] /\ c.n = sent + 1 /\ c.with = jar /\ c.answer = "none"
                                  /\ c.what = "logout" /\ c.who = "nobody"
          <3>1. [k EXCEPT !.key = FALSE] \in Requests
              BY DEF Requests
          <3>2. /\ [k EXCEPT !.key = FALSE].n = k.n /\ [k EXCEPT !.key = FALSE].with = k.with
                /\ [k EXCEPT !.key = FALSE].answer = k.answer /\ [k EXCEPT !.key = FALSE].what = k.what
                /\ [k EXCEPT !.key = FALSE].who = k.who
              BY DEF Requests
          <3> QED BY <2>1, <3>1, <3>2
      <2>2. Sends(c)
          BY <1>2, <2>1, <2>3 DEF SignsOutHere, WasUser
      <2>4. Numbered' /\ outgoing' \subseteq Requests /\ sent' \in Nat /\ \A d \in outgoing' : UnderWay(d)'
          BY <1>1, <2>2, <2>3, MadeInTurn DEF serverVars
      <2>5. SessionTypes'
          BY <1>1, <2>4 DEF SessionInv, SessionTypes, serverVars, Shown
      <2>6. Unmixed => Unmixed'
          BY <1>1, <2>2, <2>3, SessionAssumption DEF Unmixed, Sends, serverVars
      <2> QED BY <1>1, <2>4, <2>5, <2>6 DEF SessionInv
  <1>3. CASE shownAs \notin Visitors
      <2>1. UNCHANGED << outgoing, sent >>
          BY <1>3 DEF SignsOutHere, WasUser
      <2>2. SessionTypes'
          BY <1>1, <2>1 DEF SessionInv, SessionTypes, serverVars, Shown
      <2>3. Numbered' /\ \A d \in outgoing' : UnderWay(d)'
          BY <1>1, <2>1 DEF SessionInv, Numbered, UnderWay, serverVars
      <2>4. Unmixed => Unmixed'
          BY <1>1, <1>3, <2>1, SessionAssumption DEF Unmixed, serverVars
      <2> QED BY <1>1, <2>2, <2>3, <2>4 DEF SessionInv
  <1> QED BY <1>2, <1>3

\* A session that ends on the server, a key that is revoked and an invitation that is left.
LEMMA Elsewhere == ASSUME SessionInv, SessionExpires \/ KeyRevoked \/ LeavesInvite PROVE SessionInv'
  <1>1. /\ openSessions' \subseteq openSessions /\ (keyGood' = keyGood \/ keyGood' = FALSE) /\ sent' \in {sent, sent + 1}
        /\ (guest' = guest \/ guest' = "gone")
        /\ UNCHANGED << shownAs, keyHeld, asking, saidWhy, jar, offer, outgoing, mixed, unheard >>
      <2>1. CASE SessionExpires
          BY <2>1 DEF SessionExpires, Expires, pageVars
      <2>2. CASE KeyRevoked
          BY <2>2 DEF KeyRevoked, Revoked, pageVars
      <2>3. CASE LeavesInvite
          BY <2>3 DEF LeavesInvite, serverVars
      <2> QED BY <2>1, <2>2, <2>3
  <1>2. SessionTypes'
      <2>1. sent' \in Nat
          BY <1>1, SessionNumbers DEF SessionInv
      <2>2. guest' \in {"gone", "unknown", "found", "invalid"} /\ keyGood' \in BOOLEAN /\ openSessions' \subseteq Cookies
          BY <1>1 DEF SessionInv, SessionTypes
      <2> QED BY <1>1, <2>1, <2>2 DEF SessionInv, SessionTypes
  <1>3. Numbered'
      <2>1. sent' \in Nat /\ sent <= sent'
          BY <1>1, SessionNumbers DEF SessionInv
      <2> QED BY <1>1, <2>1, SessionNumbers DEF SessionInv, Numbered
  <1>4. \A d \in outgoing' : UnderWay(d)'
      BY <1>1 DEF SessionInv, UnderWay
  <1>5. Unmixed => Unmixed'
      BY <1>1 DEF Unmixed
  <1> QED BY <1>1, <1>2, <1>3, <1>4, <1>5 DEF SessionInv

\* What an answer has to be for the rest to stay true.
LEMMA AnsweredWell ==
    ASSUME SessionInv, NEW c \in outgoing, c.answer = "none", NEW a \in {"welcome", "refused", "forbidden"},
           Answered(c, a), Numbered', openSessions' \subseteq Cookies,
           jar \in openSessions' => jar \in openSessions,
           \A d \in outgoing : d.with \in openSessions' => d.with \in openSessions,
           offer' \in {offer, "nobody"}, UNCHANGED << pageVars, jar, keyGood, mixed, unheard, sent >>,
           c.what = "me" => a # "forbidden" /\ (a = "welcome" => c.with \in Cookies),
           c.what \in {"me", "call"} /\ a = "refused" => c.with \notin openSessions',
           c.what = "accept" /\ a = "welcome" => c.who \in Visitors
    PROVE  SessionInv'
  <1>1. c \in Requests
      BY DEF SessionInv, SessionTypes
  <1>2. PICK e \in Requests : /\ e = [c EXCEPT !.answer = a] /\ e.answer = a /\ e.what = c.what /\ e.who = c.who
                              /\ e.with = c.with /\ e.key = c.key
      <2>1. [c EXCEPT !.answer = a] \in Requests
          BY <1>1 DEF Requests
      <2>2. /\ [c EXCEPT !.answer = a].answer = a /\ [c EXCEPT !.answer = a].what = c.what
            /\ [c EXCEPT !.answer = a].who = c.who /\ [c EXCEPT !.answer = a].with = c.with
            /\ [c EXCEPT !.answer = a].key = c.key
          BY <1>1 DEF Requests
      <2> QED BY <2>1, <2>2
  <1>3. outgoing' = (outgoing \ {c}) \cup {e}
      BY <1>2 DEF Answered
  <1>4. SessionTypes'
      <2>1. outgoing' \subseteq Requests
          BY <1>2, <1>3 DEF SessionInv, SessionTypes
      <2>2. offer' \in Visitors \cup {"nobody"}
          BY DEF SessionInv, SessionTypes
      <2> QED BY <2>1, <2>2 DEF SessionInv, SessionTypes, pageVars
  <1>5. ASSUME NEW d \in outgoing' PROVE UnderWay(d)'
      <2>1. CASE d = e
          <3>1. UnderWay(c)
              BY DEF SessionInv
          <3>2. asking' = asking
              BY DEF pageVars
          <3>3. c.what = "me" => \A x \in outgoing' : x.what = "me" => x = e
              BY <1>3, <3>1 DEF UnderWay
          <3>4. c.what = "accept" => c.who \in Visitors \/ (c.who = "nobody" /\ offer' = "nobody" /\ a # "welcome")
              BY <3>1, SessionAssumption DEF UnderWay
          <3> QED BY <1>2, <2>1, <3>1, <3>2, <3>3, <3>4 DEF UnderWay
      <2>2. CASE d \in outgoing /\ d # c
          <3>1. UnderWay(d)
              BY <2>2 DEF SessionInv
          <3>2. asking' = asking
              BY DEF pageVars
          <3>3. d.what = "me" => \A x \in outgoing' : x.what = "me" => x = d
              BY <1>2, <1>3, <2>2, <3>1 DEF UnderWay
          <3>4. d.what = "accept" => d.who \in Visitors \/ (d.who = "nobody" /\ offer' = "nobody" /\ d.answer # "welcome")
              BY <3>1 DEF UnderWay
          <3> QED BY <2>2, <3>1, <3>2, <3>3, <3>4 DEF UnderWay
      <2> QED BY <1>3, <2>1, <2>2
  <1>6. Unmixed => Unmixed'
      <2> SUFFICES ASSUME Unmixed PROVE Unmixed'
          OBVIOUS
      <2>1. UNCHANGED << shownAs, saidWhy, jar, unheard >>
          BY DEF pageVars
      <2>2. ~unheard' /\ shownAs' \notin Visitors => jar' \notin openSessions' \/ \E d \in outgoing' : d.what \in {"me", "logout"}
          <3>1. SUFFICES ASSUME ~unheard, shownAs \notin Visitors, jar \in openSessions
                PROVE  \E d \in outgoing' : d.what \in {"me", "logout"}
              BY <2>1
          <3>2. PICK d \in outgoing : d.what \in {"me", "logout"}
              BY <3>1 DEF Unmixed
          <3>3. CASE d = c
              <4>1. e \in outgoing' /\ e.what \in {"me", "logout"}
                  BY <1>2, <1>3, <3>2, <3>3
              <4> QED BY <4>1
          <3>4. CASE d # c
              BY <1>3, <3>2, <3>4
          <3> QED BY <3>3, <3>4
      <2>3. ASSUME NEW d \in outgoing' PROVE
               /\ d.what = "me" \/ (d.what = "call" /\ shownAs' # "nobody") => d.with = jar'
               /\ d.what \in {"logout", "try key"} => shownAs' = "nobody"
          BY <1>2, <1>3, <2>1, <2>3 DEF Unmixed
      <2>4. shownAs' \in Visitors => jar'.who = shownAs'
          BY <2>1 DEF Unmixed
      <2>5. saidWhy' = "session ended" => jar' \notin openSessions'
          BY <2>1 DEF Unmixed
      <2> QED BY <2>2, <2>3, <2>4, <2>5 DEF Unmixed
  <1> QED BY <1>4, <1>5, <1>6 DEF SessionInv

LEMMA Handling == ASSUME SessionInv, NEW c \in outgoing, Handles(c) PROVE SessionInv'
  <1>1. c.answer = "none" /\ UNCHANGED << pageVars, jar, sent, mixed, unheard, keyGood >> /\ offer' \in {offer, "nobody"}
      BY DEF Handles, serverVars
  <1>2. SessionTypes /\ Numbered /\ UnderWay(c) /\ c \in Requests /\ openSessions \subseteq Cookies
      BY DEF SessionInv, SessionTypes
  \* Nobody is let in.
  <1>3. ASSUME NEW a \in {"welcome", "refused", "forbidden"}, Answered(c, a), openSessions' \subseteq openSessions,
               c.what = "me" => a # "forbidden" /\ (a = "welcome" => c.with \in Cookies),
               c.what \in {"me", "call"} /\ a = "refused" => c.with \notin openSessions',
               c.what = "accept" => a # "welcome"
        PROVE  SessionInv'
      <2>1. Numbered'
          BY <1>1, <1>2, <1>3, RequestAnswered
      <2>2. openSessions' \subseteq Cookies
          BY <1>2, <1>3
      <2> QED BY <1>1, <1>3, <2>1, <2>2, AnsweredWell
  <1>4. ASSUME NEW u \in Visitors, Welcomes(c, u), c.what \in {"login", "accept"}, c.what = "accept" => u = c.who
        PROVE  SessionInv'
      <2>1. Answered(c, "welcome")
          BY <1>4 DEF Welcomes
      <2>2. Numbered' /\ openSessions' \subseteq Cookies
          BY <1>1, <1>2, <1>4, Welcomed
      <2>3. \A s \in {jar} \cup {d.with : d \in outgoing} : s \in openSessions' => s \in openSessions
          BY <1>1, <1>2, <1>4, Welcomed
      <2>4. /\ jar \in openSessions' => jar \in openSessions
            /\ \A d \in outgoing : d.with \in openSessions' => d.with \in openSessions
          BY <2>3
      <2> QED BY <1>1, <1>4, <2>1, <2>2, <2>4, AnsweredWell
  <1>5. CASE c.what = "login"
      <2>1. c.who \in Visitors
          BY <1>2, <1>5 DEF UnderWay
      <2>2. Welcomes(c, c.who) \/ (Answered(c, "refused") /\ UNCHANGED openSessions)
          BY <1>5 DEF Handles
      <2> QED BY <1>3, <1>4, <1>5, <2>1, <2>2
  <1>6. CASE c.what = "accept"
      <2>1. IF offer # "nobody" THEN Welcomes(c, c.who) ELSE Answered(c, "refused") /\ UNCHANGED openSessions
          BY <1>6 DEF Handles
      <2>2. offer # "nobody" => c.who \in Visitors
          BY <1>2, <1>6 DEF UnderWay
      <2> QED BY <1>3, <1>4, <1>6, <2>1, <2>2
  <1>7. CASE c.what = "logout"
      <2>1. Answered(c, "welcome") /\ openSessions' \subseteq openSessions
          BY <1>7 DEF Handles
      <2> QED BY <1>3, <1>7, <2>1
  <1>8. CASE c.what = "info"
      <2>1. UNCHANGED openSessions /\ (Answered(c, "refused") \/ Answered(c, "welcome"))
          BY <1>8 DEF Handles, serverVars
      <2> QED BY <1>3, <1>8, <2>1
  <1>9. CASE c.what \in {"me", "call", "try key"}
      <2>1. UNCHANGED openSessions
            /\ Answered(c, IF c.key THEN (IF keyGood THEN "welcome" ELSE "forbidden")
                           ELSE IF c.with \in openSessions THEN "welcome" ELSE "refused")
          BY <1>9 DEF Handles, serverVars
      <2>2. c.what = "me" => ~c.key
          BY <1>2 DEF UnderWay
      <2>3. CASE c.key /\ keyGood
          <3>1. Answered(c, "welcome")
              BY <2>1, <2>3
          <3> QED BY <1>3, <1>9, <2>1, <2>2, <2>3, <3>1
      <2>4. CASE c.key /\ ~keyGood
          <3>1. Answered(c, "forbidden")
              BY <2>1, <2>4
          <3> QED BY <1>3, <1>9, <2>1, <2>2, <2>4, <3>1
      <2>5. CASE ~c.key /\ c.with \in openSessions
          <3>1. Answered(c, "welcome") /\ c.with \in Cookies
              BY <1>2, <2>1, <2>5
          <3> QED BY <1>3, <1>9, <2>1, <2>2, <2>5, <3>1
      <2>6. CASE ~c.key /\ c.with \notin openSessions
          <3>1. Answered(c, "refused")
              BY <2>1, <2>6
          <3> QED BY <1>3, <1>9, <2>1, <2>2, <2>6, <3>1
      <2> QED BY <2>3, <2>4, <2>5, <2>6
  <1> QED BY <1>5, <1>6, <1>7, <1>8, <1>9 DEF Handles

\* A request whose answer has come or is lost.
LEMMA RestUnderWay ==
    ASSUME SessionInv, NEW c \in outgoing, outgoing' = outgoing \ {c}, UNCHANGED << openSessions, offer >>,
           asking' => asking, asking' = asking \/ c.what = "me"
    PROVE  outgoing' \subseteq Requests /\ \A d \in outgoing' : UnderWay(d)'
  <1>1. outgoing' \subseteq Requests
      BY DEF SessionInv, SessionTypes
  <1>2. ASSUME NEW d \in outgoing' PROVE UnderWay(d)'
      <2>1. UnderWay(d) /\ UnderWay(c) /\ d # c /\ d \in outgoing
          BY DEF SessionInv
      <2> QED BY <2>1 DEF UnderWay
  <1> QED BY <1>1, <1>2

LEMMA Closing ==
    ASSUME SessionInv, NEW c \in outgoing, MeAnswered(c) \/ InfoAnswered(c) \/ CallAnswered(c) \/ AnswerLost(c)
    PROVE  SessionInv'
  <1>1. /\ outgoing' = outgoing \ {c} /\ UNCHANGED << jar, openSessions, keyGood, offer, sent, mixed >>
        /\ asking' \in BOOLEAN /\ (asking' => asking) /\ (asking' = asking \/ c.what = "me")
        /\ unheard' \in BOOLEAN /\ (unheard => unheard') /\ guest' \in {"gone", "unknown", "found", "invalid"}
      <2>1. asking \in BOOLEAN /\ unheard \in BOOLEAN /\ guest \in {"gone", "unknown", "found", "invalid"}
          BY DEF SessionInv, SessionTypes
      <2>2. CASE MeAnswered(c)
          BY <2>1, <2>2 DEF MeAnswered, Rest, serverVars
      <2>3. CASE InfoAnswered(c)
          BY <2>1, <2>3 DEF InfoAnswered, Rest, serverVars
      <2>4. CASE CallAnswered(c)
          BY <2>1, <2>4 DEF CallAnswered, Rest, serverVars
      <2>5. CASE AnswerLost(c)
          BY <2>1, <2>5 DEF AnswerLost, Rest, serverVars
      <2> QED BY <2>2, <2>3, <2>4, <2>5
  <1>2. SessionTypes /\ Numbered /\ UnderWay(c) /\ c \in Requests
      BY DEF SessionInv, SessionTypes
  <1>3. Numbered' /\ outgoing' \subseteq Requests /\ \A d \in outgoing' : UnderWay(d)'
      BY <1>1, <1>2, RequestOver, RestUnderWay
  \* What the page shows changes with the answer to "who am I" and with one that says it is nobody any more.
  <1>4. \/ UNCHANGED << shownAs, keyHeld, saidWhy >>
        \/ /\ c.what = "me" /\ c.answer = "welcome" /\ Store(c.with.who) /\ saidWhy' = saidWhy
        \/ /\ c.what = "call" /\ c.answer = "refused" /\ shownAs # "nobody" /\ Store("nobody")
           /\ saidWhy' = IF shownAs = "key" THEN "key refused" ELSE "session ended"
      BY DEF MeAnswered, InfoAnswered, CallAnswered, AnswerLost, Ok
  <1>5. c.what = "me" /\ c.answer = "welcome" => c.with.who \in Visitors
      BY <1>2 DEF UnderWay, Cookies
  <1>6. SessionTypes'
      <2>1. shownAs' \in Shown /\ keyHeld' \in BOOLEAN /\ (keyHeld' <=> shownAs' = "key")
            /\ saidWhy' \in {"nothing", "session ended", "key refused"}
          <3>1. shownAs \in Shown /\ keyHeld \in BOOLEAN /\ (keyHeld <=> shownAs = "key")
                /\ saidWhy \in {"nothing", "session ended", "key refused"}
              BY <1>2 DEF SessionTypes
          <3>2. CASE UNCHANGED << shownAs, keyHeld, saidWhy >>
              BY <3>1, <3>2
          <3>3. CASE c.what = "me" /\ c.answer = "welcome" /\ Store(c.with.who) /\ saidWhy' = saidWhy
              BY <1>5, <3>1, <3>3, SessionAssumption DEF Store, Shown
          <3>4. CASE /\ Store("nobody")
                     /\ saidWhy' = IF shownAs = "key" THEN "key refused" ELSE "session ended"
              BY <3>1, <3>4 DEF Store, Shown
          <3> QED BY <1>4, <3>2, <3>3, <3>4
      <2> QED BY <1>1, <1>2, <1>3, <2>1 DEF SessionTypes
  <1>7. ASSUME ~mixed, Unmixed PROVE Unmixed'
      \* The answer of a "who am I" that failed, and of a sign-out, is one that was under way.
      <2>1. c.what = "me" => \/ unheard' \/ shownAs' \in Visitors
                             \/ jar \notin openSessions
          <3>1. c.what = "me" => c.answer \in {"none", "welcome", "refused"} /\ c.with = jar
              BY <1>2, <1>7 DEF Unmixed, UnderWay, Requests
          <3>2. c.what = "me" /\ c.answer = "refused" => jar \notin openSessions
              BY <1>2, <3>1 DEF UnderWay
          <3>3. c.what = "me" => AnswerLost(c) \/ MeAnswered(c)
              BY DEF InfoAnswered, CallAnswered
          <3>4. AnswerLost(c) /\ c.what = "me" => unheard'
              BY DEF AnswerLost
          <3>5. MeAnswered(c) => c.answer # "none" /\ (c.answer = "welcome" => shownAs' = c.with.who)
              BY DEF MeAnswered, Store, Ok
          <3> QED BY <1>5, <3>1, <3>2, <3>3, <3>4, <3>5
      <2>2. c.what = "logout" => unheard'
          BY DEF MeAnswered, InfoAnswered, CallAnswered, AnswerLost
      <2>3. c.what = "call" /\ c.answer = "refused" /\ shownAs # "nobody" => jar \notin openSessions
          BY <1>2, <1>7 DEF Unmixed, UnderWay
      <2>4. shownAs' \in Visitors => jar'.who = shownAs'
          BY <1>1, <1>4, <1>7, SessionAssumption DEF Unmixed, Store
      <2>5. saidWhy' = "session ended" => jar' \notin openSessions'
          BY <1>1, <1>4, <1>7, <2>3 DEF Unmixed
      <2>6. ~unheard' /\ shownAs' \notin Visitors => jar' \notin openSessions' \/ \E d \in outgoing' : d.what \in {"me", "logout"}
          <3>1. SUFFICES ASSUME ~unheard', shownAs' \notin Visitors, jar \in openSessions
                PROVE  \E d \in outgoing' : d.what \in {"me", "logout"}
              BY <1>1
          <3>2. c.what \notin {"me", "logout"} /\ ~unheard
              BY <1>1, <2>1, <2>2, <3>1
          <3>3. shownAs \notin Visitors
              BY <1>4, <2>3, <3>1, <3>2, SessionAssumption
          <3> QED BY <1>1, <1>7, <3>1, <3>2, <3>3 DEF Unmixed
      <2>7. ASSUME NEW d \in outgoing' PROVE
               /\ d.what = "me" \/ (d.what = "call" /\ shownAs' # "nobody") => d.with = jar
               /\ d.what \in {"logout", "try key"} => shownAs' = "nobody"
          <3>1. UnderWay(d) /\ UnderWay(c) /\ d \in outgoing
              BY <1>1, <2>7 DEF SessionInv
          <3>2. CASE shownAs' \in {shownAs, "nobody"}
              BY <1>7, <3>1, <3>2 DEF Unmixed
          <3>3. CASE c.what = "me"
              <4>1. d.what \in {"me", "info", "accept"}
                  BY <3>1, <3>3 DEF UnderWay
              <4> QED BY <1>7, <3>1, <4>1 DEF Unmixed
          <3> QED BY <1>4, <3>2, <3>3 DEF Store
      <2> QED BY <1>1, <2>4, <2>5, <2>6, <2>7 DEF Unmixed
  <1> QED BY <1>1, <1>3, <1>6, <1>7 DEF SessionInv

LEMMA LeavingAnswered == ASSUME SessionInv, NEW c \in outgoing, LogoutAnswered(c) PROVE SessionInv'
  <1>1. /\ c.what = "logout" /\ outgoing' = outgoing \ {c} /\ jar' = NoCookie
        /\ UNCHANGED << pageVars, serverVars, sent, mixed, unheard >>
      BY DEF LogoutAnswered, Rest
  <1>2. SessionTypes /\ Numbered /\ UnderWay(c)
      BY DEF SessionInv
  <1>3. outgoing' \subseteq Requests /\ \A d \in outgoing' : UnderWay(d)'
      BY <1>1, RestUnderWay DEF pageVars, serverVars
  <1>4. SessionTypes'
      BY <1>1, <1>2, <1>3 DEF SessionTypes, pageVars, serverVars
  <1>5. NoCookie.n = 0 /\ NoCookie \notin openSessions
      BY <1>2, SessionAssumption DEF SessionTypes, Cookies, NoCookie
  <1>6. Numbered'
      <2>1. sent \in Nat
          BY <1>2 DEF SessionTypes
      <2>2. \A d \in outgoing : d.n \in Nat \ {0}
          BY <1>2 DEF SessionTypes, Requests
      <2>3. jar'.n <= sent' /\ \A d \in outgoing' : jar'.n # d.n
          BY <1>1, <1>5, <2>1, <2>2
      <2> QED BY <1>1, <1>2, <2>3 DEF Numbered, serverVars
  <1>7. ASSUME ~mixed, Unmixed PROVE Unmixed'
      <2>1. shownAs = "nobody" /\ shownAs' = shownAs
          BY <1>1, <1>7 DEF Unmixed, pageVars
      <2>2. jar' \notin openSessions'
          BY <1>1, <1>5 DEF serverVars
      <2>3. \A d \in outgoing' : d.what # "me"
          BY <1>1, <1>2 DEF SessionInv, UnderWay
      <2> QED BY <2>1, <2>2, <2>3, SessionAssumption DEF Unmixed
  <1> QED BY <1>1, <1>3, <1>4, <1>6, <1>7 DEF SessionInv

LEMMA SigningInAnswered == ASSUME SessionInv, NEW c \in outgoing, SignInAnswered(c) PROVE SessionInv'
  <1>1. /\ c.what \in {"login", "accept", "try key"} /\ outgoing' = outgoing \ {c}
        /\ UNCHANGED << asking, openSessions, keyGood, offer, sent >>
      BY DEF SignInAnswered, Rest, serverVars
  <1>2. SessionTypes /\ Numbered /\ UnderWay(c) /\ c \in Requests /\ (~mixed => Unmixed)
      BY DEF SessionInv, SessionTypes
  <1>3. outgoing' \subseteq Requests /\ \A d \in outgoing' : UnderWay(d)'
      BY <1>1, RestUnderWay
  <1>4. CASE c.answer # "welcome"
      <2>1. UNCHANGED << shownAs, keyHeld, saidWhy, jar, guest, mixed, unheard >>
          BY <1>4 DEF SignInAnswered, Ok
      <2>2. SessionTypes' /\ Numbered'
          <3>1. SessionTypes'
              BY <1>1, <1>2, <1>3, <2>1 DEF SessionTypes
          <3>2. Numbered'
              BY <1>1, <1>2, <2>1, RequestOver
          <3> QED BY <3>1, <3>2
      <2>3. Unmixed => Unmixed'
          BY <1>1, <2>1 DEF Unmixed
      <2> QED BY <1>2, <1>3, <2>1, <2>2, <2>3 DEF SessionInv
  <1>5. CASE c.answer = "welcome"
      <2>1. /\ Store(c.who) /\ saidWhy' = "nothing" /\ mixed' = (mixed \/ outgoing' # {})
            /\ jar' = (IF c.what = "try key" THEN jar ELSE Cookie(c.who, c.n))
            /\ guest' = "gone" /\ unheard' = (unheard /\ c.what = "try key")
          BY <1>1, <1>5 DEF SignInAnswered, Ok, Rest
      <2>2. IF c.what = "try key" THEN c.who = "key" ELSE c.who \in Visitors
          BY <1>1, <1>2, <1>5 DEF UnderWay
      <2>3. c.what # "try key" => jar' \in Cookies /\ jar'.n = c.n /\ jar'.who = c.who
          <3>1. c.n \in Nat
              BY <1>2 DEF Requests
          <3> QED BY <2>1, <2>2, <3>1 DEF Cookie, Cookies
      <2>4. SessionTypes'
          <3>1. shownAs' \in Shown /\ keyHeld' \in BOOLEAN /\ (keyHeld' <=> shownAs' = "key")
              BY <2>1, <2>2, SessionAssumption DEF Store, Shown
          <3>2. mixed' \in BOOLEAN /\ unheard' \in BOOLEAN
              BY <1>2, <2>1 DEF SessionTypes
          <3>3. jar' \in Cookies \cup {NoCookie}
              BY <1>2, <2>1, <2>3 DEF SessionTypes
          <3> QED BY <1>1, <1>2, <1>3, <2>1, <3>1, <3>2, <3>3 DEF SessionTypes
      <2>5. Numbered'
          <3>1. CASE c.what = "try key"
              BY <1>1, <1>2, <2>1, <3>1, RequestOver
          <3>2. CASE c.what # "try key"
              <4>1. jar'.n <= sent' /\ \A d \in outgoing' : jar'.n # d.n
                  BY <1>1, <1>2, <2>3, <3>2 DEF Numbered
              <4> QED BY <1>1, <1>2, <4>1 DEF Numbered
          <3> QED BY <3>1, <3>2
      \* Nothing else was under way.
      <2>6. ASSUME ~mixed' PROVE Unmixed'
          <3>1. ~mixed /\ outgoing' = {} /\ Unmixed
              BY <1>2, <2>1, <2>6
          <3>2. shownAs' = c.who
              BY <2>1 DEF Store
          <3>3. CASE c.what = "try key"
              <4>1. shownAs = "nobody"
                  BY <3>1, <3>3 DEF Unmixed
              <4>2. shownAs' \notin Visitors /\ shownAs \notin Visitors
                  BY <2>2, <3>2, <3>3, <4>1, SessionAssumption
              <4>3. ~unheard' => ~unheard
                  BY <2>1, <3>3
              <4>4. ~unheard => jar \notin openSessions
                  BY <1>1, <3>1, <3>3, <4>2 DEF Unmixed
              <4>5. jar' = jar /\ openSessions' = openSessions
                  BY <1>1, <2>1, <3>3
              <4> QED BY <2>1, <3>1, <4>2, <4>3, <4>4, <4>5 DEF Unmixed
          <3>4. CASE c.what # "try key"
              <4>1. shownAs' \in Visitors /\ jar'.who = shownAs'
                  BY <2>2, <2>3, <3>2, <3>4
              <4> QED BY <2>1, <3>1, <4>1 DEF Unmixed
          <3> QED BY <3>3, <3>4
      <2> QED BY <1>3, <2>4, <2>5, <2>6 DEF SessionInv
  <1> QED BY <1>4, <1>5

LEMMA SessionKept == ASSUME SessionInv, [ConsoleNext]_consoleVars PROVE SessionInv'
  <1>1. CASE \E invited \in BOOLEAN : Loads(invited)
      BY <1>1, Loading
  <1>2. CASE (\E u \in Visitors : SubmitsPassword(u)) \/ SubmitsKey \/ AcceptsInvite
      BY <1>2, Submitting
  <1>3. CASE Works
      BY <1>3, Working
  <1>4. CASE SignsOutHere
      BY <1>4, SigningOut
  <1>5. CASE SessionExpires \/ KeyRevoked \/ LeavesInvite
      BY <1>5, Elsewhere
  <1>6. CASE \E c \in outgoing : Handles(c) \/ Answers(c)
      BY <1>6, Handling, Closing, LeavingAnswered, SigningInAnswered DEF Answers
  <1>7. CASE UNCHANGED consoleVars
      <2>1. UNCHANGED << shownAs, keyHeld, asking, guest, saidWhy, jar, openSessions, keyGood, offer, outgoing, sent, mixed, unheard >>
          BY <1>7 DEF consoleVars, pageVars, serverVars
      <2>2. SessionTypes'
          BY <2>1 DEF SessionInv, SessionTypes
      <2>4. Numbered'
          BY <2>1 DEF SessionInv, Numbered
      <2>5. Unmixed => Unmixed'
          BY <2>1 DEF Unmixed
      <2>3. \A d \in outgoing' : UnderWay(d)'
          BY <2>1 DEF SessionInv, UnderWay
      <2> QED BY <2>1, <2>2, <2>3, <2>4, <2>5 DEF SessionInv
  <1> QED BY <1>1, <1>2, <1>3, <1>4, <1>5, <1>6, <1>7 DEF ConsoleNext

LEMMA SessionTells == SessionInv => ConsoleTypeOK /\ ConsoleShowsTheServer
  <1> SUFFICES ASSUME SessionInv PROVE ConsoleTypeOK /\ ConsoleShowsTheServer
      OBVIOUS
  <1>1. ConsoleTypeOK
      <2>1. \A s \in openSessions \cup {jar} : s.who \in Visitors \cup {"nobody"}
          <3>1. \A s \in Cookies \cup {NoCookie} : s.who \in Visitors \cup {"nobody"}
              BY DEF Cookies, NoCookie
          <3> QED BY <3>1 DEF SessionInv, SessionTypes
      <2>2. \A c, d \in outgoing : c.n = d.n => c = d
          BY DEF SessionInv, Numbered
      <2> QED BY <2>1, <2>2 DEF ConsoleTypeOK, SessionInv, SessionTypes
  <1>2. ConsoleShowsTheServer
      BY SessionAssumption DEF ConsoleShowsTheServer, SessionInv, SessionTypes, Unmixed
  <1> QED BY <1>1, <1>2

\* Who the console says is signed in, as ConsoleShowsTheServer words it, for any people, any number of requests and
\* any order of their answers.
THEOREM SessionIsShown == ConsoleSpec => [](ConsoleTypeOK /\ ConsoleShowsTheServer)
  <1>1. ConsoleInit => SessionInv
      BY SessionInit
  <1>2. SessionInv /\ [ConsoleNext]_consoleVars => SessionInv'
      BY SessionKept
  <1> QED BY <1>1, <1>2, SessionTells, PTL DEF ConsoleSpec

-----------------------------------------------------------------------------
(* The pages about instances                                                *)

Statuses == {"absent", "active", "suspended", "terminated", "completed"}
Insts == [status : Statuses, step : 0..LastStep, failedAt : 0..LastStep]
Rows == [id : Listed, status : Statuses]
Results == [total : Nat, rows : SUBSET Rows, seen : Nat, filter : ListFilters, page : Nat, known : BOOLEAN]
ListStates ==
    [filter : ListFilters, page : Nat, result : Results, newest : Nat, busy : Listed \cup {0},
     confirming : SUBSET (Listed \X {"cancel", "restart"}), error : BOOLEAN]
PageAsks == [n : Nat, filter : ListFilters, page : Nat, answer : Results]
Actions ==
    [id : Listed, kind : {"suspend", "resume", "cancel", "restart"}, filter : ListFilters, page : Nat,
     at : {"sent", "answered"}]

InstTypes == turns \in Nat /\ inst \in [Listed -> Insts]

\* A list that has been left waits for nothing.
ListTypes ==
    /\ list \in ListStates /\ loads \subseteq PageAsks /\ acts \subseteq Actions /\ stale \in BOOLEAN
    /\ lastAct \in Nat /\ lastAct <= turns
    /\ ~InList => loads = {} /\ acts = {} /\ list.confirming = {}

\* The rows are of instances there are; an answer is one of the server to that request.
There(rows) == \A row \in rows : inst[row.id].status # "absent"
Honest(l) ==
    l.answer.known => /\ l.answer.seen <= turns /\ l.answer.filter = l.filter /\ l.answer.page = l.page
                      /\ l.answer.rows = {} => l.answer.total = 0
Settled == \A a \in acts : a.at = "sent"

\* Of which filter and page the newest request is, and that what it brings is as new as the last action.
Fresh(l) ==
    l.n = list.newest =>
        /\ ~stale => l.filter = list.filter /\ l.page = list.page
        /\ l.answer.known /\ Settled => l.answer.seen >= lastAct

Shows ==
    (\A l \in loads : l.n # list.newest) /\ list.newest > 0 /\ ~list.error /\ ~stale =>
        /\ list.result.filter = list.filter /\ list.result.page = list.page
        /\ list.page > 0 => list.result.rows # {}
        /\ Settled => list.result.seen >= lastAct

ListInv ==
    /\ \A l \in loads : /\ l.n <= list.newest /\ Honest(l) /\ There(l.answer.rows) /\ Fresh(l)
                        /\ \A m \in loads : m.n = l.n => m = l
    /\ There(list.result.rows) /\ Shows

ViewRecs == [status : {"none"} \cup Statuses, step : 0..LastStep, failedAt : 0..LastStep, n : Nat]
Views == [n : Nat, todo : {"instance", "tokens", "none"}, view : ViewRecs]
Forced == {"complete", "fail", "fire"}
Sayings == {"nothing", "failed", "moved on"}
Dialogs ==
    [open : BOOLEAN, step : 0..LastStep, action : {"none"} \cup Forced, busy : BOOLEAN, says : Sayings]
Details ==
    [id : Listed \cup {0}, view : ViewRecs, asked : Nat, error : BOOLEAN, dialog : Dialogs,
     says : {"nothing", "moved on"} \cup Forced, why : 0..LastStep]

DetailTypes ==
    /\ detail \in Details /\ views \subseteq Views /\ crossed \in BOOLEAN
    /\ InList => views = {} /\ ~detail.dialog.open
    /\ detail.dialog.busy => detail.dialog.open
    /\ detail.dialog.open => detail.dialog.action \in Forced

\* What the instance has behind it stays there.
Behind(i, step) == inst[i].status \in Over \/ step < inst[i].step

\* What is on the page is not ahead of the instance, and is of the newest request or waits for its answer.
ViewsInv ==
    ~InList =>
        /\ inst[detail.id].status # "absent" /\ detail.view.step <= inst[detail.id].step
        /\ \A v \in views : v.n <= detail.asked /\ v.view.n = v.n /\ v.view.step <= inst[detail.id].step
        /\ detail.view.n <= detail.asked
        /\ ~crossed => detail.view.n = detail.asked \/ \E v \in views : v.n = detail.asked

SaysInv ==
    ~InList =>
        /\ detail.says \in {"complete", "fire", "moved on"} => Behind(detail.id, detail.why)
        /\ detail.dialog.says = "moved on" => Behind(detail.id, detail.dialog.step)
        /\ detail.dialog.open => detail.dialog.step <= inst[detail.id].step

InstInv == InstTypes /\ ListTypes /\ ListInv /\ DetailTypes /\ ViewsInv /\ SaysInv

\* How instances change, by whomever: there is always more behind them.
GoesOn ==
    /\ turns' \in Nat /\ turns <= turns' /\ inst' \in [Listed -> Insts]
    /\ \A i \in Listed :
          inst[i].status # "absent" =>
              /\ inst'[i].status # "absent" /\ inst[i].step <= inst'[i].step
              /\ inst[i].status \in Over => inst'[i].status \in Over

LEMMA Stays == ASSUME InstTypes, UNCHANGED << inst, turns >> PROVE GoesOn
  <1>1. \A i \in Listed : inst[i].step \in Int
      BY DEF InstTypes, Insts
  <1> QED BY <1>1 DEF InstTypes, GoesOn

LEMMA Changes ==
    ASSUME InstTypes, NEW i \in Listed, NEW new \in Insts, ChangesTo(i, new), inst[i].status \notin Over,
           inst[i].status # "absent" => new.status # "absent" /\ inst[i].step <= new.step
    PROVE  GoesOn /\ inst' = [inst EXCEPT ![i] = new] /\ turns' = turns + 1
  <1>1. turns \in Nat /\ inst \in [Listed -> Insts] /\ turns' = turns + 1 /\ inst' = [inst EXCEPT ![i] = new]
      BY DEF InstTypes, ChangesTo
  <1>2. inst' \in [Listed -> Insts] /\ \A j \in Listed : inst'[j] = IF j = i THEN new ELSE inst[j]
      BY <1>1
  <1>3. \A j \in Listed : inst[j].step \in Int
      BY <1>1 DEF Insts
  <1>4. ASSUME NEW j \in Listed, inst[j].status # "absent"
        PROVE  inst'[j].status # "absent" /\ inst[j].step <= inst'[j].step /\ (inst[j].status \in Over => inst'[j].status \in Over)
      BY <1>2, <1>3, <1>4
  <1> QED BY <1>1, <1>2, <1>4 DEF GoesOn

\* What an instance's state may become.
WithStatus(x, s) == [x EXCEPT !.status = s]
FailedAtStep(x) == [x EXCEPT !.status = "suspended", !.failedAt = x.step]

LEMMA StatusSet ==
    ASSUME NEW x \in Insts, NEW s \in Statuses
    PROVE  WithStatus(x, s) \in Insts /\ WithStatus(x, s).status = s /\ WithStatus(x, s).step = x.step
  BY DEF Insts, WithStatus

LEMMA FailedHere ==
    ASSUME NEW x \in Insts
    PROVE  FailedAtStep(x) \in Insts /\ FailedAtStep(x).status = "suspended" /\ FailedAtStep(x).step = x.step
  <1> DEFINE y == [x EXCEPT !.status = "suspended"]
  <1>1. y \in Insts /\ y.status = "suspended" /\ y.step = x.step
      BY DEF Insts, Statuses
  <1>2. FailedAtStep(x) = [y EXCEPT !.failedAt = x.step]
      BY DEF Insts, FailedAtStep
  <1>3. x.step \in 0..LastStep
      BY DEF Insts
  <1> HIDE DEF y
  <1>4. [y EXCEPT !.failedAt = x.step] \in Insts /\ [y EXCEPT !.failedAt = x.step].status = y.status
        /\ [y EXCEPT !.failedAt = x.step].step = y.step
      BY <1>1, <1>3 DEF Insts
  <1> QED BY <1>1, <1>2, <1>4

LEMMA StepDoneIsOn ==
    ASSUME InstTypes, NEW i \in Listed, NEW action, inst[i].status # "absent"
    PROVE  /\ StepDone(i, action) \in Insts /\ StepDone(i, action).status # "absent"
           /\ inst[i].step <= StepDone(i, action).step
           /\ StepDone(i, action).status \in Over \/ inst[i].step < StepDone(i, action).step
  <1>0. inst[i] \in Insts /\ inst[i].step \in 0..LastStep /\ inst[i].status \in Statuses /\ inst[i].failedAt \in 0..LastStep /\ LastStep \in Nat
      BY InstancesAssumption DEF InstTypes, Insts
  <1>1. CASE inst[i].step = LastStep
      <2>1. StepDone(i, action) = WithStatus(inst[i], "completed")
          BY <1>1 DEF StepDone, WithStatus
      <2>2. "completed" \in Statuses
          BY DEF Statuses
      <2>3. StepDone(i, action) \in Insts /\ StepDone(i, action).status = "completed" /\ StepDone(i, action).step = inst[i].step
          BY <1>0, <2>1, <2>2, StatusSet
      <2> QED BY <1>0, <2>3 DEF Over
  <1>2. CASE inst[i].step # LastStep
      <2> DEFINE s == IF action = "fail" THEN inst[i].status ELSE "active"
      <2>1. StepDone(i, action) = [inst[i] EXCEPT !.status = s, !.step = inst[i].step + 1]
          BY <1>2 DEF StepDone
      <2>2. s \in Statuses /\ s # "absent"
          BY <1>0 DEF Statuses
      <2> HIDE DEF s
      <2>3. inst[i].step + 1 \in 0..LastStep
          BY <1>0, <1>2
      <2>4. PICK y \in Insts : y = WithStatus(inst[i], s) /\ y.status = s /\ y.step = inst[i].step
          BY <1>0, <2>2, StatusSet
      <2>6. StepDone(i, action) = [y EXCEPT !.step = inst[i].step + 1]
          <3>1. PICK t : t = inst[i].step + 1
              OBVIOUS
          <3>2. PICK x \in Insts : x = inst[i]
              BY <1>0
          <3>3. [x EXCEPT !.status = s, !.step = t] = [[x EXCEPT !.status = s] EXCEPT !.step = t]
              BY DEF Insts
          <3> QED BY <2>1, <2>4, <3>1, <3>2, <3>3 DEF WithStatus
      <2>7. PICK t \in 0..LastStep : t = inst[i].step + 1
          BY <2>3
      <2>8. [y EXCEPT !.step = t] \in Insts /\ [y EXCEPT !.step = t].status = y.status /\ [y EXCEPT !.step = t].step = t
          BY DEF Insts
      <2>5. StepDone(i, action) \in Insts /\ StepDone(i, action).status = s /\ StepDone(i, action).step = inst[i].step + 1
          BY <2>4, <2>6, <2>7, <2>8
      <2> QED BY <1>0, <2>2, <2>5
  <1> QED BY <1>1, <1>2

LEMMA ActionTakes ==
    ASSUME InstTypes, NEW a \in Actions, Takes(a)
    PROVE  GoesOn
  <1>1. a.id \in Listed /\ inst[a.id] \in Insts
      BY DEF Actions, InstTypes
  <1>2. \A i \in Listed : inst[i].step \in Int
      BY DEF InstTypes, Insts
  <1>3. ASSUME NEW s \in {"suspended", "active", "terminated"}, inst[a.id].status \notin Over,
               ChangesTo(a.id, WithStatus(inst[a.id], s))
        PROVE  GoesOn
      <2>1. s \in Statuses
          BY DEF Statuses
      <2>2. /\ WithStatus(inst[a.id], s) \in Insts /\ WithStatus(inst[a.id], s).status = s
            /\ WithStatus(inst[a.id], s).step = inst[a.id].step
          BY <1>1, <2>1, StatusSet
      <2>3. PICK new \in Insts : new = WithStatus(inst[a.id], s) /\ new.status = s /\ new.step = inst[a.id].step
          BY <2>2
      <2> QED BY <1>1, <1>2, <1>3, <2>3, Changes
  <1>4. ASSUME NEW i \in Listed, inst[i].status = "absent", ChangesTo(i, FreshInstance) PROVE GoesOn
      <2>1. FreshInstance \in Insts
          BY InstancesAssumption DEF FreshInstance, Insts, Statuses
      <2> QED BY <1>4, <2>1, Changes DEF Over
  <1> QED BY <1>3, <1>4 DEF Takes, Over, WithStatus

LEMMA InstanceMoves == ASSUME InstTypes, NEW i \in Listed, Moves(i) PROVE GoesOn
  <1>0. inst[i] \in Insts /\ inst[i].step \in Int
      BY DEF InstTypes, Insts
  <1>1. PICK new \in Insts : ChangesTo(i, new) /\ inst[i].status \in {"active", "suspended"} /\ new.status # "absent" /\ inst[i].step <= new.step
      <2>0. Moves(i) => \/ inst[i].status = "active" /\ ChangesTo(i, StepDone(i, "complete"))
                        \/ inst[i].status = "active" /\ ChangesTo(i, FailedAtStep(inst[i]))
                        \/ inst[i].status \in {"active", "suspended"} /\ ChangesTo(i, WithStatus(inst[i], "terminated"))
                        \/ inst[i].status = "suspended" /\ ChangesTo(i, WithStatus(inst[i], "active"))
          BY DEF Moves, FailedAtStep, WithStatus
      <2>1. CASE inst[i].status = "active" /\ ChangesTo(i, StepDone(i, "complete"))
          <3>1. StepDone(i, "complete") \in Insts /\ StepDone(i, "complete").status # "absent"
                /\ inst[i].step <= StepDone(i, "complete").step
              BY <2>1, StepDoneIsOn
          <3> QED BY <2>1, <3>1
      <2>2. CASE inst[i].status = "active" /\ ChangesTo(i, FailedAtStep(inst[i]))
          <3>1. FailedAtStep(inst[i]) \in Insts /\ FailedAtStep(inst[i]).status = "suspended" /\ FailedAtStep(inst[i]).step = inst[i].step
              BY <1>0, FailedHere
          <3> QED BY <1>0, <2>2, <3>1
      <2>3. CASE \E s \in {"terminated", "active"} : inst[i].status \in {"active", "suspended"} /\ ChangesTo(i, WithStatus(inst[i], s))
          <3>1. PICK s \in {"terminated", "active"} : inst[i].status \in {"active", "suspended"} /\ ChangesTo(i, WithStatus(inst[i], s))
              BY <2>3
          <3>2. s \in Statuses /\ s # "absent"
              BY DEF Statuses
          <3>3. WithStatus(inst[i], s) \in Insts /\ WithStatus(inst[i], s).status = s /\ WithStatus(inst[i], s).step = inst[i].step
              BY <1>0, <3>2, StatusSet
          <3> QED BY <1>0, <3>1, <3>2, <3>3
      <2> QED BY <2>0, <2>1, <2>2, <2>3
  <1> QED BY <1>1, Changes DEF Over

\* What the list holds is left alone while the instances go on.
LEMMA ListKept ==
    ASSUME InstTypes, ListTypes, ListInv, GoesOn, UNCHANGED << list, loads, acts, lastAct, stale >>, detail'.id = detail.id
    PROVE  ListTypes' /\ ListInv'
  <1>1. turns \in Nat /\ turns' \in Nat /\ turns <= turns' /\ lastAct \in Nat
      BY DEF InstTypes, GoesOn, ListTypes
  <1>2. ListTypes'
      BY <1>1 DEF ListTypes, InList
  <1>3. \A l \in PageAsks : l.answer.seen \in Nat /\ l.answer.rows \subseteq Rows
      BY DEF PageAsks, Results
  <1>4. \A row \in Rows : inst[row.id].status # "absent" => inst'[row.id].status # "absent"
      BY DEF Rows, GoesOn
  <1>5. list.result.rows \subseteq Rows
      BY DEF ListTypes, ListStates, Results
  <1>6. There(list.result.rows)'
      BY <1>4, <1>5 DEF ListInv, There
  <1>7. ASSUME NEW l \in loads PROVE Honest(l)' /\ There(l.answer.rows)' /\ Fresh(l)'
      <2>1. l.answer.seen \in Nat /\ l.answer.rows \subseteq Rows
          BY <1>3 DEF ListTypes
      <2>2. Honest(l) /\ There(l.answer.rows) /\ Fresh(l)
          BY DEF ListInv
      <2>3. Honest(l)'
          BY <1>1, <2>1, <2>2 DEF Honest
      <2>4. There(l.answer.rows)'
          BY <1>4, <2>1, <2>2 DEF There
      <2>5. Fresh(l)'
          BY <2>2 DEF Fresh, Settled
      <2> QED BY <2>3, <2>4, <2>5
  <1>8. Shows'
      BY DEF ListInv, Shows, Settled
  <1> QED BY <1>2, <1>6, <1>7, <1>8 DEF ListInv

\* A request for a page that is the newest.
LEMMA Asked ==
    ASSUME InstTypes, ListTypes, ListInv, UNCHANGED << inst, turns, lastAct >>, detail'.id = 0,
           NEW x \in PageAsks, x.n = list'.newest, ~x.answer.known, x.answer.rows = {},
           x \in loads', \A l \in loads' : l = x \/ (l \in loads /\ l.n < list'.newest),
           list' \in ListStates, There(list'.result.rows), stale' \in BOOLEAN,
           ~stale' => x.filter = list'.filter /\ x.page = list'.page, acts' \subseteq acts
    PROVE  ListTypes' /\ ListInv'
  <1>1. ListTypes'
      BY DEF ListTypes, InList
  <1>2. list'.newest \in Nat /\ \A l \in loads : l.n \in Nat
      BY DEF ListStates, ListTypes, PageAsks
  <1>3. There(list.result.rows)'
      BY DEF There
  <1>4. ASSUME NEW l \in loads' PROVE
           /\ l.n <= list'.newest /\ Honest(l)' /\ There(l.answer.rows)' /\ Fresh(l)'
           /\ \A m \in loads' : m.n = l.n => m = l
      <2>1. CASE l = x
          <3>1. Honest(l)' /\ There(l.answer.rows)' /\ Fresh(l)' /\ l.n = list'.newest
              BY <2>1 DEF Honest, There, Fresh
          <3>2. ASSUME NEW m \in loads', m.n = l.n PROVE m = l
              <4>1. m = x \/ (m \in loads /\ m.n < list'.newest)
                  BY <3>2
              <4>2. m \in loads => m.n \in Nat
                  BY <1>2
              <4> QED BY <1>2, <2>1, <3>2, <4>1, <4>2
          <3> QED BY <1>2, <3>1, <3>2
      <2>2. CASE l # x
          <3>1. l \in loads /\ l.n < list'.newest
              BY <1>4, <2>2
          <3>2. Honest(l)' /\ There(l.answer.rows)'
              BY <3>1 DEF ListInv, Honest, There
          <3>3. Fresh(l)'
              BY <1>2, <3>1 DEF Fresh
          <3>4. \A m \in loads' : m.n = l.n => m = l
              BY <1>2, <3>1 DEF ListInv
          <3> QED BY <1>2, <3>1, <3>2, <3>3, <3>4
      <2> QED BY <2>1, <2>2
  <1>5. Shows'
      BY DEF Shows
  <1> QED BY <1>1, <1>3, <1>4, <1>5 DEF ListInv

LEMMA Nothing == NoList \in Results /\ ~NoList.known /\ NoList.rows = {}
  BY DEF NoList, Results, ListFilters

\* The page asks, holding set from now on.
LEMMA AsksIsAsked ==
    ASSUME InstTypes, ListTypes, ListInv, NEW set \in ListStates, NEW filter \in ListFilters, NEW page \in Nat,
           Asks(set, filter, page), UNCHANGED << inst, turns, lastAct >>, detail'.id = 0, acts' \subseteq acts,
           \A l \in loads : l.n <= set.newest, There(set.result.rows)
    PROVE  ListTypes' /\ ListInv'
  <1>1. set.newest \in Nat
      BY DEF ListStates
  <1>2. PICK n \in Nat : n = set.newest + 1
      BY <1>1
  <1>3. list' = [set EXCEPT !.newest = n]
      BY <1>2 DEF Asks
  <1>4. /\ list' \in ListStates /\ list'.newest = n /\ list'.result = set.result
        /\ list'.filter = set.filter /\ list'.page = set.page
      BY <1>3 DEF ListStates
  <1> DEFINE y == [n |-> n, filter |-> filter, page |-> page, answer |-> NoList]
  <1>5. PICK x \in PageAsks : /\ x = y /\ x.n = n /\ x.filter = filter /\ x.page = page /\ ~x.answer.known
                              /\ x.answer.rows = {}
      <2>1. y \in PageAsks /\ y.n = n /\ y.filter = filter /\ y.page = page /\ ~y.answer.known /\ y.answer.rows = {}
          BY Nothing DEF PageAsks
      <2> QED BY <2>1
  <1>6. loads' = loads \cup {x} /\ stale' = (filter # set.filter \/ page # set.page)
      BY <1>2, <1>5 DEF Asks
  <1>7. \A l \in loads : l.n < n
      BY <1>1, <1>2 DEF ListTypes, PageAsks
  <1>8. stale' \in BOOLEAN /\ (~stale' => x.filter = list'.filter /\ x.page = list'.page)
      BY <1>4, <1>5, <1>6
  <1> QED BY <1>4, <1>5, <1>6, <1>7, <1>8, Asked

\* What is answered: the rows of one page and how many there are in all.
LEMMA AnsweredRows ==
    ASSUME InstTypes, NEW filter \in ListFilters, NEW page \in Nat
    PROVE  /\ Answer(filter, page) \in Results /\ Answer(filter, page).known
           /\ Answer(filter, page).seen = turns /\ Answer(filter, page).filter = filter /\ Answer(filter, page).page = page
           /\ There(Answer(filter, page).rows)
           /\ Answer(filter, page).rows = {} => Answer(filter, page).total = 0
           /\ Answer(filter, page).rows = {} => OnPage(Found(filter), page) = {}
  <1> DEFINE found == Found(filter)
             ids == OnPage(found, page)
             rows == {[id |-> i, status |-> inst[i].status] : i \in ids}
             total == IF ids = {} THEN 0 ELSE Cardinality(found)
  <1>1. found \subseteq Listed /\ (\A i \in found : inst[i].status # "absent") /\ ids \subseteq found
      BY DEF Found, OnPage
  <1>2. Cardinality(found) \in Nat
      BY <1>1, InstancesAssumption, FS_Subset, FS_CardinalityType
  <1>3. Answer(filter, page) = [total |-> total, seen |-> turns, filter |-> filter, page |-> page, known |-> TRUE, rows |-> rows]
      BY DEF Answer
  <1>4. total \in Nat
      BY <1>2
  <1> HIDE DEF found, ids
  <1>5. rows \in SUBSET Rows /\ There(rows) /\ (rows = {} => ids = {})
      <2>1. \A i \in ids : i \in Listed /\ inst[i].status \in Statuses /\ inst[i].status # "absent"
          BY <1>1 DEF InstTypes, Insts
      <2>2. \A r \in rows : r.id \in ids /\ r \in Rows
          BY <2>1 DEF Rows
      <2>3. rows = {} => ids = {}
          OBVIOUS
      <2> QED BY <2>1, <2>2, <2>3 DEF There
  <1>6. turns \in Nat
      BY DEF InstTypes
  <1>7. rows = {} => total = 0
      BY <1>5
  <1>8. ids = OnPage(Found(filter), page)
      BY DEF ids, found
  <1> HIDE DEF rows, total
  <1>9. Answer(filter, page) \in Results
      BY <1>3, <1>4, <1>5, <1>6 DEF Results
  <1> QED BY <1>3, <1>5, <1>7, <1>8, <1>9

\* The list is loaded: for another filter, another page, again, or after an action.
LEMMA ListAsks ==
    ASSUME InstTypes, ListTypes, ListInv,
           \/ \E f \in ListFilters : ChoosesStatus(f)
           \/ \E page \in 0..Cardinality(Listed) : TurnsTo(page)
           \/ Refreshes
           \/ \E a \in acts : ActAnswered(a)
    PROVE  ListTypes' /\ ListInv'
  <1>1. list \in ListStates /\ There(list.result.rows) /\ \A l \in loads : l.n <= list.newest
      BY DEF ListTypes, ListInv
  <1>2. list.page \in Nat /\ list.filter \in ListFilters
      BY <1>1 DEF ListStates
  <1>3. ASSUME NEW set \in ListStates, set.newest = list.newest, set.result = list.result,
               NEW f \in ListFilters, NEW page \in Nat,
               Asks(set, f, page), UNCHANGED << inst, turns, lastAct, detail >>, InList, acts' \subseteq acts
        PROVE  ListTypes' /\ ListInv'
      <2>1. detail'.id = 0
          BY <1>3 DEF InList
      <2> QED BY <1>1, <1>3, <2>1, AsksIsAsked
  <1>4. ASSUME NEW f \in ListFilters, ChoosesStatus(f) PROVE ListTypes' /\ ListInv'
      <2>1. PICK s \in ListStates : /\ s = [list EXCEPT !.filter = f, !.page = 0]
                                    /\ s.newest = list.newest /\ s.result = list.result
          <3> DEFINE y == [list EXCEPT !.filter = f]
          <3>1. y \in ListStates /\ y.newest = list.newest /\ y.result = list.result
              BY <1>1 DEF ListStates
          <3>2. [list EXCEPT !.filter = f, !.page = 0] = [y EXCEPT !.page = 0]
              BY <1>1 DEF ListStates
          <3> HIDE DEF y
          <3>3. [y EXCEPT !.page = 0] \in ListStates /\ [y EXCEPT !.page = 0].newest = y.newest
                /\ [y EXCEPT !.page = 0].result = y.result
              BY <3>1 DEF ListStates
          <3> QED BY <3>1, <3>2, <3>3
      <2>2. Asks(s, f, 0) /\ UNCHANGED << inst, turns, lastAct, detail >> /\ InList /\ acts' \subseteq acts
          BY <1>4, <2>1 DEF ChoosesStatus
      <2> QED BY <1>3, <2>1, <2>2
  <1>5. ASSUME NEW page \in 0..Cardinality(Listed), TurnsTo(page) PROVE ListTypes' /\ ListInv'
      <2>0. page \in Nat
          OBVIOUS
      <2>1. PICK s \in ListStates : /\ s = [list EXCEPT !.page = page]
                                    /\ s.newest = list.newest /\ s.result = list.result
          <3>1. [list EXCEPT !.page = page] \in ListStates /\ [list EXCEPT !.page = page].newest = list.newest
                /\ [list EXCEPT !.page = page].result = list.result
              BY <1>1, <2>0 DEF ListStates
          <3> QED BY <3>1
      <2>2. Asks(s, list.filter, page) /\ UNCHANGED << inst, turns, lastAct, detail >> /\ InList /\ acts' \subseteq acts
          BY <1>5, <2>1 DEF TurnsTo
      <2>3. PICK f \in ListFilters : f = list.filter
          BY <1>2
      <2> QED BY <1>3, <2>0, <2>1, <2>2, <2>3
  <1>6. ASSUME Refreshes PROVE ListTypes' /\ ListInv'
      <2>1. PICK s \in ListStates : s = list
          BY <1>1
      <2>2. PICK f \in ListFilters, page \in Nat : f = list.filter /\ page = list.page
          BY <1>2
      <2>3. Asks(s, f, page) /\ UNCHANGED << inst, turns, lastAct, detail >> /\ InList /\ acts' \subseteq acts
          BY <1>6, <2>1, <2>2 DEF Refreshes
      <2> QED BY <1>3, <2>1, <2>2, <2>3
  <1>7. ASSUME NEW a \in acts, ActAnswered(a) PROVE ListTypes' /\ ListInv'
      <2>1. PICK s \in ListStates : /\ s = [list EXCEPT !.busy = 0]
                                    /\ s.newest = list.newest /\ s.result = list.result
          <3>1. [list EXCEPT !.busy = 0] \in ListStates /\ [list EXCEPT !.busy = 0].newest = list.newest
                /\ [list EXCEPT !.busy = 0].result = list.result
              BY <1>1 DEF ListStates
          <3> QED BY <3>1
      <2>2. a.filter \in ListFilters /\ a.page \in Nat /\ InList
          BY <1>7 DEF ListTypes, Actions
      <2>3. Asks(s, a.filter, a.page) /\ UNCHANGED << inst, turns, lastAct, detail >> /\ acts' \subseteq acts
          BY <1>7, <2>1 DEF ActAnswered
      <2> QED BY <1>3, <2>1, <2>2, <2>3
  <1> QED BY <1>4, <1>5, <1>6, <1>7

\* The server finds what was asked for.
LEMMA ListFound ==
    ASSUME InstTypes, ListTypes, ListInv, NEW l \in loads, FindInstances(l)
    PROVE  ListTypes' /\ ListInv'
  <1>1. l \in PageAsks /\ l.filter \in ListFilters /\ l.page \in Nat /\ l.n \in Nat
      BY DEF ListTypes, PageAsks
  <1>2. PICK r \in Results : /\ r = Answer(l.filter, l.page) /\ r.known /\ r.seen = turns /\ r.filter = l.filter
                             /\ r.page = l.page /\ There(r.rows) /\ (r.rows = {} => r.total = 0)
      BY <1>1, AnsweredRows
  <1>3. PICK e \in PageAsks : /\ e = [l EXCEPT !.answer = r] /\ e.n = l.n /\ e.filter = l.filter
                              /\ e.page = l.page /\ e.answer = r
      <2>1. /\ [l EXCEPT !.answer = r] \in PageAsks /\ [l EXCEPT !.answer = r].n = l.n
            /\ [l EXCEPT !.answer = r].filter = l.filter /\ [l EXCEPT !.answer = r].page = l.page
            /\ [l EXCEPT !.answer = r].answer = r
          BY <1>1 DEF PageAsks
      <2> QED BY <2>1
  <1>4. /\ loads' = (loads \ {l}) \cup {e}
        /\ UNCHANGED << inst, turns, list, acts, lastAct, stale, detail, views, crossed >>
      BY <1>2, <1>3 DEF FindInstances
  <1>5. ListTypes'
      BY <1>3, <1>4 DEF ListTypes, InList
  <1>6. There(list.result.rows)'
      BY <1>4 DEF ListInv, There
  <1>7. Shows'
      <2>1. (\A m \in loads' : m.n # list.newest) => \A m \in loads : m.n # list.newest
          BY <1>3, <1>4
      <2> QED BY <1>4, <2>1 DEF ListInv, Shows, Settled
  <1>8. ASSUME NEW m \in loads' PROVE
           /\ m.n <= list'.newest /\ Honest(m)' /\ There(m.answer.rows)' /\ Fresh(m)'
           /\ \A k \in loads' : k.n = m.n => k = m
      <2>1. CASE m = e
          <3>1. m.n <= list'.newest
              BY <1>3, <1>4, <2>1 DEF ListInv
          <3>2. turns \in Nat
              BY DEF InstTypes
          <3>3. Honest(m)'
              BY <1>2, <1>3, <1>4, <2>1, <3>2 DEF Honest
          <3>4. There(m.answer.rows)'
              BY <1>2, <1>3, <1>4, <2>1 DEF There
          <3>5. lastAct <= turns /\ Fresh(l)
              BY DEF ListTypes, ListInv
          <3>6. Fresh(m)'
              BY <1>2, <1>3, <1>4, <2>1, <3>5 DEF Fresh
          <3>7. ASSUME NEW k \in loads', k.n = m.n PROVE k = m
              <4>1. k = e \/ (k \in loads /\ k # l)
                  BY <1>4
              <4>2. k \in loads => k = l
                  BY <1>3, <2>1, <3>7 DEF ListInv
              <4> QED BY <2>1, <4>1, <4>2
          <3> QED BY <3>1, <3>3, <3>4, <3>6, <3>7
      <2>2. CASE m # e
          <3>1. m \in loads /\ m # l
              BY <1>4, <1>8, <2>2
          <3>2. m.n <= list'.newest /\ Honest(m)' /\ There(m.answer.rows)'
              BY <1>4, <3>1 DEF ListInv, Honest, There
          <3>3. Fresh(m)'
              BY <1>4, <3>1 DEF ListInv, Fresh, Settled
          <3>4. ASSUME NEW k \in loads', k.n = m.n PROVE k = m
              <4>1. k = e \/ (k \in loads /\ k # l)
                  BY <1>4
              <4>2. CASE k = e
                  <5>1. l.n = m.n
                      BY <1>3, <3>4, <4>2
                  <5> QED BY <3>1, <5>1 DEF ListInv
              <4>3. CASE k \in loads
                  BY <3>1, <3>4, <4>3 DEF ListInv
              <4> QED BY <4>1, <4>2, <4>3
          <3> QED BY <3>2, <3>3, <3>4
      <2> QED BY <2>1, <2>2
  <1> QED BY <1>5, <1>6, <1>7, <1>8 DEF ListInv

\* A list that loses a request and, but for what it says of rows and dialogs, stays as it is.
LEMMA Fewer ==
    ASSUME InstTypes, ListTypes, ListInv, UNCHANGED << inst, turns, lastAct, stale, acts >>, detail'.id = detail.id,
           loads' \subseteq loads, list' \in ListStates, list'.newest = list.newest, list'.filter = list.filter,
           list'.page = list.page, list'.confirming = list.confirming, There(list'.result.rows), Shows'
    PROVE  ListTypes' /\ ListInv'
  <1>1. ListTypes'
      BY DEF ListTypes, InList
  <1>2. There(list.result.rows)'
      BY DEF There
  <1>3. ASSUME NEW l \in loads' PROVE
           /\ l.n <= list'.newest /\ Honest(l)' /\ There(l.answer.rows)' /\ Fresh(l)'
           /\ \A m \in loads' : m.n = l.n => m = l
      <2>1. l \in loads
          BY <1>3
      <2> QED BY <2>1 DEF ListInv, Honest, There, Fresh, Settled
  <1> QED BY <1>1, <1>2, <1>3 DEF ListInv

LEMMA LastPageIs ==
    ASSUME NEW total \in Nat
    PROVE  LastPage(total) \in Nat /\ (LastPage(total) > 0 => total # 0)
  BY InstancesAssumption DEF LastPage

LEMMA ListIsAnswered ==
    ASSUME InstTypes, ListTypes, ListInv, NEW l \in loads, ListAnswered(l)
    PROVE  ListTypes' /\ ListInv'
  <1>1. /\ l.answer.known /\ UNCHANGED << inst, turns, acts, lastAct, detail, views, crossed >>
      BY DEF ListAnswered
  <1>2. l.page \in Nat /\ l.n \in Nat /\ l.answer \in Results /\ l.answer.total \in Nat
      BY DEF ListTypes, PageAsks, Results
  <1>3. /\ list \in ListStates /\ list.page \in Nat /\ list.newest \in Nat /\ list.filter \in ListFilters
        /\ list.result \in Results
      BY DEF ListTypes, ListStates
  <1>4. Honest(l) /\ There(l.answer.rows) /\ Fresh(l) /\ There(list.result.rows)
      BY DEF ListInv
  <1>5. InList
      BY DEF ListTypes
  <1>6. PICK last \in Nat : last = LastPage(l.answer.total) /\ (last > 0 => l.answer.total # 0)
      BY <1>2, LastPageIs
  <1>7. CASE l.n = list.newest /\ l.page > last /\ list.page # last
      <2>1. PICK n \in Nat : n = list.newest + 1
          BY <1>3
      <2> DEFINE x == [n |-> n, filter |-> list.filter, page |-> last, answer |-> NoList]
                 y == [list EXCEPT !.page = last]
      <2>2. /\ list' = [list EXCEPT !.page = last, !.newest = n]
            /\ loads' = (loads \ {l}) \cup {x} /\ stale' = FALSE
          BY <1>6, <1>7, <2>1 DEF ListAnswered, Newest
      <2>3. y \in ListStates /\ y.newest = list.newest /\ y.result = list.result /\ y.filter = list.filter /\ y.page = last
          BY <1>3 DEF ListStates
      <2>4. list' = [y EXCEPT !.newest = n]
          BY <1>3, <2>2 DEF ListStates
      <2> HIDE DEF y
      <2>5. /\ list' \in ListStates /\ list'.newest = n /\ list'.result = list.result /\ list'.filter = list.filter
            /\ list'.page = last
          BY <2>3, <2>4 DEF ListStates
      <2>6. PICK z \in PageAsks : /\ z = x /\ z.n = n /\ z.filter = list.filter /\ z.page = last
                                  /\ ~z.answer.known /\ z.answer.rows = {}
          <3>1. x \in PageAsks /\ x.n = n /\ x.filter = list.filter /\ x.page = last /\ ~x.answer.known /\ x.answer.rows = {}
              BY <1>3, Nothing DEF PageAsks
          <3> QED BY <3>1
      <2>7. \A m \in loads : m.n < n
          BY <1>3, <2>1 DEF ListInv, ListTypes, PageAsks
      <2>8. z \in loads' /\ \A m \in loads' : m = z \/ (m \in loads /\ m.n < list'.newest)
          BY <2>2, <2>5, <2>6, <2>7
      <2>9. detail'.id = 0
          BY <1>1, <1>5 DEF InList
      <2> QED BY <1>1, <1>4, <2>2, <2>5, <2>6, <2>8, <2>9, Asked
  <1>8. CASE ~(l.n = list.newest /\ l.page > last /\ list.page # last)
      <2>1. /\ loads' = loads \ {l} /\ UNCHANGED stale
            /\ list' = IF l.n = list.newest /\ l.page <= last
                       THEN [list EXCEPT !.result = l.answer, !.error = FALSE] ELSE list
          BY <1>6, <1>8 DEF ListAnswered, Newest
      <2>2. CASE l.n = list.newest /\ l.page <= last
          <3> DEFINE y == [list EXCEPT !.result = l.answer]
          <3>1. /\ y \in ListStates /\ y.newest = list.newest /\ y.result = l.answer /\ y.filter = list.filter
                /\ y.page = list.page /\ y.confirming = list.confirming
              BY <1>2, <1>3 DEF ListStates
          <3>2. list' = [y EXCEPT !.error = FALSE]
              BY <1>3, <2>1, <2>2 DEF ListStates
          <3> HIDE DEF y
          <3>3. /\ list' \in ListStates /\ list'.newest = list.newest /\ list'.result = l.answer /\ list'.filter = list.filter
                /\ list'.page = list.page /\ list'.confirming = list.confirming
              BY <3>1, <3>2 DEF ListStates
          <3>4. Shows'
              <4>1. list.page > 0 /\ ~stale => l.answer.rows # {}
                  BY <1>1, <1>2, <1>3, <1>4, <1>6, <2>2 DEF Fresh, Honest
              <4> QED BY <1>1, <1>4, <2>1, <2>2, <3>3, <4>1 DEF Shows, Fresh, Honest, Settled
          <3> QED BY <1>1, <1>4, <2>1, <3>3, <3>4, Fewer
      <2>3. CASE ~(l.n = list.newest /\ l.page <= last)
          <3>1. list' = list
              BY <2>1, <2>3
          <3>2. l.n # list.newest \/ stale
              BY <1>2, <1>3, <1>4, <1>8, <2>3 DEF Fresh
          <3>3. Shows'
              BY <1>1, <2>1, <3>1, <3>2 DEF ListInv, Shows, Settled
          <3> QED BY <1>1, <1>3, <1>4, <2>1, <3>1, <3>3, Fewer
      <2> QED BY <2>2, <2>3
  <1> QED BY <1>7, <1>8

LEMMA ListIsLost ==
    ASSUME InstTypes, ListTypes, ListInv, NEW l \in loads, ListLost(l)
    PROVE  ListTypes' /\ ListInv'
  <1>1. /\ loads' = loads \ {l} /\ list' = (IF l.n = list.newest THEN [list EXCEPT !.error = TRUE] ELSE list)
        /\ UNCHANGED << inst, turns, acts, lastAct, stale, detail, views, crossed >>
      BY DEF ListLost, Newest
  <1>2. list \in ListStates /\ There(list.result.rows)
      BY DEF ListTypes, ListInv
  <1>3. /\ list' \in ListStates /\ list'.newest = list.newest /\ list'.result = list.result /\ list'.filter = list.filter
        /\ list'.page = list.page /\ list'.confirming = list.confirming /\ (l.n = list.newest => list'.error)
      BY <1>1, <1>2 DEF ListStates
  <1>4. Shows'
      <2>1. CASE l.n = list.newest
          BY <1>3, <2>1 DEF Shows
      <2>2. CASE l.n # list.newest
          <3>1. list' = list
              BY <1>1, <2>2
          <3> QED BY <1>1, <2>2, <3>1 DEF ListInv, Shows, Settled
      <2> QED BY <2>1, <2>2
  <1> QED BY <1>1, <1>2, <1>3, <1>4, Fewer

\* What the page does about a row before the server is asked, and when it is.
LEMMA RowActions ==
    ASSUME InstTypes, ListTypes, ListInv,
           \/ \E row \in list.result.rows : \E kind \in Offered(row.status) : Clicks(row, kind)
           \/ Confirms \/ Declines
    PROVE  ListTypes' /\ ListInv' /\ UNCHANGED << inst, turns, detail, views, crossed >>
  <1>1. list \in ListStates /\ list.confirming \subseteq Listed \X {"cancel", "restart"} /\ list.result.rows \subseteq Rows
        /\ list.filter \in ListFilters /\ list.page \in Nat
      BY DEF ListTypes, ListStates, Results
  \* Any step that only says of a row that it is busy, or asks about one.
  <1>2. ASSUME NEW new \in ListStates, new.newest = list.newest, new.result = list.result, new.filter = list.filter,
               new.page = list.page, new.error = list.error, list' = new,
               UNCHANGED << inst, turns, loads, lastAct, stale, detail >>, InList,
               acts' \subseteq Actions, acts \subseteq acts', \A a \in acts' \ acts : a.at = "sent"
        PROVE  ListTypes' /\ ListInv'
      <2>1. ListTypes'
          BY <1>2 DEF ListTypes, InList
      <2>2. Settled' => Settled
          BY <1>2 DEF Settled
      <2>3. There(list.result.rows)' /\ Shows'
          BY <1>2, <2>2 DEF ListInv, There, Shows
      <2>4. ASSUME NEW l \in loads' PROVE
               /\ l.n <= list'.newest /\ Honest(l)' /\ There(l.answer.rows)' /\ Fresh(l)'
               /\ \A m \in loads' : m.n = l.n => m = l
          BY <1>2, <2>2, <2>4 DEF ListInv, Honest, There, Fresh
      <2> QED BY <2>1, <2>3, <2>4 DEF ListInv
  <1>3. ASSUME NEW i \in Listed, NEW kind \in {"suspend", "resume", "cancel", "restart"}, RunsAction(i, kind), InList
        PROVE  ListTypes' /\ ListInv' /\ UNCHANGED << inst, turns, detail, views, crossed >>
      <2> DEFINE y == [list EXCEPT !.busy = i]
                 a == [id |-> i, kind |-> kind, filter |-> list.filter, page |-> list.page, at |-> "sent"]
      <2>1. y \in ListStates /\ y.newest = list.newest /\ y.result = list.result /\ y.filter = list.filter
            /\ y.page = list.page /\ y.error = list.error
          BY <1>1 DEF ListStates
      <2>2. list' = [y EXCEPT !.confirming = {}]
          BY <1>1, <1>3 DEF RunsAction, ListStates
      <2> HIDE DEF y
      <2>3. PICK new \in ListStates : /\ new = list' /\ new.newest = list.newest /\ new.result = list.result
                                      /\ new.filter = list.filter /\ new.page = list.page /\ new.error = list.error
          BY <2>1, <2>2 DEF ListStates
      <2>4. acts' = acts \cup {a} /\ UNCHANGED << inst, turns, loads, lastAct, stale, detail, views, crossed >>
          BY <1>3 DEF RunsAction
      <2>5. a \in Actions /\ a.at = "sent"
          BY <1>1 DEF Actions
      <2> HIDE DEF a
      <2>6. acts' \subseteq Actions /\ acts \subseteq acts' /\ \A b \in acts' \ acts : b.at = "sent"
          BY <2>4, <2>5 DEF ListTypes
      <2> QED BY <1>2, <1>3, <2>3, <2>4, <2>6
  <1>4. ASSUME NEW confirming \in SUBSET (Listed \X {"cancel", "restart"}), list' = [list EXCEPT !.confirming = confirming],
               UNCHANGED << inst, turns, loads, acts, lastAct, stale, detail, views, crossed >>, InList
        PROVE  ListTypes' /\ ListInv' /\ UNCHANGED << inst, turns, detail, views, crossed >>
      <2>1. PICK new \in ListStates : /\ new = list' /\ new.newest = list.newest /\ new.result = list.result
                                      /\ new.filter = list.filter /\ new.page = list.page /\ new.error = list.error
          BY <1>1, <1>4 DEF ListStates
      <2>2. acts' \subseteq Actions /\ acts \subseteq acts' /\ \A b \in acts' \ acts : b.at = "sent"
          BY <1>4 DEF ListTypes
      <2> QED BY <1>2, <1>4, <2>1, <2>2
  <1>5. ASSUME NEW row \in list.result.rows, NEW kind \in Offered(row.status), Clicks(row, kind)
        PROVE  ListTypes' /\ ListInv' /\ UNCHANGED << inst, turns, detail, views, crossed >>
      <2>1. row.id \in Listed /\ kind \in {"suspend", "resume", "cancel", "restart"} /\ InList
          BY <1>1, <1>5 DEF Rows, Offered, Clicks
      <2>2. CASE kind \in {"suspend", "resume"}
          BY <1>3, <1>5, <2>1, <2>2 DEF Clicks
      <2>3. CASE kind \notin {"suspend", "resume"}
          <3>1. {<< row.id, kind >>} \in SUBSET (Listed \X {"cancel", "restart"})
              BY <2>1, <2>3
          <3>2. list' = [list EXCEPT !.confirming = {<< row.id, kind >>}]
                /\ UNCHANGED << inst, turns, loads, acts, lastAct, stale, detail, views, crossed >>
              BY <1>5, <2>3 DEF Clicks
          <3>3. PICK s \in SUBSET (Listed \X {"cancel", "restart"}) : s = {<< row.id, kind >>}
              BY <3>1
          <3> QED BY <1>4, <2>1, <3>2, <3>3
      <2> QED BY <2>2, <2>3
  <1>6. ASSUME Confirms PROVE ListTypes' /\ ListInv' /\ UNCHANGED << inst, turns, detail, views, crossed >>
      <2>1. PICK p \in list.confirming : RunsAction(p[1], p[2])
          BY <1>6 DEF Confirms
      <2>2. p[1] \in Listed /\ p[2] \in {"suspend", "resume", "cancel", "restart"} /\ InList
          BY <1>1 DEF ListTypes
      <2> QED BY <1>3, <2>1, <2>2
  <1>7. ASSUME Declines PROVE ListTypes' /\ ListInv' /\ UNCHANGED << inst, turns, detail, views, crossed >>
      <2>1. InList /\ list' = [list EXCEPT !.confirming = {}]
            /\ UNCHANGED << inst, turns, loads, acts, lastAct, stale, detail, views, crossed >>
          BY <1>7 DEF Declines, ListTypes
      <2> QED BY <1>4, <2>1
  <1> QED BY <1>5, <1>6, <1>7

\* The server makes something of an action, or refuses it.
LEMMA ActIsHandled ==
    ASSUME InstTypes, ListTypes, ListInv, NEW a \in acts, ActHandled(a)
    PROVE  ListTypes' /\ ListInv' /\ GoesOn /\ UNCHANGED << detail, views, crossed >>
  <1>1. a \in Actions /\ InList /\ list.result.rows \subseteq Rows /\ turns \in Nat
      BY DEF ListTypes, ListStates, Results, InstTypes
  <1>2. UNCHANGED << list, loads, stale, detail, views, crossed >>
      BY DEF ActHandled
  <1>3. GoesOn
      BY <1>1, ActionTakes, Stays DEF ActHandled
  <1>4. lastAct' \in Nat /\ lastAct' <= turns'
      <2>1. lastAct \in Nat /\ lastAct <= turns
          BY DEF ListTypes
      <2>2. lastAct' = turns' \/ lastAct' = lastAct
          BY DEF ActHandled
      <2>3. turns' \in Nat /\ turns <= turns'
          BY <1>3 DEF GoesOn
      <2> QED BY <1>1, <2>1, <2>2, <2>3
  <1>5. PICK e \in Actions : e = [a EXCEPT !.at = "answered"] /\ e.at = "answered"
      <2>1. [a EXCEPT !.at = "answered"] \in Actions /\ [a EXCEPT !.at = "answered"].at = "answered"
          BY <1>1 DEF Actions
      <2> QED BY <2>1
  <1>6. acts' = (acts \ {a}) \cup {e}
      BY <1>5 DEF ActHandled
  <1>7. ~Settled'
      BY <1>5, <1>6 DEF Settled
  <1>8. ListTypes'
      BY <1>1, <1>2, <1>4, <1>5, <1>6 DEF ListTypes, InList
  <1>9. \A rows \in SUBSET Rows : There(rows) => There(rows)'
      BY <1>3 DEF There, Rows, GoesOn
  <1>10. There(list.result.rows)'
      BY <1>1, <1>2, <1>9 DEF ListInv
  <1>11. Shows'
      BY <1>2, <1>7 DEF ListInv, Shows
  <1>12. ASSUME NEW l \in loads' PROVE
           /\ l.n <= list'.newest /\ Honest(l)' /\ There(l.answer.rows)' /\ Fresh(l)'
           /\ \A m \in loads' : m.n = l.n => m = l
      <2>1. l \in loads /\ l.answer.rows \in SUBSET Rows /\ l.answer.seen \in Nat
          BY <1>2, <1>12 DEF ListTypes, PageAsks, Results
      <2>2. Honest(l)'
          BY <1>1, <1>3, <2>1 DEF ListInv, Honest, GoesOn
      <2>3. There(l.answer.rows)'
          BY <1>9, <2>1 DEF ListInv
      <2>4. Fresh(l)'
          BY <1>2, <1>7, <2>1 DEF ListInv, Fresh
      <2> QED BY <1>2, <2>1, <2>2, <2>3, <2>4 DEF ListInv
  <1> QED BY <1>2, <1>3, <1>8, <1>10, <1>11, <1>12 DEF ListInv

LEMMA Untouched == NoView \in ViewRecs /\ NoView.step = 0 /\ NoDialog \in Dialogs /\ ~NoDialog.open /\ ~NoDialog.busy
                   /\ NoDialog.says = "nothing" /\ 0 \in 0..LastStep
  BY InstancesAssumption DEF NoView, ViewRecs, NoDialog, Dialogs, Sayings

LEMMA NewView ==
    ASSUME NEW n \in Nat
    PROVE  View(n) \in Views /\ View(n).n = n /\ View(n).view.n = n /\ View(n).view.step = 0
  <1> DEFINE w == [NoView EXCEPT !.n = n]
  <1>1. w \in ViewRecs /\ w.n = n /\ w.step = 0
      BY Untouched DEF ViewRecs
  <1>2. View(n) = [n |-> n, todo |-> "instance", view |-> w]
      BY DEF View
  <1> HIDE DEF w
  <1> QED BY <1>1, <1>2 DEF Views

LEMMA FreshPage ==
    ASSUME NEW i \in Listed \cup {0}, NEW n \in Nat
    PROVE  LET d == FreshDetail(i, n)
           IN  d \in Details /\ d.id = i /\ d.asked = n /\ d.view = NoView /\ d.dialog = NoDialog /\ d.says = "nothing"
  BY Untouched DEF FreshDetail, Details

LEMMA FreshIsList == FreshList \in ListStates /\ FreshList.newest = 0 /\ FreshList.confirming = {}
                     /\ FreshList.result = NoList /\ There(FreshList.result.rows)
  BY Nothing DEF FreshList, ListStates, ListFilters, There

LEMMA Opening ==
    ASSUME InstInv, NEW row \in list.result.rows, OpensInstance(row)
    PROVE  InstInv'
  <1>1. row.id \in Listed /\ inst[row.id].status # "absent" /\ inst[row.id].step \in Nat
      <2>1. list.result.rows \subseteq Rows /\ There(list.result.rows)
          BY DEF InstInv, ListTypes, ListStates, Results, ListInv
      <2>2. row.id \in Listed /\ inst[row.id].status # "absent"
          BY <2>1 DEF Rows, There
      <2>3. \A i \in Listed : inst[i].step \in Nat
          BY DEF InstInv, InstTypes, Insts
      <2> QED BY <2>2, <2>3
  <1>2. PICK n \in Nat : n = detail.asked + 1
      <2>1. detail.asked \in Nat
          BY DEF InstInv, DetailTypes, Details
      <2> QED BY <2>1
  <1>3. /\ detail' = FreshDetail(row.id, n) /\ views' = {View(n)} /\ crossed' = FALSE
        /\ list' = FreshList /\ loads' = {} /\ acts' = {} /\ lastAct' = 0 /\ stale' = FALSE /\ UNCHANGED << inst, turns >>
      BY <1>2 DEF OpensInstance
  <1>4. PICK i \in Listed : i = row.id
      BY <1>1
  <1>5. PICK d \in Details : /\ d = detail' /\ d.id = i /\ d.asked = n /\ d.view = NoView /\ d.dialog = NoDialog
                             /\ d.says = "nothing"
      BY <1>3, <1>4, FreshPage
  <1>6. i # 0
      BY InstancesAssumption
  <1>7. InstTypes'
      BY <1>3 DEF InstInv, InstTypes
  <1>8. ListTypes'
      <2>1. turns \in Nat
          BY DEF InstInv, InstTypes
      <2>2. list' \in ListStates /\ list'.confirming = {}
          BY <1>3, FreshIsList
      <2>3. lastAct' \in Nat /\ lastAct' <= turns'
          BY <1>3, <2>1
      <2> QED BY <1>3, <2>2, <2>3 DEF ListTypes
  <1>9. ListInv'
      <2>0. list'.result.rows = {}
          BY <1>3, Nothing, FreshIsList
      <2>1. There(list.result.rows)'
          BY <2>0 DEF There
      <2>2. Shows'
          BY <1>3, FreshIsList DEF Shows
      <2> QED BY <1>3, <2>1, <2>2 DEF ListInv
  <1>10. View(n) \in Views /\ View(n).n = n /\ View(n).view.n = n /\ View(n).view.step = 0
      BY NewView
  <1>11. DetailTypes'
      BY <1>3, <1>5, <1>6, <1>10, Untouched DEF DetailTypes, InList
  <1>12. ViewsInv'
      <2>1. inst'[detail'.id].status # "absent" /\ inst'[detail'.id].step \in Nat
          BY <1>1, <1>3, <1>4, <1>5
      <2>2. detail'.view.step = 0 /\ detail'.view.n <= detail'.asked
          <3>1. NoView.n = 0
              BY DEF NoView
          <3> QED BY <1>5, <3>1, Untouched
      <2>3. \A v \in views' : v.n = detail'.asked /\ v.view.n = v.n /\ v.view.step = 0
          BY <1>3, <1>5, <1>10
      <2>4. \E v \in views' : v.n = detail'.asked
          BY <1>3, <1>5, <1>10
      <2> QED BY <1>5, <2>1, <2>2, <2>3, <2>4 DEF ViewsInv
  <1>13. SaysInv'
      BY <1>5, Untouched DEF SaysInv
  <1> QED BY <1>7, <1>8, <1>9, <1>11, <1>12, <1>13 DEF InstInv

LEMMA Returning == ASSUME InstInv, GoesBack PROVE InstInv'
  <1>1. /\ ~InList /\ views' = {} /\ Asks(FreshList, "", 0) /\ UNCHANGED << inst, turns, acts, lastAct, crossed >>
        /\ detail' = [FreshDetail(0, detail.asked) EXCEPT !.asked = detail.asked]
      BY DEF GoesBack
  <1>2. InstTypes /\ ListTypes /\ ListInv /\ loads = {} /\ detail.asked \in Nat
      BY <1>1 DEF InstInv, ListTypes, DetailTypes, Details
  <1>3. PICK n \in Nat : n = detail.asked
      BY <1>2
  <1>4. PICK d \in Details : d = FreshDetail(0, n) /\ d.id = 0 /\ d.asked = n /\ d.dialog = NoDialog
      BY FreshPage
  <1>5. detail' = [d EXCEPT !.asked = n]
      BY <1>1, <1>3, <1>4
  <1>6. detail' \in Details /\ detail'.id = 0 /\ detail'.dialog = NoDialog
      BY <1>4, <1>5 DEF Details
  <1>7. ListTypes' /\ ListInv'
      <2>1. PICK s \in ListStates : s = FreshList
          BY FreshIsList
      <2>2. PICK f \in ListFilters : f = ""
          BY DEF ListFilters
      <2>3. Asks(s, f, 0) /\ There(s.result.rows) /\ \A l \in loads : l.n <= s.newest
          BY <1>1, <1>2, <2>1, <2>2, FreshIsList
      <2> QED BY <1>1, <1>2, <1>6, <2>3, AsksIsAsked
  <1>8. InstTypes' /\ DetailTypes'
      BY <1>1, <1>6, Untouched DEF InstInv, InstTypes, DetailTypes, InList
  <1>9. ViewsInv' /\ SaysInv'
      BY <1>6 DEF ViewsInv, SaysInv, InList
  <1> QED BY <1>7, <1>8, <1>9 DEF InstInv

\* What the types say of the page of an instance.
LEMMA PageFacts ==
    ASSUME InstTypes, DetailTypes, ~InList
    PROVE  /\ detail \in Details /\ detail.id \in Listed /\ detail.view \in ViewRecs /\ detail.view.step \in Nat
           /\ detail.view.n \in Nat /\ detail.asked \in Nat /\ detail.why \in Nat
           /\ detail.dialog \in Dialogs /\ detail.dialog.step \in Nat
           /\ inst[detail.id] \in Insts /\ inst[detail.id].step \in Nat /\ inst[detail.id].step \in 0..LastStep
           /\ inst[detail.id].status \in Statuses /\ inst[detail.id].failedAt \in 0..LastStep
           /\ \A v \in views : v \in Views /\ v.n \in Nat /\ v.view \in ViewRecs /\ v.view.step \in Nat /\ v.view.n \in Nat
  <1>0. \A s \in 0..LastStep : s \in Nat
      BY InstancesAssumption
  <1>1. detail \in Details /\ detail.id \in Listed /\ views \subseteq Views
      BY DEF DetailTypes, InList, Details
  <1>2. \A w \in ViewRecs : w.step \in Nat /\ w.n \in Nat
      BY <1>0 DEF ViewRecs
  <1>3. \A v \in Views : v.n \in Nat /\ v.view \in ViewRecs
      BY DEF Views
  <1>4. /\ detail.view \in ViewRecs /\ detail.asked \in Nat /\ detail.why \in 0..LastStep /\ detail.dialog \in Dialogs
      BY <1>1 DEF Details
  <1>5. detail.dialog.step \in 0..LastStep
      BY <1>4 DEF Dialogs
  <1>6. inst[detail.id] \in Insts
      BY <1>1 DEF InstTypes
  <1>7. inst[detail.id].step \in 0..LastStep /\ inst[detail.id].status \in Statuses /\ inst[detail.id].failedAt \in 0..LastStep
      BY <1>6 DEF Insts
  <1>8. \A v \in views : v \in Views /\ v.n \in Nat /\ v.view \in ViewRecs /\ v.view.step \in Nat /\ v.view.n \in Nat
      BY <1>1, <1>2, <1>3
  <1> QED BY <1>0, <1>1, <1>2, <1>4, <1>5, <1>6, <1>7, <1>8

\* The instance goes on while it is looked at.
LEMMA PageGoesOn ==
    ASSUME InstTypes, DetailTypes, ViewsInv, GoesOn, ~InList
    PROVE  /\ inst'[detail.id].status # "absent" /\ inst'[detail.id].step \in Nat
           /\ inst[detail.id].step <= inst'[detail.id].step
           /\ inst[detail.id].status \in Over => inst'[detail.id].status \in Over
  <1>1. detail.id \in Listed /\ inst[detail.id].status # "absent"
      BY PageFacts DEF ViewsInv
  <1>2. inst'[detail.id] \in Insts
      BY <1>1 DEF GoesOn
  <1>3. inst'[detail.id].step \in Nat
      BY <1>2, InstancesAssumption DEF Insts
  <1> QED BY <1>1, <1>3 DEF GoesOn

\* The page of the instance is left alone while instances go on.
LEMMA ViewsStay ==
    ASSUME InstTypes, DetailTypes, ViewsInv, GoesOn, detail'.id = detail.id, detail'.view = detail.view,
           detail'.asked = detail.asked, UNCHANGED << views, crossed >>
    PROVE  ViewsInv'
  <1>1. CASE InList
      BY <1>1 DEF ViewsInv, InList
  <1>2. CASE ~InList
      <2>1. \A s \in Nat : s <= inst[detail.id].step => s <= inst'[detail.id].step
          BY <1>2, PageFacts, PageGoesOn
      <2>2. detail.view.step <= inst'[detail.id].step /\ \A v \in views : v.view.step <= inst'[detail.id].step
          BY <1>2, <2>1, PageFacts DEF ViewsInv
      <2>3. inst'[detail.id].status # "absent"
          BY <1>2, PageGoesOn
      <2> QED BY <1>2, <2>2, <2>3 DEF ViewsInv
  <1> QED BY <1>1, <1>2

LEMMA SaysStays ==
    ASSUME InstTypes, DetailTypes, ViewsInv, SaysInv, GoesOn, detail'.id = detail.id, detail'.says = detail.says,
           detail'.why = detail.why, detail'.dialog = detail.dialog
    PROVE  SaysInv'
  <1>1. CASE InList
      BY <1>1 DEF SaysInv, InList
  <1>2. CASE ~InList
      <2>1. \A s \in Nat : s <= inst[detail.id].step => s <= inst'[detail.id].step
          BY <1>2, PageFacts, PageGoesOn
      <2>2. \A s \in Nat : Behind(detail.id, s) => inst'[detail.id].status \in Over \/ s < inst'[detail.id].step
          BY <1>2, PageFacts, PageGoesOn DEF Behind
      <2>3. detail.why \in Nat /\ detail.dialog.step \in Nat
          BY <1>2, PageFacts
      <2> QED BY <1>2, <2>1, <2>2, <2>3 DEF SaysInv, Behind
  <1> QED BY <1>1, <1>2

LEMMA PageKept ==
    ASSUME InstTypes, DetailTypes, ViewsInv, SaysInv, GoesOn, UNCHANGED << detail, views, crossed >>
    PROVE  DetailTypes' /\ ViewsInv' /\ SaysInv'
  <1>1. ViewsInv' /\ SaysInv'
      BY ViewsStay, SaysStays
  <1> QED BY <1>1 DEF DetailTypes, InList

\* The instance is loaded once more.
LEMMA ViewAsked ==
    ASSUME InstTypes, DetailTypes, ViewsInv, GoesOn, ~InList, detail'.id = detail.id, detail'.view = detail.view,
           detail'.asked = detail.asked + 1, views' = views \cup {View(detail.asked + 1)}, UNCHANGED crossed
    PROVE  ViewsInv' /\ views' \subseteq Views
  <1>1. detail.id \in Listed /\ detail.asked \in Nat /\ detail.view.step \in Nat /\ detail.view.n \in Nat
      BY PageFacts
  <1>2. PICK n \in Nat : n = detail.asked + 1
      BY <1>1
  <1>3. PICK x \in Views : x = View(n) /\ x.n = n /\ x.view.n = n /\ x.view.step = 0
      BY NewView
  <1>4. views' = views \cup {x} /\ detail'.asked = n /\ x \in views'
      BY <1>2, <1>3
  <1>5. /\ inst[detail.id].step \in Nat /\ inst'[detail.id].status # "absent" /\ inst'[detail.id].step \in Nat
        /\ inst[detail.id].step <= inst'[detail.id].step
      BY PageFacts, PageGoesOn
  <1>6. \A v \in views : v.n \in Nat /\ v.view.step \in Nat
      BY PageFacts
  <1>7. \A v \in views' : v.n <= detail'.asked /\ v.view.n = v.n /\ v.view.step <= inst'[detail'.id].step
      <2>1. ASSUME NEW v \in views PROVE v.n <= n /\ v.view.n = v.n /\ v.view.step <= inst'[detail.id].step
          BY <1>1, <1>2, <1>5, <1>6 DEF ViewsInv
      <2> QED BY <1>3, <1>4, <1>5, <2>1
  <1>8. detail'.view.step <= inst'[detail'.id].step /\ detail'.view.n <= detail'.asked
      BY <1>1, <1>2, <1>4, <1>5 DEF ViewsInv
  <1>9. \E v \in views' : v.n = detail'.asked
      BY <1>3, <1>4
  <1>10. views' \subseteq Views
      BY <1>3, <1>4 DEF DetailTypes
  <1> QED BY <1>5, <1>7, <1>8, <1>9, <1>10 DEF ViewsInv

LEMMA ViewRecord ==
    ASSUME NEW n \in Nat, NEW todo \in {"instance", "tokens", "none"}, NEW view \in ViewRecs
    PROVE  \E e \in Views : e = [n |-> n, todo |-> todo, view |-> view] /\ e.n = n /\ e.view = view
  <1> DEFINE r == [n |-> n, todo |-> todo, view |-> view]
  <1>1. r \in Views /\ r.n = n /\ r.view = view
      BY DEF Views
  <1> QED BY <1>1

\* An answer is read in two parts, comes or is lost.
LEMMA ViewSteps ==
    ASSUME InstInv, NEW v \in views, ViewRead(v) \/ ViewAnswered(v) \/ ViewLost(v)
    PROVE  InstInv'
  <1>1. InstTypes /\ ListTypes /\ ListInv /\ DetailTypes /\ ViewsInv /\ SaysInv
      BY DEF InstInv
  <1>2. UNCHANGED << inst, turns, list, loads, acts, lastAct, stale >>
      BY DEF ViewRead, ViewAnswered, ViewLost, Detail
  <1>3. GoesOn /\ InstTypes'
      BY <1>1, <1>2, Stays DEF InstTypes
  <1>4. ~InList /\ detail.id \in Listed /\ v \in Views /\ detail \in Details /\ views \subseteq Views
      BY <1>1 DEF DetailTypes, Details, InList
  <1>5. /\ v.n \in Nat /\ v.view \in ViewRecs /\ v.view.n \in Nat /\ v.view.step \in Nat
        /\ v.n <= detail.asked /\ v.view.n = v.n /\ v.view.step <= inst[detail.id].step
      BY <1>1, <1>4, PageFacts DEF ViewsInv
  <1>6. /\ inst[detail.id] \in Insts /\ inst[detail.id].step \in Nat /\ inst[detail.id].step \in 0..LastStep
        /\ inst[detail.id].status \in Statuses /\ inst[detail.id].failedAt \in 0..LastStep
      BY <1>1, <1>4, PageFacts
  \* All that matters of the new state of the page.
  <1>7. ASSUME detail' \in Details, detail'.id = detail.id, detail'.says = detail.says, detail'.why = detail.why,
               detail'.dialog = detail.dialog, views' \subseteq Views, crossed' \in BOOLEAN, ViewsInv'
        PROVE  InstInv'
      <2>1. DetailTypes'
          BY <1>1, <1>4, <1>7 DEF DetailTypes, InList
      <2>2. SaysInv'
          BY <1>1, <1>3, <1>7, SaysStays
      <2>3. ListTypes' /\ ListInv'
          BY <1>1, <1>2, <1>3, <1>7, ListKept
      <2> QED BY <1>3, <1>7, <2>1, <2>2, <2>3 DEF InstInv
  <1>8. CASE ViewRead(v)
      <2> DEFINE i == inst[detail.id]
                 s == IF i.status \in Over THEN 0 ELSE i.step
      <2>1. PICK e \in Views : /\ views' = (views \ {v}) \cup {e} /\ e.n = v.n /\ e.view.n = v.n
                               /\ e.view.step \in {v.view.step, s}
          <3>1. CASE v.todo = "instance"
              <4>0. PICK t \in Statuses, f \in 0..LastStep, old \in ViewRecs :
                       t = i.status /\ f = i.failedAt /\ old = v.view
                  BY <1>5, <1>6
              <4> DEFINE w0 == [old EXCEPT !.status = t]
                         x0 == [w0 EXCEPT !.failedAt = f]
              <4>1. w0 \in ViewRecs /\ w0.n = old.n /\ w0.step = old.step
                  BY DEF ViewRecs
              <4> HIDE DEF w0
              <4>2. x0 \in ViewRecs /\ x0.n = w0.n /\ x0.step = w0.step
                  BY <4>1 DEF ViewRecs
              <4>6. PICK x \in ViewRecs : x = x0 /\ x.n = v.view.n /\ x.step = v.view.step
                  BY <4>0, <4>1, <4>2
              <4>7. PICK todo \in {"instance", "tokens", "none"} : todo = "tokens"
                  OBVIOUS
              <4>3. PICK e \in Views : e = [n |-> v.n, todo |-> todo, view |-> x] /\ e.n = v.n /\ e.view = x
                  BY <1>5, ViewRecord
              <4>4. [v EXCEPT !.todo = "tokens", !.view.status = i.status, !.view.failedAt = i.failedAt] = e
                  BY <1>4, <1>5, <4>0, <4>3, <4>6, <4>7 DEF Views, ViewRecs, w0
              <4>5. views' = (views \ {v}) \cup {e}
                  BY <1>8, <3>1, <4>4 DEF ViewRead
              <4> QED BY <1>5, <4>3, <4>5, <4>6
          <3>2. CASE v.todo # "instance"
              <4>0. s \in 0..LastStep
                  BY <1>6, InstancesAssumption
              <4> DEFINE w0 == [v.view EXCEPT !.step = s]
              <4>5. PICK t \in 0..LastStep : t = s
                  BY <4>0
              <4>6. w0 \in ViewRecs /\ w0.n = v.view.n /\ w0.step = t
                  BY <1>5, <4>5 DEF ViewRecs
              <4>1. PICK w \in ViewRecs : w = w0 /\ w.n = v.view.n /\ w.step = s
                  BY <4>5, <4>6
              <4>7. PICK todo \in {"instance", "tokens", "none"} : todo = "none"
                  OBVIOUS
              <4>2. PICK e \in Views : e = [n |-> v.n, todo |-> todo, view |-> w] /\ e.n = v.n /\ e.view = w
                  BY <1>5, ViewRecord
              <4>3. [v EXCEPT !.todo = "none", !.view.step = s] = e
                  BY <1>4, <1>5, <4>1, <4>2, <4>7 DEF Views
              <4>4. views' = (views \ {v}) \cup {e}
                  BY <1>8, <3>2, <4>3 DEF ViewRead
              <4> QED BY <1>5, <4>1, <4>2, <4>4
          <3> QED BY <3>1, <3>2
      <2>2. UNCHANGED << detail, crossed >>
          BY <1>8 DEF ViewRead, Detail
      <2>3. e.view.step <= inst[detail.id].step
          BY <1>5, <1>6, <2>1
      <2>4. ViewsInv'
          <3>1. \A x \in views' : x.n <= detail.asked /\ x.view.n = x.n /\ x.view.step <= inst[detail.id].step
              BY <1>1, <1>4, <1>5, <2>1, <2>3 DEF ViewsInv
          <3>2. ~crossed => detail.view.n = detail.asked \/ \E x \in views' : x.n = detail.asked
              BY <1>1, <1>4, <2>1 DEF ViewsInv
          <3> QED BY <1>1, <1>2, <1>4, <2>2, <3>1, <3>2 DEF ViewsInv
      <2> QED BY <1>1, <1>4, <1>7, <2>1, <2>2, <2>4 DEF DetailTypes
  <1>9. CASE ViewAnswered(v)
      <2> DEFINE y == [detail EXCEPT !.view = v.view]
      <2>1. /\ y \in Details /\ y.id = detail.id /\ y.view = v.view /\ y.asked = detail.asked /\ y.dialog = detail.dialog
            /\ y.says = detail.says /\ y.why = detail.why
          BY <1>4, <1>5 DEF Details
      <2>2. detail' = [y EXCEPT !.error = FALSE]
          BY <1>4, <1>9 DEF ViewAnswered, Detail, Details
      <2> HIDE DEF y
      <2>3. /\ detail' \in Details /\ detail'.id = detail.id /\ detail'.view = v.view /\ detail'.asked = detail.asked
            /\ detail'.dialog = detail.dialog /\ detail'.says = detail.says /\ detail'.why = detail.why
          BY <2>1, <2>2 DEF Details
      <2>4. views' = views \ {v} /\ crossed' = (crossed \/ v.n < detail.view.n)
          BY <1>9 DEF ViewAnswered
      <2>5. crossed' \in BOOLEAN
          BY <2>4
      <2>6. detail.view.n \in Nat /\ detail.asked \in Nat /\ detail.view.n <= detail.asked
          BY <1>1, <1>4 DEF Details, ViewRecs, ViewsInv
      <2>7. ~crossed' => detail'.view.n = detail'.asked \/ \E x \in views' : x.n = detail'.asked
          <3>1. SUFFICES ASSUME ~crossed', v.n # detail.asked PROVE \E x \in views' : x.n = detail.asked
              BY <1>5, <2>3
          <3>2. ~crossed /\ ~(v.n < detail.view.n)
              BY <2>4, <3>1
          <3>3. detail.view.n # detail.asked
              BY <1>5, <2>6, <3>1, <3>2
          <3>4. PICK x \in views : x.n = detail.asked
              BY <1>1, <1>4, <3>2, <3>3 DEF ViewsInv
          <3> QED BY <2>4, <3>1, <3>4
      <2>8. ViewsInv'
          BY <1>1, <1>2, <1>4, <1>5, <2>3, <2>4, <2>7 DEF ViewsInv
      <2> QED BY <1>4, <1>7, <2>3, <2>4, <2>5, <2>8
  <1>10. CASE ViewLost(v)
      <2>1. detail' = [detail EXCEPT !.error = TRUE] /\ views' = views \ {v} /\ crossed' = (crossed \/ v.n = detail.asked)
          BY <1>10 DEF ViewLost, Detail
      <2>2. /\ detail' \in Details /\ detail'.id = detail.id /\ detail'.view = detail.view /\ detail'.asked = detail.asked
            /\ detail'.dialog = detail.dialog /\ detail'.says = detail.says /\ detail'.why = detail.why
          BY <1>4, <2>1 DEF Details
      <2>3. crossed' \in BOOLEAN
          BY <2>1
      <2>4. ~crossed' => detail.view.n = detail.asked \/ \E x \in views' : x.n = detail.asked
          BY <1>1, <1>4, <2>1 DEF ViewsInv
      <2>5. ViewsInv'
          BY <1>1, <1>2, <1>4, <2>1, <2>2, <2>4 DEF ViewsInv
      <2> QED BY <1>4, <1>7, <2>1, <2>2, <2>3, <2>5
  <1> QED BY <1>8, <1>9, <1>10

LEMMA Further == \A s, m, n \in Nat : m <= n => (s <= m => s <= n) /\ (s < m => s < n)
  OBVIOUS

LEMMA OneMore == \A n \in Nat : n + 1 \in Nat
  OBVIOUS

\* All that matters of the new state of the page.
LEMMA PageAfter ==
    ASSUME InstInv, ~InList, GoesOn, UNCHANGED << list, loads, acts, lastAct, stale >>,
           detail' \in Details, detail'.id = detail.id, detail'.dialog.busy => detail'.dialog.open,
           detail'.dialog.open => detail'.dialog.action \in Forced,
           views' \subseteq Views, crossed' \in BOOLEAN, ViewsInv', SaysInv'
    PROVE  InstInv'
  <1>1. InstTypes /\ ListTypes /\ ListInv
      BY DEF InstInv
  <1>2. InstTypes'
      BY DEF GoesOn, InstTypes
  <1>3. ListTypes' /\ ListInv'
      BY <1>1, ListKept
  <1>4. DetailTypes'
      BY DEF DetailTypes, InList
  <1> QED BY <1>2, <1>3, <1>4 DEF InstInv

\* The page, with its dialog and message as in new, is loaded once more.
LEMMA ViewLoads ==
    ASSUME InstInv, ~InList, NEW new \in Details, LoadsView(new),
           new.id = detail.id, new.view = detail.view, new.asked = detail.asked, new.dialog.busy => new.dialog.open,
           new.dialog.open => new.dialog.action \in Forced,
           new.says \in {"complete", "fire", "moved on"} => Behind(new.id, new.why),
           new.dialog.says = "moved on" => Behind(new.id, new.dialog.step),
           new.dialog.open => new.dialog.step <= inst[new.id].step
    PROVE  InstInv'
  <1>1. /\ detail' = [new EXCEPT !.asked = new.asked + 1] /\ views' = views \cup {View(new.asked + 1)}
        /\ UNCHANGED << inst, turns, crossed, list, loads, acts, lastAct, stale >>
      BY DEF LoadsView, Detail
  <1>2. InstTypes /\ DetailTypes /\ ViewsInv
      BY DEF InstInv
  <1>3. GoesOn
      BY <1>1, <1>2, Stays
  <1>9. new.asked \in Nat
      BY DEF Details
  <1>10. new.asked + 1 \in Nat
      BY <1>9, OneMore, Zenon
  <1>4. PICK n \in Nat : n = new.asked + 1
      BY <1>10
  <1>5. /\ detail' \in Details /\ detail'.id = new.id /\ detail'.view = new.view /\ detail'.asked = n
        /\ detail'.dialog = new.dialog /\ detail'.says = new.says /\ detail'.why = new.why
      BY <1>1, <1>4 DEF Details
  <1>6. ViewsInv' /\ views' \subseteq Views
      BY <1>1, <1>2, <1>3, <1>4, <1>5, ViewAsked
  <1>7. SaysInv'
      BY <1>1, <1>5 DEF SaysInv, Behind
  <1>8. crossed' \in BOOLEAN
      BY <1>1, <1>2 DEF DetailTypes
  <1> QED BY <1>1, <1>3, <1>5, <1>6, <1>7, <1>8, PageAfter

LEMMA ViewRefreshed == ASSUME InstInv, RefreshesView PROVE InstInv'
  <1>1. ~InList /\ LoadsView(detail) /\ ~detail.dialog.open
      BY DEF RefreshesView
  <1>2. PICK new \in Details : new = detail
      BY DEF InstInv, DetailTypes
  <1>3. (new.dialog.busy => new.dialog.open) /\ (new.dialog.open => new.dialog.action \in Forced)
      BY <1>2 DEF InstInv, DetailTypes
  <1>4. /\ new.says \in {"complete", "fire", "moved on"} => Behind(new.id, new.why)
        /\ new.dialog.says = "moved on" => Behind(new.id, new.dialog.step)
        /\ new.dialog.open => new.dialog.step <= inst[new.id].step
      BY <1>1, <1>2 DEF InstInv, SaysInv
  <1>5. LoadsView(new)
      BY <1>1, <1>2
  <1> QED BY <1>1, <1>2, <1>3, <1>4, <1>5, ViewLoads

\* The dialog changes, to new, and nothing else of the page.
LEMMA DialogOnly ==
    ASSUME InstInv, ~InList, GoesOn, NEW new \in Dialogs, Detail([detail EXCEPT !.dialog = new]), UNCHANGED << views, crossed >>,
           new.busy => new.open, new.open => new.action \in Forced,
           new.says = "moved on" => inst'[detail.id].status \in Over \/ new.step < inst'[detail.id].step,
           new.open => new.step <= inst'[detail.id].step
    PROVE  InstInv'
  <1>1. InstTypes /\ DetailTypes /\ ViewsInv /\ SaysInv
      BY DEF InstInv
  <1>2. detail' = [detail EXCEPT !.dialog = new] /\ UNCHANGED << list, loads, acts, lastAct, stale >>
      BY DEF Detail
  <1>3. detail \in Details /\ views \subseteq Views /\ crossed \in BOOLEAN
      BY <1>1 DEF DetailTypes
  <1>4. /\ detail' \in Details /\ detail'.id = detail.id /\ detail'.view = detail.view /\ detail'.asked = detail.asked
        /\ detail'.dialog = new /\ detail'.says = detail.says /\ detail'.why = detail.why
      BY <1>2, <1>3 DEF Details
  <1>5. ViewsInv'
      BY <1>1, <1>4, ViewsStay
  <1>6. \A s \in Nat : Behind(detail.id, s) => inst'[detail.id].status \in Over \/ s < inst'[detail.id].step
      <2>1. /\ inst[detail.id].step \in Nat /\ inst'[detail.id].step \in Nat /\ inst[detail.id].step <= inst'[detail.id].step
            /\ inst[detail.id].status \in Over => inst'[detail.id].status \in Over
          BY <1>1, PageFacts, PageGoesOn
      <2>2. ASSUME NEW s \in Nat, inst[detail.id].status \in Over \/ s < inst[detail.id].step
            PROVE  inst'[detail.id].status \in Over \/ s < inst'[detail.id].step
          BY <2>1, <2>2, Further, Zenon
      <2> QED BY <2>2 DEF Behind
  <1>7. detail.why \in Nat
      BY <1>1, PageFacts
  <1>8. SaysInv'
      BY <1>1, <1>4, <1>6, <1>7 DEF SaysInv, Behind
  <1> QED BY <1>2, <1>3, <1>4, <1>5, <1>8, PageAfter

\* What the dialog may become: sent, answered or opened.
LEMMA DialogSent ==
    ASSUME NEW x \in Dialogs
    PROVE  \E d \in Dialogs : /\ d = [x EXCEPT !.busy = TRUE, !.says = "nothing"]
                              /\ d.open = x.open /\ d.step = x.step /\ d.action = x.action /\ d.says = "nothing"
  <1> DEFINE y == [x EXCEPT !.busy = TRUE]
             z == [y EXCEPT !.says = "nothing"]
  <1>1. y \in Dialogs /\ y.open = x.open /\ y.step = x.step /\ y.action = x.action
      BY DEF Dialogs
  <1>2. z = [x EXCEPT !.busy = TRUE, !.says = "nothing"]
      OBVIOUS
  <1> HIDE DEF y
  <1>3. z \in Dialogs /\ z.open = y.open /\ z.step = y.step /\ z.action = y.action /\ z.says = "nothing"
      BY <1>1 DEF Dialogs, Sayings
  <1> QED BY <1>1, <1>2, <1>3

LEMMA DialogSaid ==
    ASSUME NEW x \in Dialogs, NEW says \in Sayings
    PROVE  \E d \in Dialogs : /\ d = [x EXCEPT !.busy = FALSE, !.says = says]
                              /\ d.open = x.open /\ d.step = x.step /\ d.action = x.action /\ ~d.busy /\ d.says = says
  <1> DEFINE y == [x EXCEPT !.busy = FALSE]
             z == [y EXCEPT !.says = says]
  <1>1. y \in Dialogs /\ y.open = x.open /\ y.step = x.step /\ y.action = x.action /\ ~y.busy
      BY DEF Dialogs
  <1>2. z = [x EXCEPT !.busy = FALSE, !.says = says]
      OBVIOUS
  <1> HIDE DEF y
  <1>3. z \in Dialogs /\ z.open = y.open /\ z.step = y.step /\ z.action = y.action /\ z.busy = y.busy /\ z.says = says
      BY <1>1 DEF Dialogs
  <1> QED BY <1>1, <1>2, <1>3

OpenFor(d, step, action) ==
    /\ d = [NoDialog EXCEPT !.open = TRUE, !.step = step, !.action = action]
    /\ d.step = step /\ d.action = action /\ ~d.busy /\ d.says = "nothing"

LEMMA DialogOpened ==
    ASSUME NEW step \in 0..LastStep, NEW action \in Forced
    PROVE  \E d \in Dialogs : OpenFor(d, step, action)
  <1> DEFINE x == [NoDialog EXCEPT !.open = TRUE]
             y == [x EXCEPT !.step = step]
             z == [y EXCEPT !.action = action]
  <1>1. z = [NoDialog EXCEPT !.open = TRUE, !.step = step, !.action = action]
      OBVIOUS
  <1>2. x \in Dialogs /\ ~x.busy /\ x.says = "nothing"
      BY Untouched DEF Dialogs
  <1> HIDE DEF x
  <1>3. y \in Dialogs /\ y.step = step /\ y.busy = x.busy /\ y.says = x.says
      BY <1>2 DEF Dialogs
  <1> HIDE DEF y
  <1>4. z \in Dialogs /\ z.step = y.step /\ z.action = action /\ z.busy = y.busy /\ z.says = y.says
      BY <1>3 DEF Dialogs
  <1> HIDE DEF z
  <1> QED BY <1>1, <1>2, <1>3, <1>4 DEF OpenFor

LEMMA ForceChosen == ASSUME InstInv, NEW action \in Forced, ChoosesForce(action) PROVE InstInv'
  <1>1. InstTypes /\ DetailTypes /\ ViewsInv /\ ~InList /\ UNCHANGED << inst, turns, views, crossed >>
      BY DEF InstInv, ChoosesForce
  <1>2. GoesOn /\ detail.view.step \in 0..LastStep /\ detail.view.step <= inst[detail.id].step
      <2>1. detail.view \in ViewRecs
          BY <1>1, PageFacts
      <2> QED BY <1>1, <2>1, Stays DEF ViewsInv, ViewRecs
  <1>3. PICK step \in 0..LastStep : step = detail.view.step
      BY <1>2
  <1>7. PICK d \in Dialogs : OpenFor(d, step, action)
      BY DialogOpened
  <1>4. /\ d = [NoDialog EXCEPT !.open = TRUE, !.step = step, !.action = action]
        /\ d.step = step /\ d.action = action /\ ~d.busy /\ d.says = "nothing"
      BY <1>7 DEF OpenFor
  <1>5. Detail([detail EXCEPT !.dialog = d])
      BY <1>3, <1>4 DEF ChoosesForce
  <1>6. d.step <= inst'[detail.id].step
      BY <1>1, <1>2, <1>3, <1>4
  <1> QED BY <1>1, <1>2, <1>4, <1>5, <1>6, DialogOnly

LEMMA ForceSent == ASSUME InstInv, SubmitsForce PROVE InstInv'
  <1>1. InstTypes /\ DetailTypes /\ ViewsInv /\ SaysInv /\ detail.dialog.open /\ UNCHANGED << inst, turns, views, crossed >>
      BY DEF InstInv, SubmitsForce
  <1>2. ~InList /\ detail.dialog \in Dialogs /\ detail \in Details /\ detail.dialog.step <= inst[detail.id].step
      BY <1>1, PageFacts DEF DetailTypes, SaysInv
  <1>3. PICK x \in Dialogs : x = detail.dialog
      BY <1>2
  <1>5. PICK d \in Dialogs : /\ d = [x EXCEPT !.busy = TRUE, !.says = "nothing"]
                             /\ d.open = x.open /\ d.step = x.step /\ d.action = x.action /\ d.says = "nothing"
      BY DialogSent
  <1>6. Detail([detail EXCEPT !.dialog = d])
      <2>1. [detail EXCEPT !.dialog.busy = TRUE, !.dialog.says = "nothing"] = [detail EXCEPT !.dialog = d]
          BY <1>2, <1>3, <1>5 DEF Details, Dialogs
      <2> QED BY <2>1 DEF SubmitsForce
  <1>7. d.step <= inst'[detail.id].step /\ d.open /\ d.action \in Forced
      <2>1. d.step = detail.dialog.step /\ d.open /\ d.action \in Forced
          BY <1>1, <1>3, <1>5 DEF DetailTypes
      <2> QED BY <1>1, <1>2, <2>1
  <1>8. GoesOn
      BY <1>1, Stays
  <1> QED BY <1>1, <1>2, <1>5, <1>6, <1>7, <1>8, DialogOnly

\* The dialog gets an answer, or the failure of one, while the instance is as it is or goes on.
LEMMA ForceAnswered ==
    ASSUME InstInv, detail.dialog.busy, GoesOn, NEW says \in Sayings, ForceAnswers(says),
           says = "moved on" => Behind(detail.id, detail.dialog.step), UNCHANGED << views, crossed >>
    PROVE  InstInv'
  <1>1. InstTypes /\ DetailTypes /\ ViewsInv /\ SaysInv /\ detail.dialog.open
      BY DEF InstInv, DetailTypes
  <1>2. ~InList /\ detail.dialog \in Dialogs /\ detail \in Details /\ detail.dialog.step <= inst[detail.id].step
        /\ detail.dialog.step \in Nat
      BY <1>1, PageFacts DEF DetailTypes, SaysInv
  <1>3. PICK x \in Dialogs : x = detail.dialog
      BY <1>2
  <1>5. PICK d \in Dialogs : /\ d = [x EXCEPT !.busy = FALSE, !.says = says]
                             /\ d.open = x.open /\ d.step = x.step /\ d.action = x.action /\ ~d.busy /\ d.says = says
      BY DialogSaid
  <1>6. Detail([detail EXCEPT !.dialog = d])
      <2>1. [detail EXCEPT !.dialog.busy = FALSE, !.dialog.says = says] = [detail EXCEPT !.dialog = d]
          BY <1>2, <1>3, <1>5 DEF Details, Dialogs
      <2> QED BY <2>1 DEF ForceAnswers
  <1>7. /\ inst[detail.id].step \in Nat /\ inst'[detail.id].step \in Nat /\ inst[detail.id].step <= inst'[detail.id].step
        /\ inst[detail.id].status \in Over => inst'[detail.id].status \in Over
      BY <1>1, <1>2, PageFacts, PageGoesOn
  <1>8. d.step = detail.dialog.step /\ d.action \in Forced
      BY <1>1, <1>3, <1>5 DEF DetailTypes
  <1>9. d.step <= inst'[detail.id].step
      BY <1>2, <1>7, <1>8, Further, Zenon
  <1>10. d.says = "moved on" => inst'[detail.id].status \in Over \/ d.step < inst'[detail.id].step
      <2>1. says = "moved on" => inst[detail.id].status \in Over \/ detail.dialog.step < inst[detail.id].step
          BY DEF Behind
      <2>2. d.says = says
          BY <1>5
      <2> QED BY <1>2, <1>7, <1>8, <2>1, <2>2, Further, Zenon
  <1> QED BY <1>2, <1>5, <1>6, <1>8, <1>9, <1>10, DialogOnly

\* What is forced: the step is behind the instance, unless it was failed.
LEMMA ForceTakes ==
    ASSUME InstInv, detail.dialog.busy, Current, Forces
    PROVE  /\ GoesOn /\ ~InList
           /\ detail.dialog.action # "fail" =>
                 inst'[detail.id].status \in Over \/ detail.dialog.step < inst'[detail.id].step
  <1>1. InstTypes /\ DetailTypes /\ ViewsInv /\ SaysInv /\ ~InList
      BY DEF InstInv, DetailTypes
  <1>2. PICK i \in Listed : i = detail.id
      BY <1>1, PageFacts
  <1>3. /\ inst[i] \in Insts /\ inst[i].step \in Nat /\ inst[i].status # "absent" /\ inst[i].status \notin Over
        /\ inst[i].step = detail.dialog.step
      BY <1>1, <1>2, PageFacts DEF ViewsInv, Current
  <1>4. CASE ChangesTo(i, StepDone(i, detail.dialog.action))
      <2>1. PICK new \in Insts : /\ new = StepDone(i, detail.dialog.action) /\ new.status # "absent"
                                 /\ inst[i].step <= new.step /\ (new.status \in Over \/ inst[i].step < new.step)
          BY <1>1, <1>3, StepDoneIsOn
      <2>2. GoesOn /\ inst' = [inst EXCEPT ![i] = new]
          BY <1>1, <1>3, <1>4, <2>1, Changes
      <2>3. inst'[i] = new
          BY <1>1, <2>2 DEF InstTypes
      <2> QED BY <1>1, <1>2, <1>3, <2>1, <2>2, <2>3
  <1>5. CASE detail.dialog.action = "fail" /\ ChangesTo(i, FailedAtStep(inst[i]))
      <2>1. PICK new \in Insts : new = FailedAtStep(inst[i]) /\ new.status = "suspended" /\ new.step = inst[i].step
          BY <1>3, FailedHere
      <2>2. GoesOn
          BY <1>1, <1>3, <1>5, <2>1, Changes
      <2> QED BY <1>1, <1>5, <2>2
  <1> QED BY <1>2, <1>4, <1>5 DEF Forces, FailedAtStep

LEMMA ForceIsDone == ASSUME InstInv, ForceDone PROVE InstInv'
  <1>1. /\ detail.dialog.busy /\ Current /\ Forces /\ UNCHANGED << crossed, list, loads, acts, lastAct, stale >>
        /\ views' = views \cup {View(detail.asked + 1)}
        /\ detail' = [detail EXCEPT !.dialog = NoDialog, !.says = detail.dialog.action, !.why = detail.dialog.step, !.asked = @ + 1]
      BY DEF ForceDone, Detail
  <1>2. InstTypes /\ DetailTypes /\ ViewsInv /\ SaysInv
      BY DEF InstInv
  <1>3. /\ GoesOn /\ ~InList
        /\ detail.dialog.action # "fail" =>
              inst'[detail.id].status \in Over \/ detail.dialog.step < inst'[detail.id].step
      BY <1>1, ForceTakes
  <1>4. detail \in Details /\ detail.asked \in Nat /\ detail.dialog \in Dialogs
      BY <1>2, <1>3, PageFacts
  <1>5. detail.dialog.step \in 0..LastStep /\ detail.dialog.action \in Forced /\ detail.dialog.step \in Nat /\ detail.why \in Nat
      BY <1>1, <1>2, <1>3, <1>4, PageFacts DEF Dialogs, DetailTypes
  <1>6. PICK x \in Details : x = detail
      BY <1>4
  <1>7. PICK action \in Forced : action = detail.dialog.action
      BY <1>5
  <1>8. PICK step \in 0..LastStep : step = detail.dialog.step
      BY <1>5
  <1>9. detail.asked + 1 \in Nat
      BY <1>4
  <1>10. PICK n \in Nat : n = detail.asked + 1
      BY <1>9
  <1> DEFINE d1 == [x EXCEPT !.dialog = NoDialog]
             d2 == [d1 EXCEPT !.says = action]
             d3 == [d2 EXCEPT !.why = step]
             d4 == [d3 EXCEPT !.asked = n]
  <1>11. detail' = [x EXCEPT !.dialog = NoDialog, !.says = action, !.why = step, !.asked = n]
      BY <1>1, <1>6, <1>7, <1>8, <1>10
  <1>12. d4 = [x EXCEPT !.dialog = NoDialog, !.says = action, !.why = step, !.asked = n]
      OBVIOUS
  <1>13. d1 \in Details /\ d1.id = x.id /\ d1.view = x.view /\ d1.dialog = NoDialog
      BY Untouched DEF Details
  <1> HIDE DEF d1
  <1>14. d2 \in Details /\ d2.id = d1.id /\ d2.view = d1.view /\ d2.dialog = d1.dialog /\ d2.says = action
      BY <1>13 DEF Details
  <1> HIDE DEF d2
  <1>15. d3 \in Details /\ d3.id = d2.id /\ d3.view = d2.view /\ d3.dialog = d2.dialog /\ d3.says = d2.says /\ d3.why = step
      BY <1>14 DEF Details
  <1> HIDE DEF d3
  <1>16. /\ d4 \in Details /\ d4.id = d3.id /\ d4.view = d3.view /\ d4.dialog = d3.dialog /\ d4.says = d3.says
         /\ d4.why = d3.why /\ d4.asked = n
      BY <1>15 DEF Details
  <1> HIDE DEF d4
  <1>17. /\ detail' \in Details /\ detail'.id = detail.id /\ detail'.view = detail.view /\ detail'.dialog = NoDialog
         /\ detail'.says = detail.dialog.action /\ detail'.why = detail.dialog.step /\ detail'.asked = detail.asked + 1
      BY <1>6, <1>7, <1>8, <1>10, <1>11, <1>12, <1>13, <1>14, <1>15, <1>16
  <1>18. ViewsInv' /\ views' \subseteq Views
      BY <1>1, <1>2, <1>3, <1>17, ViewAsked
  <1>19. SaysInv'
      BY <1>3, <1>17, Untouched DEF SaysInv, Behind
  <1>20. crossed' \in BOOLEAN
      BY <1>1, <1>2 DEF DetailTypes
  <1>21. ~detail'.dialog.open /\ ~detail'.dialog.busy
      BY <1>17, Untouched
  <1> QED BY <1>1, <1>3, <1>17, <1>18, <1>19, <1>20, <1>21, PageAfter

LEMMA ForceClosed == ASSUME InstInv, ClosesForce PROVE InstInv'
  <1>1. InstTypes /\ DetailTypes /\ ViewsInv /\ SaysInv /\ detail.dialog.open
      BY DEF InstInv, ClosesForce
  <1>2. ~InList /\ detail \in Details
      BY <1>1 DEF DetailTypes
  <1>3. /\ detail.dialog \in Dialogs /\ detail.dialog.step \in 0..LastStep /\ detail.dialog.says \in Sayings
        /\ detail.view \in ViewRecs
      BY <1>2 DEF Details, Dialogs
  <1>4. CASE detail.dialog.says = "moved on"
      <2>1. LoadsView([detail EXCEPT !.dialog = NoDialog, !.says = "moved on", !.why = detail.dialog.step])
          BY <1>4 DEF ClosesForce
      <2>2. PICK x \in Details : x = detail
          BY <1>2
      <2>3. PICK step \in 0..LastStep : step = detail.dialog.step
          BY <1>3
      <2> DEFINE d1 == [x EXCEPT !.dialog = NoDialog]
                 d2 == [d1 EXCEPT !.says = "moved on"]
                 d3 == [d2 EXCEPT !.why = step]
      <2>4. d3 = [x EXCEPT !.dialog = NoDialog, !.says = "moved on", !.why = step]
          OBVIOUS
      <2>5. d1 \in Details /\ d1.id = x.id /\ d1.view = x.view /\ d1.asked = x.asked /\ d1.dialog = NoDialog
          BY Untouched DEF Details
      <2> HIDE DEF d1
      <2>6. d2 \in Details /\ d2.id = d1.id /\ d2.view = d1.view /\ d2.asked = d1.asked /\ d2.dialog = d1.dialog
          BY <2>5 DEF Details
      <2> HIDE DEF d2
      <2>7. /\ d3 \in Details /\ d3.id = d2.id /\ d3.view = d2.view /\ d3.asked = d2.asked /\ d3.dialog = d2.dialog
            /\ d3.why = step
          BY <2>6 DEF Details
      <2> HIDE DEF d3
      <2>8. PICK new \in Details : /\ new = d3 /\ new.id = detail.id /\ new.view = detail.view /\ new.asked = detail.asked
                                   /\ new.dialog = NoDialog /\ new.why = detail.dialog.step
          BY <2>2, <2>3, <2>5, <2>6, <2>7
      <2>9. LoadsView(new)
          BY <2>1, <2>2, <2>3, <2>4, <2>8
      <2>10. Behind(new.id, new.why)
          BY <1>1, <1>2, <1>4, <2>8 DEF SaysInv
      <2>11. ~new.dialog.open /\ ~new.dialog.busy /\ new.dialog.says = "nothing"
          BY <2>8, Untouched
      <2> QED BY <1>2, <2>8, <2>9, <2>10, <2>11, ViewLoads
  <1>5. CASE detail.dialog.says # "moved on"
      <2>1. PICK new \in Dialogs : new = NoDialog /\ ~new.open /\ ~new.busy /\ new.says = "nothing"
          BY Untouched
      <2>2. Detail([detail EXCEPT !.dialog = new]) /\ UNCHANGED << inst, turns, views, crossed >>
          BY <1>5, <2>1 DEF ClosesForce
      <2>3. GoesOn
          BY <1>1, <2>2, Stays
      <2> QED BY <1>2, <2>1, <2>2, <2>3, DialogOnly
  <1> QED BY <1>4, <1>5

LEMMA ForceEnds ==
    ASSUME InstInv, ForceLost \/ ForceMovedOn \/ ForceFails
    PROVE  InstInv'
  <1>1. InstTypes /\ DetailTypes /\ ViewsInv /\ SaysInv
      BY DEF InstInv
  <1>2. CASE ForceLost
      <2>1. GoesOn /\ detail.dialog.busy
          BY <1>2, ForceTakes DEF ForceLost
      <2>2. PICK says \in Sayings : says = "failed"
          BY DEF Sayings
      <2>3. ForceAnswers(says) /\ says # "moved on" /\ UNCHANGED << views, crossed >>
          BY <1>2, <2>2 DEF ForceLost
      <2> QED BY <2>1, <2>3, ForceAnswered
  <1>3. CASE ForceMovedOn
      <2>1. GoesOn /\ detail.dialog.busy
          BY <1>1, <1>3, Stays DEF ForceMovedOn
      <2>2. PICK says \in Sayings : says = "moved on"
          BY DEF Sayings
      <2>3. ForceAnswers(says) /\ UNCHANGED << views, crossed >>
          BY <1>3, <2>2 DEF ForceMovedOn
      <2>4. ~InList /\ detail.dialog.step <= inst[detail.id].step
          BY <1>1, <2>1 DEF DetailTypes, SaysInv
      <2>5. detail.dialog.step \in Nat /\ inst[detail.id].step \in Nat
          BY <1>1, <2>4, PageFacts
      <2>6. inst[detail.id].status \in Over \/ inst[detail.id].step # detail.dialog.step
          BY <1>3 DEF ForceMovedOn, Current
      <2>7. Behind(detail.id, detail.dialog.step)
          BY <2>4, <2>5, <2>6 DEF Behind
      <2> QED BY <2>1, <2>3, <2>7, ForceAnswered
  <1>4. CASE ForceFails
      <2>1. GoesOn /\ detail.dialog.busy
          BY <1>1, <1>4, Stays DEF ForceFails
      <2>2. PICK says \in Sayings : says = "failed"
          BY DEF Sayings
      <2>3. ForceAnswers(says) /\ says # "moved on" /\ UNCHANGED << views, crossed >>
          BY <1>4, <2>2 DEF ForceFails
      <2> QED BY <2>1, <2>3, ForceAnswered
  <1> QED BY <1>2, <1>3, <1>4

\* Each step on the pages about instances keeps them as they should be.
LEMMA InstKept == ASSUME InstInv, [InstancesNext]_instancesVars PROVE InstInv'
  <1>1. InstTypes /\ ListTypes /\ ListInv /\ DetailTypes /\ ViewsInv /\ SaysInv
      BY DEF InstInv
  \* What happens to the list leaves the page of an instance alone.
  <1>2. ASSUME ListTypes', ListInv', GoesOn, UNCHANGED << detail, views, crossed >> PROVE InstInv'
      <2>1. DetailTypes' /\ ViewsInv' /\ SaysInv'
          BY <1>1, <1>2, PageKept
      <2>2. InstTypes'
          BY <1>2 DEF GoesOn, InstTypes
      <2> QED BY <1>2, <2>1, <2>2 DEF InstInv
  <1>3. CASE \/ \E f \in ListFilters : ChoosesStatus(f)
             \/ \E page \in 0..Cardinality(Listed) : TurnsTo(page)
             \/ Refreshes
             \/ \E a \in acts : ActAnswered(a)
      <2>1. ListTypes' /\ ListInv'
          BY <1>1, <1>3, ListAsks
      <2>2. UNCHANGED << inst, turns, detail, views, crossed >>
          BY <1>3 DEF ChoosesStatus, TurnsTo, Refreshes, ActAnswered
      <2> QED BY <1>1, <1>2, <2>1, <2>2, Stays
  <1>4. ASSUME NEW l \in loads, FindInstances(l) \/ ListAnswered(l) \/ ListLost(l) PROVE InstInv'
      <2>1. ListTypes' /\ ListInv'
          BY <1>1, <1>4, ListFound, ListIsAnswered, ListIsLost
      <2>2. UNCHANGED << inst, turns, detail, views, crossed >>
          BY <1>4 DEF FindInstances, ListAnswered, ListLost
      <2> QED BY <1>1, <1>2, <2>1, <2>2, Stays
  <1>5. CASE \/ \E row \in list.result.rows : \E kind \in Offered(row.status) : Clicks(row, kind)
             \/ Confirms \/ Declines
      <2>1. ListTypes' /\ ListInv' /\ UNCHANGED << inst, turns, detail, views, crossed >>
          BY <1>1, <1>5, RowActions
      <2> QED BY <1>1, <1>2, <2>1, Stays
  <1>6. ASSUME NEW a \in acts, ActHandled(a) PROVE InstInv'
      BY <1>1, <1>2, <1>6, ActIsHandled
  <1>7. ASSUME NEW i \in Listed, Moves(i) PROVE InstInv'
      <2>1. GoesOn /\ UNCHANGED << list, loads, acts, lastAct, stale, detail, views, crossed >>
          BY <1>1, <1>7, InstanceMoves DEF Moves
      <2>2. ListTypes' /\ ListInv'
          BY <1>1, <2>1, ListKept
      <2> QED BY <1>2, <2>1, <2>2
  <1>8. CASE UNCHANGED instancesVars
      <2>1. UNCHANGED << inst, turns, list, loads, acts, lastAct, stale, detail, views, crossed >>
          BY <1>8 DEF instancesVars
      <2>2. GoesOn
          BY <1>1, <2>1, Stays
      <2>3. ListTypes' /\ ListInv'
          BY <1>1, <2>1, <2>2, ListKept
      <2> QED BY <1>2, <2>1, <2>2, <2>3
  <1>9. ASSUME NEW row \in list.result.rows, OpensInstance(row) PROVE InstInv'
      BY <1>9, Opening
  <1>10. ASSUME NEW v \in views, ViewRead(v) \/ ViewAnswered(v) \/ ViewLost(v) PROVE InstInv'
      BY <1>10, ViewSteps
  <1>11. ASSUME NEW action \in {"complete", "fail", "fire"}, ChoosesForce(action) PROVE InstInv'
      <2>1. action \in Forced
          BY DEF Forced
      <2> QED BY <1>11, <2>1, ForceChosen
  <1>12. CASE GoesBack \/ RefreshesView
      BY <1>12, Returning, ViewRefreshed
  <1>13. CASE SubmitsForce \/ ForceDone \/ ForceLost \/ ForceMovedOn \/ ForceFails \/ ClosesForce
      BY <1>13, ForceSent, ForceIsDone, ForceEnds, ForceClosed
  <1> QED BY <1>3, <1>4, <1>5, <1>6, <1>7, <1>8, <1>9, <1>10, <1>11, <1>12, <1>13 DEF InstancesNext

LEMMA InstInit == InstancesInit => InstInv
  <1> SUFFICES ASSUME InstancesInit PROVE InstInv
      OBVIOUS
  <1>1. /\ inst \in [Listed -> {[FreshInstance EXCEPT !.status = s] : s \in {"absent", "active", "terminated"}}]
        /\ turns = 0 /\ acts = {} /\ lastAct = 0 /\ stale = FALSE
        /\ detail = FreshDetail(0, 0) /\ views = {} /\ crossed = FALSE
      BY DEF InstancesInit
  <1>2. InstTypes
      <2>1. FreshInstance \in Insts
          BY InstancesAssumption DEF FreshInstance, Insts, Statuses
      <2>2. \A s \in Statuses : WithStatus(FreshInstance, s) \in Insts
          BY <2>1, StatusSet
      <2>3. \A s \in {"absent", "active", "terminated"} : [FreshInstance EXCEPT !.status = s] \in Insts
          <3>1. {"absent", "active", "terminated"} \subseteq Statuses
              BY DEF Statuses
          <3> QED BY <2>2, <3>1 DEF WithStatus
      <2>4. \A i \in Listed : inst[i] \in Insts
          BY <1>1, <2>3
      <2> QED BY <1>1, <2>4 DEF InstTypes
  <1>3. PICK d \in Details : d = detail /\ d.id = 0 /\ d.dialog = NoDialog
      BY <1>1, FreshPage
  <1>4. DetailTypes /\ ViewsInv /\ SaysInv
      BY <1>1, <1>3, Untouched DEF DetailTypes, ViewsInv, SaysInv, InList
  <1>5. InList
      BY <1>3 DEF InList
  <1>6. lastAct \in Nat /\ lastAct <= turns
      BY <1>1
  <1>7. CASE /\ list = [FreshList EXCEPT !.newest = 1]
             /\ loads = {[n |-> 1, filter |-> "", page |-> 0, answer |-> NoList]}
      <2>1. /\ list \in ListStates /\ list.newest = 1 /\ list.result = NoList /\ list.filter = "" /\ list.page = 0
          <3>1. FreshList.filter = "" /\ FreshList.page = 0
              BY DEF FreshList
          <3> QED BY <1>7, <3>1, FreshIsList DEF ListStates
      <2>2. PICK l \in PageAsks : loads = {l} /\ l.n = 1 /\ l.filter = "" /\ l.page = 0 /\ l.answer = NoList
          <3> DEFINE r == [n |-> 1, filter |-> "", page |-> 0, answer |-> NoList]
          <3>1. r \in PageAsks /\ r.n = 1 /\ r.filter = "" /\ r.page = 0 /\ r.answer = NoList
              BY Nothing DEF PageAsks, ListFilters
          <3>2. loads = {r}
              BY <1>7
          <3> QED BY <3>1, <3>2
      <2>3. ListTypes
          BY <1>1, <1>5, <1>6, <2>1, <2>2 DEF ListTypes
      <2>4. There(list.result.rows) /\ Honest(l) /\ There(l.answer.rows) /\ Fresh(l)
          <3>1. ~l.answer.known /\ l.answer.rows = {} /\ list.result.rows = {}
              BY <2>1, <2>2, Nothing
          <3>2. There(list.result.rows) /\ There(l.answer.rows)
              BY <3>1 DEF There
          <3>3. Honest(l)
              BY <3>1 DEF Honest
          <3>4. Fresh(l)
              BY <2>1, <2>2, <3>1 DEF Fresh
          <3> QED BY <3>2, <3>3, <3>4
      <2>5. Shows
          <3>1. ~\A m \in loads : m.n # list.newest
              BY <2>1, <2>2
          <3> QED BY <3>1 DEF Shows
      <2>6. ListInv
          <3>2. \A m \in loads : m = l /\ m.n = 1
              BY <2>2
          <3>3. 1 <= 1
              OBVIOUS
          <3>1. \A m \in loads : m = l /\ m.n <= list.newest
              BY <2>1, <3>2, <3>3, Zenon
          <3> QED BY <2>4, <2>5, <3>1 DEF ListInv
      <2> QED BY <1>2, <1>4, <2>3, <2>6 DEF InstInv
  <1>8. ASSUME NEW f \in ListFilters, NEW page \in 1..Cardinality(Listed), loads = {},
               OnPage(Found(f), page) # {},
               list = [FreshList EXCEPT !.newest = 1, !.filter = f, !.page = page, !.result = Answer(f, page)]
        PROVE  InstInv
      <2>0. page \in Nat
          BY InstancesAssumption, FS_CardinalityType
      <2>1. PICK r \in Results : /\ r = Answer(f, page) /\ r.filter = f /\ r.page = page /\ r.seen = turns /\ There(r.rows)
                                 /\ r.rows # {}
          BY <1>2, <1>8, <2>0, AnsweredRows
      <2>2. list = [FreshList EXCEPT !.newest = 1, !.filter = f, !.page = page, !.result = r]
          BY <1>8, <2>1
      <2> DEFINE l1 == [FreshList EXCEPT !.newest = 1]
                 l2 == [l1 EXCEPT !.filter = f]
                 l3 == [l2 EXCEPT !.page = page]
                 l4 == [l3 EXCEPT !.result = r]
      <2>3. list = l4
          BY <2>2
      <2>4. l1 \in ListStates
          BY FreshIsList DEF ListStates
      <2> HIDE DEF l1
      <2>5. l2 \in ListStates /\ l2.filter = f
          BY <2>4 DEF ListStates
      <2> HIDE DEF l2
      <2>6. l3 \in ListStates /\ l3.filter = l2.filter /\ l3.page = page
          BY <2>0, <2>5 DEF ListStates
      <2> HIDE DEF l3
      <2>7. l4 \in ListStates /\ l4.filter = l3.filter /\ l4.page = l3.page /\ l4.result = r
          BY <2>6 DEF ListStates
      <2> HIDE DEF l4
      <2>8. list \in ListStates /\ list.filter = f /\ list.page = page /\ list.result = r
          BY <2>3, <2>5, <2>6, <2>7
      <2>9. ListTypes
          BY <1>1, <1>5, <1>6, <1>8, <2>8 DEF ListTypes
      <2>10. Shows
          BY <1>1, <1>2, <2>1, <2>8 DEF Shows, InstTypes
      <2>11. ListInv
          BY <1>8, <2>1, <2>8, <2>10 DEF ListInv
      <2> QED BY <1>2, <1>4, <2>9, <2>11 DEF InstInv
  <1> QED BY <1>7, <1>8 DEF InstancesInit

\* What the pages about instances promise.
LEMMA InstTells == InstInv => InstancesTypeOK /\ ListKeepsUp /\ ForcingTellsTheTruth /\ ViewIsTheNewest
  <1> SUFFICES ASSUME InstInv PROVE InstancesTypeOK /\ ListKeepsUp /\ ForcingTellsTheTruth /\ ViewIsTheNewest
      OBVIOUS
  <1>1. InstTypes /\ ListTypes /\ ListInv /\ DetailTypes /\ ViewsInv /\ SaysInv
      BY DEF InstInv
  <1>2. InstancesTypeOK
      <2>1. \A i \in Listed : inst[i].status \in {"absent", "active", "suspended"} \cup Over /\ inst[i].step \in 0..LastStep
          BY <1>1 DEF InstTypes, Insts, Statuses, Over
      <2>2. list.filter \in ListFilters /\ list.page \in Nat /\ list.busy \in Listed \cup {0}
          BY <1>1 DEF ListTypes, ListStates
      <2>3. detail.id \in Listed \cup {0} /\ detail.view \in ViewRecs
          BY <1>1 DEF DetailTypes, Details
      <2>4. detail.view.step \in 0..LastStep
          BY <2>3 DEF ViewRecs
      <2>5. \A l, m \in loads : l.n = m.n => l = m
          BY <1>1 DEF ListInv
      <2> QED BY <2>1, <2>2, <2>3, <2>4, <2>5 DEF InstancesTypeOK
  <1>3. ListKeepsUp
      <2>1. acts = {} => Settled
          BY DEF Settled
      <2> QED BY <1>1, <2>1 DEF ListInv, Shows, ListKeepsUp
  <1>4. ForcingTellsTheTruth
      <2> SUFFICES ASSUME ~InList
                   PROVE  /\ detail.says \in {"complete", "fire", "moved on"} =>
                                ~(inst[detail.id].step = detail.why /\ inst[detail.id].status \notin Over)
                          /\ detail.dialog.says = "moved on" =>
                                ~(inst[detail.id].step = detail.dialog.step /\ inst[detail.id].status \notin Over)
          BY DEF ForcingTellsTheTruth
      <2>1. inst[detail.id].step \in Nat /\ detail.why \in Nat /\ detail.dialog.step \in Nat
          BY <1>1, PageFacts
      <2>2. \A s \in Nat : Behind(detail.id, s) => ~(inst[detail.id].step = s /\ inst[detail.id].status \notin Over)
          BY <2>1 DEF Behind
      <2> QED BY <1>1, <2>1, <2>2 DEF SaysInv
  <1>5. ViewIsTheNewest
      BY <1>1 DEF ViewsInv, ViewIsTheNewest
  <1> QED BY <1>2, <1>3, <1>4, <1>5

\* The list is that of what is set, and not older than the actions of this page; a step said to be done, or to have
\* moved on, is behind the instance; and the page of an instance shows the newest answer.  For any instances,
\* requests, answers in any order and changes by others.
THEOREM InstancesAreShown ==
    InstancesSpec => [](InstancesTypeOK /\ ListKeepsUp /\ ForcingTellsTheTruth /\ ViewIsTheNewest)
  <1>1. InstancesInit => InstInv
      BY InstInit
  <1>2. InstInv /\ [InstancesNext]_instancesVars => InstInv'
      BY InstKept
  <1>3. InstInv => InstancesTypeOK /\ ListKeepsUp /\ ForcingTellsTheTruth /\ ViewIsTheNewest
      BY InstTells
  <1> QED BY <1>1, <1>2, <1>3, PTL DEF InstancesSpec

-----------------------------------------------------------------------------
(* The console                                                              *)

\* Everything ConsoleShowsTheTruth says, with any number of people, instances, requests and changes, of which only
\* one of the session, the list and one instance is looked at, or all of a worker.
THEOREM ConsoleTellsTheTruth == WorkSpec => []ConsoleShowsTheTruth
  <1>1. WorkInit => SessionInv /\ InstInv
      BY SessionInit, InstInit DEF WorkInit
  <1>2. ASSUME SessionInv, InstInv, [WorkNext]_<< part, vars, consoleVars, instancesVars >>
        PROVE  SessionInv' /\ InstInv'
      <2>1. [ConsoleNext]_consoleVars /\ [InstancesNext]_instancesVars
          BY <1>2 DEF WorkNext
      <2> QED BY <1>2, <2>1, SessionKept, InstKept
  <1>3. SessionInv /\ InstInv => ConsoleShowsTheTruth
      BY SessionTells, InstTells DEF ConsoleShowsTheTruth
  <1>4. SessionInv /\ InstInv /\ [WorkNext]_<< part, vars, consoleVars, instancesVars >> => (SessionInv /\ InstInv)'
      BY <1>2
  <1> QED BY <1>1, <1>3, <1>4, PTL DEF WorkSpec
=============================================================================
