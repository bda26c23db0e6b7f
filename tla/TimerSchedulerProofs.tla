------------------------ MODULE TimerSchedulerProofs ------------------------
(***************************************************************************)
(* A timer is lost only where TimerScheduler says so, for any number of    *)
(* timers, of sets of workers and of overlapping polls.                    *)
(***************************************************************************)
EXTENDS TimerScheduler, TLAPS

\* A cancellation is announced after the token has left.
CancelledLeft == \A t \in cancelling : token[t] = "left"

Inv == TypeOK /\ CancelledLeft /\ Kept

\* A poll is what it was made of.
LEMMA PollOf ==
    ASSUME NEW todo \in SUBSET Tokens, NEW t \in Tokens \cup {None}
    PROVE  Poll(todo, t) \in PollTypes /\ Poll(todo, t).fires = t
  <1>1. CASE todo = {} /\ t = None
    BY <1>1 DEF Poll, PollTypes, Idle
  <1>2. CASE ~(todo = {} /\ t = None)
    BY <1>2 DEF Poll, PollTypes
  <1> QED BY <1>1, <1>2

\* What a poll consists of.
LEMMA PollParts ==
    ASSUME TypeOK, NEW w \in Sets, NEW i \in Slots
    PROVE  /\ polls[w][i].todo \in SUBSET Tokens /\ polls[w][i].fires \in Tokens \cup {None}
           /\ ~polls[w][i].busy => polls[w][i].fires = None
  <1>1. polls[w][i] \in PollTypes
    BY DEF TypeOK
  <1>2. CASE polls[w][i] = Idle
    BY <1>2 DEF Idle
  <1>3. CASE polls[w][i] # Idle
    <2>1. polls[w][i] \in [busy : {TRUE}, todo : SUBSET Tokens, fires : Tokens \cup {None}]
      BY <1>1, <1>3 DEF PollTypes
    <2> QED BY <2>1
  <1> QED BY <1>2, <1>3

\* Every step keeps the variables in their types.
LEMMA TypeStep == TypeOK /\ [Next]_vars => TypeOK'
  <1> SUFFICES ASSUME TypeOK, [Next]_vars PROVE TypeOK'
    OBVIOUS
  <1> USE TimerAssumption
  <1> USE DEF TypeOK
  <1>1. ASSUME NEW t \in Tokens, Enter(t) \/ Save(t) \/ SaveFails(t) PROVE TypeOK'
    BY <1>1 DEF Enter, Save, SaveFails, Subscribed
  <1>2. ASSUME NEW t \in Tokens, Leave(t) \/ Cancel(t) \/ Ripen(t) PROVE TypeOK'
    BY <1>2 DEF Leave, Cancel, Ripen
  <1>3. ASSUME NEW w \in Sets, Start(w) PROVE TypeOK'
    BY <1>3 DEF Start, Moves
  <1>4. ASSUME NEW w \in Sets, Remove(w) \/ Stop(w) PROVE TypeOK'
    BY <1>4 DEF Remove, Stop, Moves
  <1>5. ASSUME NEW w \in Sets, NEW i \in Slots, BeginPoll(w, i) PROVE TypeOK'
    <2> DEFINE due == {t \in Tokens : row[t] = "due"}
    <2>1. Poll(due, None) \in PollTypes
      BY PollOf
    <2> QED BY <1>5, <2>1 DEF BeginPoll
  <1>6. ASSUME NEW w \in Sets, NEW i \in Slots, Delete(w, i) PROVE TypeOK'
    <2>1. PICK t \in polls[w][i].todo :
            /\ row' = [row EXCEPT ![t] = "none"]
            /\ polls' = [polls EXCEPT ![w][i] = Poll(@.todo \ {t}, t)]
      BY <1>6 DEF Delete
    <2>2. polls[w][i].todo \in SUBSET Tokens
      BY PollParts
    <2>3. Poll(polls[w][i].todo \ {t}, t) \in PollTypes
      BY <2>2, PollOf
    <2>4. polls' \in [Sets -> [Slots -> PollTypes]]
      BY <2>1, <2>3
    <2> QED BY <1>6, <2>1, <2>2, <2>4 DEF Delete
  <1>7. ASSUME NEW w \in Sets, NEW i \in Slots, Fire(w, i) \/ FireIgnored(w, i) PROVE TypeOK'
    <2>1. polls[w][i].todo \in SUBSET Tokens /\ polls[w][i].fires \in Tokens \cup {None}
      BY PollParts
    <2>2. Poll(polls[w][i].todo, None) \in PollTypes
      BY <2>1, PollOf
    <2>3. polls' = [polls EXCEPT ![w][i] = Poll(polls[w][i].todo, None)]
      BY <1>7 DEF Fire, FireIgnored
    <2>4. polls' \in [Sets -> [Slots -> PollTypes]]
      BY <2>2, <2>3
    <2> QED BY <1>7, <2>1, <2>4 DEF Fire, FireIgnored, Drops
  <1>8. ASSUME NEW w \in Sets, NEW i \in Slots, PollFails(w, i) PROVE TypeOK'
    <2>1. polls[w][i].fires \in Tokens \cup {None}
      BY PollParts
    <2>2. polls' \in [Sets -> [Slots -> PollTypes]]
      BY <1>8 DEF PollFails, PollTypes
    <2>3. faults' \in 0..MaxFaults
      BY <1>8 DEF PollFails
    <2> QED BY <1>8, <2>1, <2>2, <2>3 DEF PollFails, Drops
  <1>9. CASE Crash
    <2>1. polls' \in [Sets -> [Slots -> PollTypes]]
      BY <1>9 DEF Crash, PollTypes
    <2> QED BY <1>9, <2>1 DEF Crash
  <1>10. CASE UNCHANGED vars
    BY <1>10 DEF vars
  <1> QED BY <1>1, <1>2, <1>3, <1>4, <1>5, <1>6, <1>7, <1>8, <1>9, <1>10 DEF Next, PollStep

\* Nothing makes a token wait that has left, and only those that leave are announced.
LEMMA CancelledStep == TypeOK /\ CancelledLeft /\ [Next]_vars => CancelledLeft'
  <1> SUFFICES ASSUME TypeOK, CancelledLeft, [Next]_vars PROVE CancelledLeft'
    OBVIOUS
  <1> USE DEF TypeOK, CancelledLeft
  <1>1. ASSUME NEW t \in Tokens, Enter(t) \/ Save(t) \/ SaveFails(t) PROVE CancelledLeft'
    BY <1>1 DEF Enter, Save, SaveFails
  <1>2. ASSUME NEW t \in Tokens, Leave(t) \/ Cancel(t) \/ Ripen(t) PROVE CancelledLeft'
    BY <1>2 DEF Leave, Cancel, Ripen
  <1>3. ASSUME NEW w \in Sets, Start(w) \/ Remove(w) \/ Stop(w) PROVE CancelledLeft'
    BY <1>3 DEF Start, Remove, Stop, Moves
  <1>4. ASSUME NEW w \in Sets, NEW i \in Slots, BeginPoll(w, i) \/ PollStep(w, i)
        PROVE  CancelledLeft'
    BY <1>4 DEF BeginPoll, PollStep, Delete, Fire, FireIgnored, PollFails
  <1>5. CASE Crash
    BY <1>5 DEF Crash
  <1>6. CASE UNCHANGED vars
    BY <1>6 DEF vars
  <1> QED BY <1>1, <1>2, <1>3, <1>4, <1>5, <1>6 DEF Next

\* A token that waits still has its timer, or has lost it.
Watched(t) ==
    \/ row[t] # "none" \/ calls[t] # {}
    \/ \E w \in Sets, i \in Slots : polls[w][i].fires = t

\* A step that changes only what is under way for others keeps t watched.
LEMMA KeptStep == Inv /\ [Next]_vars => Kept'
  <1> SUFFICES ASSUME Inv, [Next]_vars, NEW t \in Tokens, token'[t] = "waiting", t \notin lost'
               PROVE  Watched(t)'
    BY DEF Kept, Watched
  <1> USE TimerAssumption
  <1>1. token[t] = "waiting" /\ t \notin lost => Watched(t)
    BY DEF Inv, Kept, Watched
  <1>2. ASSUME NEW u \in Tokens, Enter(u) \/ Save(u) \/ SaveFails(u) PROVE Watched(t)'
    BY <1>1, <1>2 DEF Inv, TypeOK, Watched, Enter, Save, SaveFails
  <1>3. ASSUME NEW u \in Tokens, Leave(u) \/ Cancel(u) \/ Ripen(u) PROVE Watched(t)'
    BY <1>1, <1>3 DEF Inv, TypeOK, CancelledLeft, Watched, Leave, Cancel, Ripen
  <1>4. ASSUME NEW w \in Sets, Start(w) \/ Remove(w) \/ Stop(w) PROVE Watched(t)'
    BY <1>1, <1>4 DEF Inv, TypeOK, Watched, Start, Remove, Stop, Moves
  <1>5. ASSUME NEW w \in Sets, NEW i \in Slots, BeginPoll(w, i) PROVE Watched(t)'
    <2>1. polls[w][i].fires = None
      BY <1>5, PollParts DEF Inv, BeginPoll
    <2> QED BY <1>1, <1>5, <2>1 DEF Inv, TypeOK, Watched, BeginPoll
  <1>6. ASSUME NEW w \in Sets, NEW i \in Slots, Delete(w, i) PROVE Watched(t)'
    <2>1. PICK u \in polls[w][i].todo :
            /\ row' = [row EXCEPT ![u] = "none"]
            /\ polls' = [polls EXCEPT ![w][i] = Poll(@.todo \ {u}, u)]
      BY <1>6 DEF Delete
    <2>2. polls[w][i].todo \in SUBSET Tokens /\ polls[w][i].fires = None
      BY <1>6, PollParts DEF Inv, Delete
    <2>3. polls'[w][i].fires = u
      <3>1. polls'[w][i] = Poll(polls[w][i].todo \ {u}, u)
        BY <2>1 DEF Inv, TypeOK
      <3> QED BY <3>1, <2>2, PollOf
    <2>4. \A v \in Sets, j \in Slots : << v, j >> # << w, i >> => polls'[v][j] = polls[v][j]
      BY <2>1 DEF Inv, TypeOK
    <2>5. CASE t = u
      BY <2>3, <2>5 DEF Watched
    <2>6. CASE t # u
      <3>1. row'[t] = row[t] /\ calls' = calls /\ Watched(t)
        BY <1>1, <1>6, <2>1, <2>2, <2>6 DEF Inv, TypeOK, Delete
      <3>2. ASSUME NEW v \in Sets, NEW j \in Slots, polls[v][j].fires = t
            PROVE  polls'[v][j].fires = t
        <4>1. << v, j >> # << w, i >>
          BY <3>2, <2>2
        <4> QED BY <4>1, <2>4, <3>2
      <3> QED BY <3>1, <3>2 DEF Watched
    <2> QED BY <2>5, <2>6
  <1>7. ASSUME NEW w \in Sets, NEW i \in Slots, Fire(w, i) \/ FireIgnored(w, i) \/ PollFails(w, i)
        PROVE  Watched(t)'
    <2>1. \A v \in Sets, j \in Slots : << v, j >> # << w, i >> => polls'[v][j] = polls[v][j]
      BY <1>7 DEF Inv, TypeOK, Fire, FireIgnored, PollFails
    <2>2. row' = row /\ calls' = calls
      BY <1>7 DEF Fire, FireIgnored, PollFails
    <2>3. CASE polls[w][i].fires = t
      <3>1. FireIgnored(w, i) \/ PollFails(w, i)
        BY <1>7, <2>3 DEF Fire, Inv, TypeOK
      <3> QED BY <3>1, <2>2, <2>3 DEF FireIgnored, PollFails, Drops, Watched, Inv, TypeOK
    <2>4. CASE polls[w][i].fires # t
      <3>1. Watched(t)
        BY <1>1, <1>7 DEF Fire, FireIgnored, PollFails, Drops, Inv, TypeOK
      <3>2. ASSUME NEW v \in Sets, NEW j \in Slots, polls[v][j].fires = t
            PROVE  polls'[v][j].fires = t
        <4>1. << v, j >> # << w, i >>
          BY <3>2, <2>4
        <4> QED BY <4>1, <2>1, <3>2
      <3> QED BY <3>1, <3>2, <2>2 DEF Watched
    <2> QED BY <2>3, <2>4
  <1>8. CASE Crash
    BY <1>8 DEF Crash, Inv, TypeOK, Watched
  <1>9. CASE UNCHANGED vars
    BY <1>1, <1>9 DEF vars, Watched
  <1> QED BY <1>2, <1>3, <1>4, <1>5, <1>6, <1>7, <1>8, <1>9 DEF Next, PollStep

LEMMA Invariance == Spec => []Inv
  <1>1. Init => Inv
    BY TimerAssumption DEF Init, Inv, TypeOK, CancelledLeft, Kept, PollTypes
  <1>2. Inv /\ [Next]_vars => Inv'
    BY TypeStep, CancelledStep, KeptStep DEF Inv
  <1> QED BY <1>1, <1>2, PTL DEF Spec

\* Every variable of the timers keeps its type: a poll that is over holds no timer.
THEOREM TypeCorrectness == Spec => []TypeOK
  <1>1. Inv => TypeOK
    BY DEF Inv
  <1> QED BY <1>1, Invariance, PTL

\* A token that waits for a timer has one that will fire, unless a handler, a fire or the process
\* failed at that very timer: no cancellation of another token, no overlapping poll and no set
\* that stops takes it (TimerCoordinator, PostgresScheduler.poll).
THEOREM NoTimerForgotten == Spec => []Kept
  <1>1. Inv => Kept
    BY DEF Inv
  <1> QED BY <1>1, Invariance, PTL
=============================================================================
