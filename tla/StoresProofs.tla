---------------------------- MODULE StoresProofs ----------------------------
(***************************************************************************)
(* What is stored, for any number of requests, engines, instances, tokens, *)
(* deployments, documents and edits: the commit protocol implements        *)
(* SerialInstance, the tables answer like the memory store, records and    *)
(* subscriptions follow the tokens, definitions in use stay, what the      *)
(* parser passes can be walked, and all that side by side.                 *)
(*                                                                         *)
(* The commits: the instance row is read first, so if the version is still *)
(* the same when the transaction runs, nobody wrote in between and every   *)
(* part that was read is what it is now (Current).  The transaction then   *)
(* applies the command to the instance as it is.                           *)
(*                                                                         *)
(* The tables: operation by operation the two stores do the same where an  *)
(* INSERT meets no row, an UPDATE meets one, an entry is appended that was *)
(* not there, and the instance is at the version it was read with          *)
(* (OperationAlike).  No transaction of a client touches a row twice where *)
(* that matters, so what its operations need they need of the state it     *)
(* starts in (RunAlike).  They find it there because the tables fit        *)
(* together and because what a client has loaded is what is there, unless  *)
(* somebody has committed since (PostgresInv); then updateInstance, the    *)
(* first of its operations, fails, and there is nothing that only one of   *)
(* the two could undo (RolledBack).                                        *)
(***************************************************************************)
EXTENDS MCCommitProtocol, TLAPS, FiniteSetTheorems, SequenceTheorems, WellFoundedInduction

-----------------------------------------------------------------------------
(* The commits                                                             *)

\* What holds of each request.  As long as the version read first is the current one, so is every
\* part read since; each attempt that failed was overtaken by another commit.
Sound(a) ==
    /\ pc[a] = "new" => attempt[a] = 1 /\ reads[a] = 0
    /\ pc[a] = "loading" /\ reads[a] = 0 => attempt[a] - 1 <= version
    /\ pc[a] = "loading" /\ reads[a] > 0 =>
        /\ attempt[a] - 1 <= base[a] /\ base[a] <= version
        /\ base[a] = version =>
            \A i \in 1..reads[a] : seen[a][ReadOrder[i]] = content[ReadOrder[i]]
    /\ pc[a] = "gaveUp" => MaxCommitAttempts <= version
    /\ pc[a] = "conflict" => 1 <= version
    /\ a \in done => pc[a] \in {"publishing", "ok", "lost"}

\* Every commit is one request taking effect.
Inv ==
    /\ TypeOK
    /\ version = Cardinality(done)
    /\ \A a \in Requests : Sound(a)

----------------------------------------------------------------------------
(* Facts about the instance                                                 *)

\* The first query reads a part, and every part is read by some query.
LEMMA PartsRead ==
    /\ Len(ReadOrder) \in Nat \ {0}
    /\ \A i \in 1..Len(ReadOrder) : ReadOrder[i] \in Parts
    /\ \A p \in Parts : \E i \in 1..Len(ReadOrder) : ReadOrder[i] = p
BY CommitAssumption DEF Parts

\* Replacing a part by another value it may hold gives an instance again.
LEMMA ReadContent ==
    ASSUME NEW c \in Content, NEW d \in Content, NEW p \in Parts
    PROVE  [c EXCEPT ![p] = d[p]] \in Content
BY DEF Content

\* What a cycle writes gives an instance again.
LEMMA WrittenContent ==
    ASSUME content \in Content, NEW r \in Content, NEW a \in Requests
    PROVE  Written(a, r) \in Content
BY DEF Content, Written

\* A request that read every part, and is not overtaken, knows the instance as it is.
LEMMA LoadedIsCurrent ==
    ASSUME TypeOK, NEW a \in Requests, Sound(a), Loaded(a), version = base[a]
    PROVE  seen[a] = content
<1>1. \A p \in Parts : seen[a][p] = content[p]
  <2> SUFFICES ASSUME NEW p \in Parts PROVE seen[a][p] = content[p]
    OBVIOUS
  <2>1. PICK i \in 1..Len(ReadOrder) : ReadOrder[i] = p
    BY PartsRead
  <2>2. reads[a] > 0 /\ reads[a] = Len(ReadOrder) /\ pc[a] = "loading"
    BY PartsRead DEF Loaded
  <2> QED
    BY <2>1, <2>2 DEF Sound
<1>2. seen[a] \in Content /\ content \in Content
  BY DEF TypeOK
<1> QED
  BY <1>1, <1>2 DEF Content

----------------------------------------------------------------------------
(* The invariant                                                            *)

LEMMA InitInv == Init => Inv
<1> SUFFICES ASSUME Init PROVE Inv
  OBVIOUS
<1>1. TypeOK
  BY CommitAssumption, PartsRead DEF Init, TypeOK, InFlight, Ended
<1>2. \A a \in Requests : Sound(a)
  BY DEF Init, Sound
<1>3. version = Cardinality(done)
  BY FS_EmptySet DEF Init
<1> QED
  BY <1>1, <1>2, <1>3 DEF Inv

\* Forget clears what the requests in A know, and leaves the others alone.
LEMMA Forgotten ==
    ASSUME TypeOK, NEW A, Forget(A)
    PROVE  /\ base' \in [Requests -> Nat]
           /\ seen' \in [Requests -> Content]
           /\ reads' \in [Requests -> 0..Len(ReadOrder)]
           /\ \A a \in Requests \cap A : reads'[a] = 0
           /\ \A b \in Requests \ A :
                base'[b] = base[b] /\ seen'[b] = seen[b] /\ reads'[b] = reads[b]
BY CommitAssumption, PartsRead DEF TypeOK, Forget

\* A request that takes no part in a step stays sound, also if it is overtaken by it.
LEMMA BystanderSound ==
    ASSUME TypeOK, NEW b \in Requests, Sound(b),
           pc'[b] = pc[b], attempt'[b] = attempt[b],
           base'[b] = base[b], seen'[b] = seen[b], reads'[b] = reads[b],
           b \in done' => b \in done,
           (version' = version /\ content' = content) \/ version' = version + 1
    PROVE  Sound(b)'
<1>1. /\ version \in Nat
      /\ base[b] \in Nat /\ attempt[b] \in Nat
  BY CommitAssumption DEF TypeOK
<1>2. CASE version' = version /\ content' = content
  BY <1>1, <1>2 DEF Sound
<1>3. CASE version' = version + 1
  BY <1>1, <1>3, CommitAssumption DEF Sound
<1> QED
  BY <1>2, <1>3

LEMMA ReceiveInv ==
    ASSUME Inv, NEW a \in Requests, Receive(a)
    PROVE  Inv'
<1>1. TypeOK'
  BY DEF Inv, TypeOK, Receive, InFlight
<1>2. Sound(a)'
  <2>1. attempt[a] = 1 /\ reads[a] = 0 /\ version \in Nat /\ a \notin done
    BY DEF Inv, TypeOK, Sound, Receive
  <2>2. pc'[a] = "loading"
    BY DEF Inv, TypeOK, Receive
  <2> QED
    BY <2>1, <2>2 DEF Sound, Receive
<1>3. ASSUME NEW b \in Requests, b # a
      PROVE  Sound(b)'
  <2>1. pc'[b] = pc[b]
    BY <1>3 DEF Inv, TypeOK, Receive
  <2> QED
    BY <2>1, BystanderSound DEF Inv, Receive
<1> QED
  BY <1>1, <1>2, <1>3 DEF Inv, Receive

LEMMA ReadInv ==
    ASSUME Inv, NEW a \in Requests, Read(a)
    PROVE  Inv'
<1> DEFINE n == reads[a] + 1
           p == ReadOrder[n]
<1>1. /\ n \in 1..Len(ReadOrder) /\ p \in Parts
      /\ reads[a] \in Nat /\ version \in Nat
  BY PartsRead DEF Inv, TypeOK, Read
<1>2. /\ seen' = [seen EXCEPT ![a][p] = content[p]]
      /\ reads' = [reads EXCEPT ![a] = n]
      /\ base' = [base EXCEPT ![a] = IF reads[a] = 0 THEN version ELSE base[a]]
      /\ UNCHANGED << content, version, pc, attempt, done >>
      /\ pc[a] = "loading"
  BY DEF Read
<1>3. TypeOK'
  <2>1. [seen[a] EXCEPT ![p] = content[p]] \in Content
    BY <1>1, ReadContent DEF Inv, TypeOK
  <2>2. seen' \in [Requests -> Content]
    BY <1>2, <2>1 DEF Inv, TypeOK
  <2>3. reads' \in [Requests -> 0..Len(ReadOrder)] /\ base' \in [Requests -> Nat]
    BY <1>1, <1>2, PartsRead DEF Inv, TypeOK
  <2> QED
    BY <1>2, <2>2, <2>3 DEF Inv, TypeOK
<1>4. Sound(a)'
  <2>1. /\ reads'[a] = n /\ seen'[a] = [seen[a] EXCEPT ![p] = content[p]]
        /\ base'[a] = IF reads[a] = 0 THEN version ELSE base[a]
        /\ Sound(a)
        /\ attempt[a] \in Nat /\ base[a] \in Nat
    BY <1>2, CommitAssumption DEF Inv, TypeOK
  <2>2. attempt[a] - 1 <= base'[a] /\ base'[a] <= version
    BY <1>1, <1>2, <2>1 DEF Sound
  <2>3. ASSUME base'[a] = version, NEW i \in 1..n
        PROVE  seen'[a][ReadOrder[i]] = content[ReadOrder[i]]
    <3>1. ReadOrder[i] \in Parts
      BY <1>1, PartsRead
    <3>2. seen[a] \in [Parts -> UNION {Values[q] : q \in Parts}]
      BY DEF Inv, TypeOK, Content
    <3>3. CASE ReadOrder[i] = p
      BY <2>1, <3>1, <3>2, <3>3
    <3>4. CASE ReadOrder[i] # p
      <4>1. i \in 1..reads[a] /\ reads[a] > 0
        BY <1>1, <3>4
      <4>2. base[a] = version
        BY <2>1, <2>3, <4>1
      <4>3. seen[a][ReadOrder[i]] = content[ReadOrder[i]]
        BY <1>2, <2>1, <4>1, <4>2 DEF Sound
      <4> QED
        BY <2>1, <3>1, <3>2, <3>4, <4>3
    <3> QED
      BY <3>3, <3>4
  <2>4. n > 0
    BY <1>1
  <2> QED
    BY <1>2, <2>1, <2>2, <2>3, <2>4 DEF Sound
<1>5. ASSUME NEW b \in Requests, b # a
      PROVE  Sound(b)'
  <2>1. base'[b] = base[b] /\ seen'[b] = seen[b] /\ reads'[b] = reads[b]
    BY <1>2, <1>5 DEF Inv, TypeOK
  <2> QED
    BY <1>2, <2>1, BystanderSound DEF Inv
<1> QED
  BY <1>2, <1>3, <1>4, <1>5 DEF Inv

LEMMA RefuseInv ==
    ASSUME Inv, NEW a \in Requests, Refuse(a)
    PROVE  Inv'
<1>1. /\ Forget({a}) /\ pc[a] = "loading"
      /\ pc' = [pc EXCEPT ![a] = "refused"]
      /\ UNCHANGED << content, version, attempt, done >>
  BY DEF Refuse, Loaded
<1>2. TypeOK'
  BY <1>1, Forgotten DEF Inv, TypeOK, Ended
<1>3. Sound(a)'
  BY <1>1 DEF Inv, TypeOK, Sound
<1>4. ASSUME NEW b \in Requests, b # a
      PROVE  Sound(b)'
  <2>1. base'[b] = base[b] /\ seen'[b] = seen[b] /\ reads'[b] = reads[b] /\ pc'[b] = pc[b]
    BY <1>1, <1>4, Forgotten DEF Inv, TypeOK
  <2> QED
    BY <1>1, <2>1, BystanderSound DEF Inv
<1> QED
  BY <1>1, <1>2, <1>3, <1>4 DEF Inv

LEMMA CommitInv ==
    ASSUME Inv, NEW a \in Requests, Commit(a)
    PROVE  Inv'
<1>1. /\ Forget({a}) /\ pc[a] = "loading"
      /\ pc' = [pc EXCEPT ![a] = "publishing"]
      /\ version' = version + 1 /\ done' = done \cup {a}
      /\ UNCHANGED attempt
  BY DEF Commit, Loaded
<1>2. PICK r \in Execute(a, seen[a]) : content' = Written(a, r)
  BY DEF Commit
<1>3. content' \in Content
  BY <1>2, WrittenContent, CommitAssumption DEF Inv, TypeOK
<1>4. TypeOK'
  <2>1. pc' \in [Requests -> {"new"} \cup InFlight \cup Ended]
    BY <1>1 DEF Inv, TypeOK, InFlight
  <2>2. /\ base' \in [Requests -> Nat] /\ seen' \in [Requests -> Content]
        /\ reads' \in [Requests -> 0..Len(ReadOrder)]
    BY <1>1, Forgotten DEF Inv
  <2> QED
    BY <1>1, <1>3, <2>1, <2>2 DEF Inv, TypeOK
<1>5. a \notin done
  BY <1>1 DEF Inv, Sound
<1>6. version' = Cardinality(done')
  <2>1. IsFiniteSet(done)
    BY CommitAssumption, FS_Subset DEF Inv, TypeOK
  <2> QED
    BY <1>1, <1>5, <2>1, FS_AddElement DEF Inv
<1>7. Sound(a)'
  BY <1>1 DEF Inv, TypeOK, Sound
<1>8. ASSUME NEW b \in Requests, b # a
      PROVE  Sound(b)'
  <2>1. base'[b] = base[b] /\ seen'[b] = seen[b] /\ reads'[b] = reads[b] /\ pc'[b] = pc[b]
    BY <1>1, <1>8, Forgotten DEF Inv, TypeOK
  <2> QED
    BY <1>1, <1>8, <2>1, BystanderSound DEF Inv
<1> QED
  BY <1>4, <1>6, <1>7, <1>8 DEF Inv

LEMMA ConflictInv ==
    ASSUME Inv, NEW a \in Requests, Conflict(a)
    PROVE  Inv'
<1>1. /\ Forget({a}) /\ pc[a] = "loading" /\ reads[a] > 0
      /\ UNCHANGED << content, version, done >>
      /\ version # base[a]
  BY PartsRead DEF Conflict, Loaded
<1>2. \/ /\ attempt[a] < MaxCommitAttempts /\ attempt' = [attempt EXCEPT ![a] = attempt[a] + 1]
         /\ pc' = pc
      \/ /\ Retries(a) /\ ~ attempt[a] < MaxCommitAttempts
         /\ pc' = [pc EXCEPT ![a] = "gaveUp"] /\ attempt' = attempt
      \/ /\ pc' = [pc EXCEPT ![a] = "conflict"] /\ attempt' = attempt
  BY DEF Conflict, TriesAgain
<1>3. /\ attempt[a] \in 1..MaxCommitAttempts /\ base[a] \in Nat /\ version \in Nat
      /\ MaxCommitAttempts \in Nat /\ pc \in [Requests -> {"new"} \cup InFlight \cup Ended]
      /\ attempt \in [Requests -> 1..MaxCommitAttempts]
  BY CommitAssumption DEF Inv, TypeOK
<1>4. attempt[a] <= version
  BY <1>1, <1>3 DEF Inv, Sound
<1>5. TypeOK'
  <2>1. pc' \in [Requests -> {"new"} \cup InFlight \cup Ended]
    BY <1>2, <1>3 DEF Ended
  <2>2. attempt' \in [Requests -> 1..MaxCommitAttempts]
    BY <1>2, <1>3
  <2> QED
    BY <1>1, <2>1, <2>2, Forgotten DEF Inv, TypeOK
<1>6. Sound(a)'
  <2>1. reads'[a] = 0 /\ a \notin done
    BY <1>1, Forgotten DEF Inv, Sound
  <2>2. CASE pc' = pc /\ attempt'[a] = attempt[a] + 1
    BY <1>1, <1>3, <1>4, <2>1, <2>2 DEF Sound
  <2>3. CASE pc'[a] = "gaveUp" /\ ~ attempt[a] < MaxCommitAttempts
    BY <1>1, <1>3, <1>4, <2>1, <2>3 DEF Sound
  <2>4. CASE pc'[a] = "conflict"
    BY <1>1, <1>3, <1>4, <2>1, <2>4 DEF Sound
  <2> QED
    BY <1>2, <1>3, <2>2, <2>3, <2>4
<1>7. ASSUME NEW b \in Requests, b # a
      PROVE  Sound(b)'
  <2>1. base'[b] = base[b] /\ seen'[b] = seen[b] /\ reads'[b] = reads[b]
    BY <1>1, <1>7, Forgotten DEF Inv
  <2>2. pc'[b] = pc[b] /\ attempt'[b] = attempt[b]
    BY <1>2, <1>3, <1>7
  <2> QED
    BY <1>1, <2>1, <2>2, BystanderSound DEF Inv
<1> QED
  BY <1>1, <1>5, <1>6, <1>7 DEF Inv

LEMMA PublishInv ==
    ASSUME Inv, NEW a \in Requests, Publish(a)
    PROVE  Inv'
<1>1. /\ pc[a] = "publishing" /\ pc' = [pc EXCEPT ![a] = "ok"]
      /\ UNCHANGED << content, version, base, seen, reads, attempt, done >>
  BY DEF Publish
<1>2. TypeOK'
  BY <1>1 DEF Inv, TypeOK, Ended
<1>3. Sound(a)'
  BY <1>1 DEF Inv, TypeOK, Sound
<1>4. ASSUME NEW b \in Requests, b # a
      PROVE  Sound(b)'
  <2>1. pc'[b] = pc[b]
    BY <1>1, <1>4 DEF Inv, TypeOK
  <2> QED
    BY <1>1, <2>1, BystanderSound DEF Inv
<1> QED
  BY <1>1, <1>2, <1>3, <1>4 DEF Inv

LEMMA CrashInv ==
    ASSUME Inv, Crash
    PROVE  Inv'
<1> DEFINE A == {a \in Requests : pc[a] \in InFlight}
<1>1. /\ Forget(A)
      /\ pc' = [a \in Requests |-> IF pc[a] \in InFlight THEN "lost" ELSE pc[a]]
      /\ UNCHANGED << content, version, attempt, done >>
  BY DEF Crash
<1>2. TypeOK'
  <2>1. pc' \in [Requests -> {"new"} \cup InFlight \cup Ended]
    BY <1>1 DEF Inv, TypeOK, Ended
  <2> QED
    BY <1>1, <2>1, Forgotten DEF Inv, TypeOK
<1>3. ASSUME NEW b \in Requests
      PROVE  Sound(b)'
  <2>1. CASE b \in A
    <3>1. pc'[b] = "lost"
      BY <1>1, <2>1
    <3> QED
      BY <3>1 DEF Sound
  <2>2. CASE b \notin A
    <3>1. base'[b] = base[b] /\ seen'[b] = seen[b] /\ reads'[b] = reads[b] /\ pc'[b] = pc[b]
      BY <1>1, <2>2, Forgotten DEF Inv
    <3> QED
      BY <1>1, <3>1, BystanderSound DEF Inv
  <2> QED
    BY <2>1, <2>2
<1> QED
  BY <1>1, <1>2, <1>3 DEF Inv

LEMMA NextInv == Inv /\ [Next]_vars => Inv'
<1> SUFFICES ASSUME Inv, [Next]_vars PROVE Inv'
  OBVIOUS
<1>1. CASE UNCHANGED vars
  BY <1>1 DEF vars, Inv, TypeOK, Sound
<1>2. CASE Crash
  BY <1>2, CrashInv
<1>3. ASSUME NEW a \in Requests, Receive(a) \/ Step(a)
      PROVE  Inv'
  BY <1>3, ReceiveInv, ReadInv, RefuseInv, CommitInv, ConflictInv, PublishInv DEF Step
<1> QED
  BY <1>1, <1>2, <1>3 DEF Next

----------------------------------------------------------------------------
(* What follows                                                             *)

\* The invariant holds of every way the requests can interleave, with any number of crashes.
THEOREM Invariance == Spec => []Inv
<1>1. Init => Inv
  BY InitInv
<1>2. Inv /\ [Next]_vars => Inv'
  BY NextInv
<1> QED
  BY <1>1, <1>2, PTL DEF Spec

\* The rows of an instance and the locals of every loadEngineState stay well formed, and no
\* cycle is tried more often than MAX_COMMIT_ATTEMPTS.
THEOREM TypeCorrectness == Spec => []TypeOK
<1>1. Inv => TypeOK
  BY DEF Inv
<1> QED
  BY <1>1, Invariance, PTL

\* 409 and giving up happen only to a request that others overtook, once per attempt.
THEOREM ConflictsAreReal == Spec => []LosesOnlyToOthers
<1>1. Inv => LosesOnlyToOthers
  <2> SUFFICES ASSUME Inv, NEW a \in Requests, pc[a] \in {"conflict", "gaveUp"}
               PROVE  Cardinality(done \ {a}) >= IF pc[a] = "gaveUp" THEN MaxCommitAttempts ELSE 1
    BY DEF LosesOnlyToOthers
  <2>1. done \ {a} = done
    BY DEF Inv, Sound
  <2>2. version \in Nat /\ MaxCommitAttempts \in Nat
    BY CommitAssumption DEF Inv, TypeOK
  <2> QED
    BY <2>1, <2>2 DEF Inv, Sound
<1> QED
  BY <1>1, Invariance, PTL

\* Whoever runs cycles on an instance, their commands take effect one after another: what is
\* committed is never computed from parts read at different moments, nor from a stale instance.
THEOREM Serializability == Spec => Serializable
<1>1. Init => Serial!Init
  BY DEF Init, Serial!Init
<1>2. Inv /\ [Next]_vars => [Serial!Next]_Serial!vars
  <2> SUFFICES ASSUME Inv, [Next]_vars PROVE [Serial!Next]_Serial!vars
    OBVIOUS
  <2>1. ASSUME NEW a \in Requests, Commit(a)
        PROVE  Serial!Apply(a)
    <3>1. seen[a] = content
      BY <2>1, LoadedIsCurrent DEF Inv, Commit
    <3>2. PICK r \in Execute(a, content) : content' = Written(a, r)
      BY <2>1, <3>1 DEF Commit
    <3>3. a \notin done /\ done' = done \cup {a}
      BY <2>1 DEF Inv, Sound, Commit, Loaded
    <3> QED
      BY <3>2, <3>3 DEF Serial!Apply, Serial!Written, Written
  <2>2. ASSUME NEW a \in Requests, Receive(a) \/ Read(a) \/ Refuse(a) \/ Conflict(a) \/ Publish(a)
        PROVE  UNCHANGED << content, done >>
    BY <2>2 DEF Receive, Read, Refuse, Conflict, Publish
  <2>3. CASE Crash \/ UNCHANGED vars
    BY <2>3 DEF Crash, vars, Serial!vars
  <2> QED
    BY <2>1, <2>2, <2>3 DEF Next, Step, Serial!Next, Serial!vars
<1> QED
  BY <1>1, <1>2, Invariance, PTL DEF Spec, Serializable, Serial!Spec

-----------------------------------------------------------------------------
(* The tables                                                              *)

----------------------------------------------------------------------------
(* Induction, from the least number of a set *)

\* A set of numbers that is not empty has a least one.
LEMMA LeastNumber ==
    ASSUME NEW T \in SUBSET Nat, T # {}
    PROVE  \E n \in T : \A m \in T : n <= m
<1> DEFINE R == StrictSubsetOrdering(Nat)
           F == {0..n : n \in T}
<1>1. IsWellFoundedOn(R, FiniteSubsetsOf(Nat))
  BY FS_StrictSubsetOrderingWellFounded
<1>2. F \subseteq FiniteSubsetsOf(Nat) /\ F # {}
  <2>1. ASSUME NEW n \in T
        PROVE  0..n \in FiniteSubsetsOf(Nat)
    <3>1. n \in Int /\ 0 \in Int /\ 0..n \subseteq Nat
      OBVIOUS
    <3>2. IsFiniteSet(0..n)
      BY <3>1, FS_Interval
    <3> QED BY <3>1, <3>2 DEF FiniteSubsetsOf
  <2> QED BY <2>1
<1> HIDE DEF R, F
<1>3. PICK x \in F : \A y \in F : ~ (<<y, x>> \in R)
  BY <1>1, <1>2, WFMin
<1>4. PICK n \in T : x = 0..n
  BY <1>3 DEF F
<1>5. ASSUME NEW m \in T, m < n
      PROVE  FALSE
  <2>1. 0..m \in F
    BY DEF F
  <2>2. <<0..m, 0..n>> \in R
    BY <1>5, 0..m # 0..n DEF R, StrictSubsetOrdering
  <2> QED BY <2>1, <2>2, <1>3, <1>4
<1> QED BY <1>5

\* What holds at 0 and is passed on from each number to the next holds up to n.
LEMMA StepByStep ==
    ASSUME NEW n \in Nat, NEW S, 0 \in S,
           \A i \in 0..n : i < n /\ i \in S => i + 1 \in S
    PROVE  \A i \in 0..n : i \in S
<1> DEFINE T == {i \in 0..n : i \notin S}
<1>1. SUFFICES ASSUME T # {}
               PROVE  FALSE
  OBVIOUS
<1>2. T \in SUBSET Nat
  OBVIOUS
<1> HIDE DEF T
<1>3. PICK m \in T : \A k \in T : m <= k
  BY <1>1, <1>2, LeastNumber
<1>4. m \in 1..n /\ m \notin S
  BY <1>3 DEF T
<1>5. PICK k \in Nat : m = k + 1
  BY <1>4, m - 1 \in Nat, m = (m - 1) + 1
<1>6. k \in 0..n /\ k < n /\ ~ (m <= k)
  BY <1>4, <1>5
<1>7. k \in S
  BY <1>3, <1>6 DEF T
<1> QED BY <1>4, <1>5, <1>6, <1>7

----------------------------------------------------------------------------
(* What the two stores make of a transaction, operation by operation *)

\* The recursive function of PostgresRun exists: the state after each statement of a transaction.
LEMMA PostgresRunSteps ==
    ASSUME NEW s, NEW ops, Len(ops) \in Nat
    PROVE  LET f == PostgresRun(s, ops) IN
           /\ f[0] = s
           /\ \A i \in 0..Len(ops) : i # 0 =>
                f[i] = IF Fails(f[i - 1]) THEN f[i - 1] ELSE ApplyOp(f[i - 1], ops[i])
<1> DEFINE n == Len(ops)
           Nth(g, i) == IF i = 0 THEN s ELSE IF Fails(g[i - 1]) THEN g[i - 1] ELSE ApplyOp(g[i - 1], ops[i])
           S == {k \in 0..n : \E g : g = [i \in 0..k |-> Nth(g, i)]}
<1>1. 0 \in S
  <2> DEFINE g == [i \in 0..0 |-> s]
  <2>1. \A i \in 0..0 : Nth(g, i) = s
    OBVIOUS
  <2>2. g = [i \in 0..0 |-> Nth(g, i)]
    <3> HIDE DEF Nth
    <3> QED BY <2>1
  <2> HIDE DEF g, Nth
  <2> QED BY <2>2, 0 \in 0..n
<1>2. ASSUME NEW k \in 0..n, k < n, k \in S
      PROVE  k + 1 \in S
  <2>1. PICK g : g = [i \in 0..k |-> Nth(g, i)]
    BY <1>2
  <2> DEFINE v == IF Fails(g[k]) THEN g[k] ELSE ApplyOp(g[k], ops[k + 1])
             h == [i \in 0..(k + 1) |-> IF i = k + 1 THEN v ELSE g[i]]
  <2>2. ASSUME NEW i \in 0..(k + 1)
        PROVE  h[i] = Nth(h, i)
    <3>1. CASE i = k + 1
      <4>1. i # 0 /\ i - 1 = k /\ h[i - 1] = g[k] /\ h[i] = v
        BY <3>1
      <4> HIDE DEF h
      <4> QED BY <4>1, <3>1
    <3>2. CASE i # k + 1
      <4>1. i \in 0..k /\ h[i] = g[i] /\ (i # 0 => i - 1 \in 0..k /\ h[i - 1] = g[i - 1])
        BY <3>2
      <4>2. g[i] = Nth(g, i)
        <5> HIDE DEF Nth
        <5> QED BY <2>1, <4>1
      <4> HIDE DEF h
      <4> QED BY <4>1, <4>2
    <3> QED BY <3>1, <3>2
  <2>3. h = [i \in 0..(k + 1) |-> Nth(h, i)]
    <3>1. h = [i \in 0..(k + 1) |-> h[i]]
      OBVIOUS
    <3> HIDE DEF h, Nth
    <3> QED BY <3>1, <2>2
  <2> HIDE DEF h, Nth
  <2> QED BY <2>3
<1>3. n \in S
  <2> HIDE DEF S
  <2>1. \A k \in 0..n : k \in S
    BY <1>1, <1>2, StepByStep
  <2> QED BY <2>1, n \in 0..n
<1>4. PostgresRun(s, ops) = CHOOSE g : g = [i \in 0..n |-> Nth(g, i)]
  BY DEF PostgresRun, PostgresStep
<1> HIDE DEF Nth
<1>5. PostgresRun(s, ops) = [i \in 0..n |-> Nth(PostgresRun(s, ops), i)]
  BY <1>3, <1>4
<1>6. \A i \in 0..n : PostgresRun(s, ops)[i] = Nth(PostgresRun(s, ops), i)
  BY <1>5
<1> QED BY <1>6, 0 \in 0..n DEF Nth

\* Likewise the one in memory.
LEMMA MemoryRunSteps ==
    ASSUME NEW m, NEW ops, Len(ops) \in Nat
    PROVE  LET f == Memory!MemoryRun(m, ops) IN
           /\ f[0] = [m |-> m, thrown |-> FALSE]
           /\ \A i \in 0..Len(ops) : i # 0 =>
                f[i] = Memory!MemoryStep(f[i - 1], ops[i])
<1> DEFINE n == Len(ops)
           Nth(g, i) == IF i = 0 THEN [m |-> m, thrown |-> FALSE] ELSE Memory!MemoryStep(g[i - 1], ops[i])
           S == {k \in 0..n : \E g : g = [i \in 0..k |-> Nth(g, i)]}
<1>1. 0 \in S
  <2> DEFINE g == [i \in 0..0 |-> [m |-> m, thrown |-> FALSE]]
  <2>1. \A i \in 0..0 : Nth(g, i) = [m |-> m, thrown |-> FALSE]
    OBVIOUS
  <2>2. g = [i \in 0..0 |-> Nth(g, i)]
    <3> HIDE DEF Nth
    <3> QED BY <2>1
  <2> HIDE DEF g, Nth
  <2> QED BY <2>2, 0 \in 0..n
<1>2. ASSUME NEW k \in 0..n, k < n, k \in S
      PROVE  k + 1 \in S
  <2>1. PICK g : g = [i \in 0..k |-> Nth(g, i)]
    BY <1>2
  <2> DEFINE v == Memory!MemoryStep(g[k], ops[k + 1])
             h == [i \in 0..(k + 1) |-> IF i = k + 1 THEN v ELSE g[i]]
  <2>2. ASSUME NEW i \in 0..(k + 1)
        PROVE  h[i] = Nth(h, i)
    <3>1. CASE i = k + 1
      <4>1. i # 0 /\ i - 1 = k /\ h[i - 1] = g[k] /\ h[i] = v
        BY <3>1
      <4> HIDE DEF h
      <4> QED BY <4>1, <3>1
    <3>2. CASE i # k + 1
      <4>1. i \in 0..k /\ h[i] = g[i] /\ (i # 0 => i - 1 \in 0..k /\ h[i - 1] = g[i - 1])
        BY <3>2
      <4>2. g[i] = Nth(g, i)
        <5> HIDE DEF Nth
        <5> QED BY <2>1, <4>1
      <4> HIDE DEF h
      <4> QED BY <4>1, <4>2
    <3> QED BY <3>1, <3>2
  <2>3. h = [i \in 0..(k + 1) |-> Nth(h, i)]
    <3>1. h = [i \in 0..(k + 1) |-> h[i]]
      OBVIOUS
    <3> HIDE DEF h, Nth
    <3> QED BY <3>1, <2>2
  <2> HIDE DEF h, Nth
  <2> QED BY <2>3
<1>3. n \in S
  <2> HIDE DEF S
  <2>1. \A k \in 0..n : k \in S
    BY <1>1, <1>2, StepByStep
  <2> QED BY <2>1, n \in 0..n
<1>4. Memory!MemoryRun(m, ops) = CHOOSE g : g = [i \in 0..n |-> Nth(g, i)]
  BY DEF Memory!MemoryRun
<1> HIDE DEF Nth
<1>5. Memory!MemoryRun(m, ops) = [i \in 0..n |-> Nth(Memory!MemoryRun(m, ops), i)]
  BY <1>3, <1>4
<1>6. \A i \in 0..n : Memory!MemoryRun(m, ops)[i] = Nth(Memory!MemoryRun(m, ops), i)
  BY <1>5
<1> QED BY <1>6, 0 \in 0..n DEF Nth

----------------------------------------------------------------------------
(* One operation *)

RowValues == {Absent, "waiting", "looping", "over", "open", "completed", "active"}

Operations == [op : DOMAIN Memory!TableOfOp, key : StoredIds, value : RowValues, version : Nat]

Stored == [rows : [Memory!Tables -> [StoredIds -> RowValues]],
           version : [StoredIds -> Nat],
           entries : [Memory!Appended -> SUBSET StoredIds]]

\* What is in memory when s is in the tables.
AsMemory(s) ==
    [rows |-> s.rows, version |-> s.version,
     times |-> [t \in {"history", "compensationRecords"} |->
                  [k \in StoredIds |-> IF k \in s.entries[t] THEN 1 ELSE 0]]]

\* The operations that write an entry whatever it was, in both stores.
Plain == {"saveDefinition", "saveTokens", "saveScope", "saveSubscription", "deleteSubscription",
          "saveGatewayState", "deleteGatewayState", "saveTimer", "deleteTimer"}

\* What the others count on: the store does the same with o as the one in memory.
Ready(s, o) ==
    /\ o.op = "createInstance" => s.version[o.key] = 0
    /\ o.op = "updateInstance" => s.version[o.key] = o.version /\ o.version # 0
    /\ o.op = "createUserTask" => s.rows["userTasks"][o.key] = Absent
    /\ o.op = "updateUserTask" => s.rows["userTasks"][o.key] # Absent
    /\ o.op = "appendHistory" => o.key \notin s.entries["history"]
    /\ o.op = "saveCompensationRecord" => o.key \notin s.entries["compensationRecords"]

\* The entries the clients' next operations depend on: what o makes of its own, and that it leaves the others alone.
Done(s, p, o) ==
    /\ Table(o) \in {"tokens", "userTasks"} => p.rows[Table(o)][o.key] = o.value
    /\ Table(o) = "instances" => p.version[o.key] = s.version[o.key] + 1
    /\ o.op \in {"appendHistory", "saveCompensationRecord"} => o.key \in p.entries[Table(o)]
    /\ o.op = "deleteCompensationRecord" => o.key \notin p.entries[Table(o)]

SameEntry(s, p, tab, k) ==
    /\ tab \in {"tokens", "userTasks"} => p.rows[tab][k] = s.rows[tab][k]
    /\ tab = "instances" => p.version[k] = s.version[k]
    /\ tab \in Memory!Appended => (k \in p.entries[tab] <=> k \in s.entries[tab])

Alike(s, p, o) ==
    /\ p \in Stored
    /\ Memory!MemoryStep([m |-> AsMemory(s), thrown |-> FALSE], o) = [m |-> AsMemory(p), thrown |-> FALSE]
    /\ Done(s, p, o)
    /\ \A tab, k : tab # Table(o) \/ k # o.key => SameEntry(s, p, tab, k)

\* Which table each operation is about.
LEMMA TableFacts ==
    /\ Memory!TableOfOp["createInstance"] = "instances"
    /\ Memory!TableOfOp["updateInstance"] = "instances"
    /\ Memory!TableOfOp["createUserTask"] = "userTasks"
    /\ Memory!TableOfOp["updateUserTask"] = "userTasks"
    /\ Memory!TableOfOp["saveTokens"] = "tokens"
    /\ Memory!TableOfOp["appendHistory"] = "history"
    /\ Memory!TableOfOp["saveCompensationRecord"] = "compensationRecords"
    /\ Memory!TableOfOp["deleteCompensationRecord"] = "compensationRecords"
    /\ \A op \in Plain : /\ Memory!TableOfOp[op] \in Memory!Tables \ {"instances", "userTasks"}
                         /\ Memory!TableOfOp[op] = "tokens" <=> op = "saveTokens"
    /\ DOMAIN Memory!TableOfOp = Plain \cup {"createInstance", "updateInstance", "createUserTask", "updateUserTask",
                                             "appendHistory", "saveCompensationRecord", "deleteCompensationRecord"}
BY DEF Memory!TableOfOp, Memory!Tables, Plain

\* What each operation is in the database, ...
LEMMA ApplyFacts ==
    ASSUME NEW s, NEW o
    PROVE  /\ o.op \in Plain => ApplyOp(s, o) = Put(s, o)
           /\ o.op = "createInstance" => ApplyOp(s, o) = CreateInstanceWith(s, o)
           /\ o.op = "updateInstance" => ApplyOp(s, o) = UpdateInstanceWith(s, o)
           /\ o.op = "createUserTask" => ApplyOp(s, o) = CreateUserTaskWith(s, o)
           /\ o.op = "updateUserTask" => ApplyOp(s, o) = UpdateUserTaskWith(s, o)
           /\ o.op = "appendHistory" => ApplyOp(s, o) = AppendHistoryWith(s, o)
           /\ o.op = "saveCompensationRecord" => ApplyOp(s, o) = SaveCompensationRecordWith(s, o)
           /\ o.op = "deleteCompensationRecord" => ApplyOp(s, o) = DeleteCompensationRecordWith(s, o)
BY DEF ApplyOp, Plain, SaveDefinitionWith, SaveTokensWith, SaveScopeWith, SaveSubscriptionWith, DeleteSubscriptionWith,
       SaveGatewayStateWith, DeleteGatewayStateWith, SaveTimerWith, DeleteTimerWith

\* ... and in memory.
LEMMA MemoryApplyFacts ==
    ASSUME NEW m, NEW o
    PROVE  /\ o.op \in Plain \cup {"createUserTask", "updateUserTask"} => Memory!MemoryApply(m, o) = Memory!Replaced(m, o)
           /\ o.op = "createInstance" => Memory!MemoryApply(m, o) = Memory!CreatedInstance(m, o)
           /\ o.op = "updateInstance" => Memory!MemoryApply(m, o) = Memory!UpdatedInstance(m, o)
           /\ o.op \in {"appendHistory", "saveCompensationRecord"} => Memory!MemoryApply(m, o) = Memory!AppendedTo(m, o)
           /\ o.op = "deleteCompensationRecord" => Memory!MemoryApply(m, o) = Memory!Filtered(m, o)
BY DEF Memory!MemoryApply, Plain

\* A row that is written in the database is written in memory, and nothing else.
LEMMA PutAlike ==
    ASSUME NEW s \in Stored, NEW o \in Operations, Table(o) \in Memory!Tables
    PROVE  /\ Put(s, o) \in Stored
           /\ Put(s, o).version = s.version /\ Put(s, o).entries = s.entries
           /\ AsMemory(Put(s, o)) = Memory!Replaced(AsMemory(s), o)
           /\ Put(s, o).rows[Table(o)][o.key] = o.value
           /\ \A tab \in Memory!Tables : \A k : (tab # Table(o) \/ k # o.key) => Put(s, o).rows[tab][k] = s.rows[tab][k]
<1>1. o.key \in StoredIds /\ o.value \in RowValues
  BY DEF Operations
<1>2. s.rows \in [Memory!Tables -> [StoredIds -> RowValues]] /\ s.version \in [StoredIds -> Nat]
      /\ s.entries \in [Memory!Appended -> SUBSET StoredIds]
  BY DEF Stored
<1> DEFINE r == [s.rows EXCEPT ![Table(o)] = [s.rows[Table(o)] EXCEPT ![o.key] = o.value]]
<1>3. r \in [Memory!Tables -> [StoredIds -> RowValues]]
  <2>1. s.rows[Table(o)] \in [StoredIds -> RowValues]
    BY <1>2
  <2>2. [s.rows[Table(o)] EXCEPT ![o.key] = o.value] \in [StoredIds -> RowValues]
    BY <1>1, <2>1
  <2> HIDE DEF Table
  <2> QED BY <1>2, <2>2
<1>4. r[Table(o)][o.key] = o.value
  BY <1>1, <1>2
<1>5. \A tab \in Memory!Tables : \A k : (tab # Table(o) \/ k # o.key) => r[tab][k] = s.rows[tab][k]
  <2> TAKE tab \in Memory!Tables
  <2> TAKE k
  <2>1. s.rows[Table(o)] \in [StoredIds -> RowValues] /\ s.rows[tab] \in [StoredIds -> RowValues]
    BY <1>2
  <2>2. CASE tab # Table(o)
    BY <1>2, <2>2
  <2>3. CASE tab = Table(o)
    <3>1. r[tab] = [s.rows[Table(o)] EXCEPT ![o.key] = o.value]
      BY <1>2, <2>3
    <3> QED BY <3>1, <2>3, <2>1
  <2> QED BY <2>2, <2>3
<1>6. Put(s, o) = [s EXCEPT !.rows = r]
  BY <1>2 DEF Put, Stored
<1>7. Put(s, o) = [rows |-> r, version |-> s.version, entries |-> s.entries]
  BY <1>6 DEF Stored
<1>8. Memory!Replaced(AsMemory(s), o) = [AsMemory(s) EXCEPT !.rows = r]
  BY DEF Memory!Replaced, AsMemory, Table
<1> HIDE DEF r
<1>9. AsMemory(Put(s, o)) = Memory!Replaced(AsMemory(s), o)
  BY <1>7, <1>8 DEF AsMemory
<1>10. Put(s, o) \in Stored
  BY <1>2, <1>3, <1>7 DEF Stored
<1> QED BY <1>4, <1>5, <1>7, <1>9, <1>10

\* What is in memory answers without a conflict.
LEMMA Unopposed ==
    ASSUME NEW m, NEW o, ~ Memory!MemoryConflict(m, o)
    PROVE  Memory!MemoryStep([m |-> m, thrown |-> FALSE], o) = [m |-> Memory!MemoryApply(m, o), thrown |-> FALSE]
BY DEF Memory!MemoryStep

\* The operations that write a row: an upsert here is a map entry there, if an INSERT meets no row and an UPDATE meets one.
LEMMA RowsAlike ==
    ASSUME NEW s \in Stored, NEW o \in Operations, Ready(s, o),
           o.op \in Plain \cup {"createUserTask", "updateUserTask"}
    PROVE  Alike(s, ApplyOp(s, o), o)
<1>1. Table(o) \in Memory!Tables /\ Table(o) # "instances"
  BY TableFacts DEF Table, Memory!Tables
<1>2. ApplyOp(s, o) = Put(s, o)
  BY ApplyFacts DEF Ready, CreateUserTaskWith, UpdateUserTaskWith
<1>3. Memory!MemoryApply(AsMemory(s), o) = Memory!Replaced(AsMemory(s), o)
  BY MemoryApplyFacts
<1>4. ~ Memory!MemoryConflict(AsMemory(s), o)
  BY DEF Memory!MemoryConflict, Plain
<1>5. Memory!MemoryStep([m |-> AsMemory(s), thrown |-> FALSE], o) = [m |-> AsMemory(Put(s, o)), thrown |-> FALSE]
  BY <1>1, <1>3, <1>4, Unopposed, PutAlike
<1>6. Done(s, Put(s, o), o)
  <2>1. Table(o) \in Memory!Tables => Put(s, o).rows[Table(o)][o.key] = o.value
    BY PutAlike
  <2> QED BY <1>1, <2>1 DEF Done, Plain
<1>7. \A tab, k : tab # Table(o) \/ k # o.key => SameEntry(s, Put(s, o), tab, k)
  <2>1. /\ Put(s, o).version = s.version /\ Put(s, o).entries = s.entries
        /\ \A tab \in Memory!Tables : \A k : (tab # Table(o) \/ k # o.key) => Put(s, o).rows[tab][k] = s.rows[tab][k]
    BY <1>1, PutAlike
  <2>2. {"tokens", "userTasks"} \subseteq Memory!Tables
    BY DEF Memory!Tables
  <2> QED BY <2>1, <2>2 DEF SameEntry
<1>8. Put(s, o) \in Stored
  BY <1>1, PutAlike
<1> QED BY <1>2, <1>5, <1>6, <1>7, <1>8 DEF Alike

\* The operations that write the instance and its version.
LEMMA InstanceAlike ==
    ASSUME NEW s \in Stored, NEW o \in Operations, Ready(s, o), o.op \in {"createInstance", "updateInstance"}
    PROVE  Alike(s, ApplyOp(s, o), o)
<1> DEFINE n == s.version[o.key] + 1
           p == [Put(s, o) EXCEPT !.version[o.key] = n]
<1>1. Table(o) = "instances" /\ "instances" \in Memory!Tables
  BY TableFacts DEF Table, Memory!Tables
<1>2. o.key \in StoredIds /\ s.version \in [StoredIds -> Nat] /\ s.version[o.key] \in Nat
  BY DEF Operations, Stored
<1>3. /\ Put(s, o) \in Stored
      /\ Put(s, o).version = s.version /\ Put(s, o).entries = s.entries
      /\ AsMemory(Put(s, o)) = Memory!Replaced(AsMemory(s), o)
      /\ \A tab \in Memory!Tables : \A k : (tab # Table(o) \/ k # o.key) => Put(s, o).rows[tab][k] = s.rows[tab][k]
  BY <1>1, PutAlike
<1>4. ApplyOp(s, o) = p
  <2>1. CASE o.op = "createInstance"
    <3>1. s.version[o.key] = 0 /\ n = 1
      BY <2>1 DEF Ready
    <3>2. ApplyOp(s, o) = CreateInstanceWith(s, o)
      BY <2>1, ApplyFacts
    <3> QED BY <3>1, <3>2 DEF CreateInstanceWith
  <2>2. CASE o.op = "updateInstance"
    <3>1. s.version[o.key] = o.version
      BY <2>2 DEF Ready
    <3>2. ApplyOp(s, o) = UpdateInstanceWith(s, o)
      BY <2>2, ApplyFacts
    <3> QED BY <3>1, <3>2, <1>3 DEF UpdateInstanceWith
  <2> QED BY <2>1, <2>2
<1>5. /\ p \in Stored /\ p.rows = Put(s, o).rows /\ p.entries = s.entries
      /\ p.version = [s.version EXCEPT ![o.key] = n]
      /\ AsMemory(p) = [Memory!Replaced(AsMemory(s), o) EXCEPT !.version[o.key] = n]
  <2>1. PICK r, v, e : /\ Put(s, o) = [rows |-> r, version |-> v, entries |-> e]
                       /\ r \in [Memory!Tables -> [StoredIds -> RowValues]] /\ v \in [StoredIds -> Nat]
                       /\ e \in [Memory!Appended -> SUBSET StoredIds]
    BY <1>3 DEF Stored
  <2>2. n \in Nat
    BY <1>2
  <2> HIDE DEF n
  <2>3. p = [rows |-> r, version |-> [v EXCEPT ![o.key] = n], entries |-> e]
    BY <2>1
  <2>4. [v EXCEPT ![o.key] = n] \in [StoredIds -> Nat]
    BY <2>1, <2>2, <1>2
  <2>5. v = s.version /\ e = s.entries
    BY <2>1, <1>3
  <2>6. AsMemory(p) = [AsMemory(Put(s, o)) EXCEPT !.version[o.key] = n]
    <3> DEFINE q == Put(s, o)
               T(x) == [t \in {"history", "compensationRecords"} |-> [k \in StoredIds |-> IF k \in x[t] THEN 1 ELSE 0]]
    <3> HIDE DEF p
    <3>1. AsMemory(p) = [rows |-> p.rows, version |-> p.version, times |-> T(p.entries)]
      BY DEF AsMemory
    <3>2. AsMemory(q) = [rows |-> q.rows, version |-> q.version, times |-> T(q.entries)]
      BY DEF AsMemory
    <3>3. q.rows = r /\ q.version = v /\ q.entries = e /\ p.rows = r /\ p.version = [v EXCEPT ![o.key] = n] /\ p.entries = e
      BY <2>1, <2>3
    <3> HIDE DEF T, q
    <3>4. AsMemory(q) = [rows |-> r, version |-> v, times |-> T(e)]
          /\ AsMemory(p) = [rows |-> r, version |-> [v EXCEPT ![o.key] = n], times |-> T(e)]
      BY <3>1, <3>2, <3>3
    <3>5. AsMemory(p) = [AsMemory(q) EXCEPT !.version[o.key] = n]
      BY <3>4
    <3> QED BY <3>5 DEF q
  <2> HIDE DEF p
  <2>7. p \in Stored
    <3> DEFINE v2 == [v EXCEPT ![o.key] = n]
    <3>1. v2 \in [StoredIds -> Nat] /\ p = [rows |-> r, version |-> v2, entries |-> e]
      BY <2>3, <2>4
    <3>2. r \in [Memory!Tables -> [StoredIds -> RowValues]] /\ e \in [Memory!Appended -> SUBSET StoredIds]
      BY <2>1
    <3> HIDE DEF v2
    <3> QED BY <3>1, <3>2 DEF Stored
  <2>8. p.rows = Put(s, o).rows /\ p.version = [v EXCEPT ![o.key] = n] /\ p.entries = e
    BY <2>1, <2>3
  <2>9. AsMemory(Put(s, o)) = Memory!Replaced(AsMemory(s), o)
    BY <1>3
  <2> QED BY <2>5, <2>6, <2>7, <2>8, <2>9
<1>6. ~ Memory!MemoryConflict(AsMemory(s), o)
  BY DEF Memory!MemoryConflict, Ready, AsMemory
<1>7. Memory!MemoryApply(AsMemory(s), o) = AsMemory(p)
  <2>1. Memory!Replaced(AsMemory(s), o).version = s.version
    BY DEF Memory!Replaced, AsMemory
  <2>2. CASE o.op = "createInstance"
    <3>1. s.version[o.key] = 0 /\ n = 1
      BY <2>2 DEF Ready
    <3>2. Memory!MemoryApply(AsMemory(s), o) = Memory!CreatedInstance(AsMemory(s), o)
      BY <2>2, MemoryApplyFacts
    <3> HIDE DEF p, n
    <3> QED BY <3>1, <3>2, <1>5 DEF Memory!CreatedInstance
  <2>3. CASE o.op = "updateInstance"
    <3>1. Memory!MemoryApply(AsMemory(s), o) = Memory!UpdatedInstance(AsMemory(s), o)
      BY <2>3, MemoryApplyFacts
    <3> HIDE DEF p
    <3> QED BY <2>1, <3>1, <1>5 DEF Memory!UpdatedInstance
  <2> QED BY <2>2, <2>3
<1>8. Memory!MemoryStep([m |-> AsMemory(s), thrown |-> FALSE], o) = [m |-> AsMemory(p), thrown |-> FALSE]
  BY <1>6, <1>7, Unopposed
<1>9. Done(s, p, o)
  <2>1. p.version[o.key] = n
    <3> HIDE DEF n, p
    <3> QED BY <1>2, <1>5
  <2> QED BY <1>1, <2>1 DEF Done
<1>10. \A tab, k : tab # Table(o) \/ k # o.key => SameEntry(s, p, tab, k)
  <2> SUFFICES ASSUME NEW tab, NEW k, tab # Table(o) \/ k # o.key
               PROVE  SameEntry(s, p, tab, k)
    OBVIOUS
  <2> HIDE DEF p, n
  <2>1. tab \in {"tokens", "userTasks"} => p.rows[tab][k] = s.rows[tab][k]
    BY <1>3, <1>5 DEF Memory!Tables
  <2>2. tab = "instances" => p.version[k] = s.version[k]
    BY <1>1, <1>2, <1>5
  <2> QED BY <2>1, <2>2, <1>5 DEF SameEntry
<1> HIDE DEF p
<1> QED BY <1>4, <1>5, <1>8, <1>9, <1>10 DEF Alike

\* The operations on entries that are written once: a set here, how often there.
LEMMA EntriesAlike ==
    ASSUME NEW s \in Stored, NEW o \in Operations, Ready(s, o),
           o.op \in {"appendHistory", "saveCompensationRecord", "deleteCompensationRecord"}
    PROVE  Alike(s, ApplyOp(s, o), o)
<1> DEFINE tab == Table(o)
           keys == IF o.op = "deleteCompensationRecord" THEN s.entries[tab] \ {o.key} ELSE s.entries[tab] \cup {o.key}
           e == [s.entries EXCEPT ![tab] = keys]
           p == [s EXCEPT !.entries = e]
           T(x) == [t \in {"history", "compensationRecords"} |-> [k \in StoredIds |-> IF k \in x[t] THEN 1 ELSE 0]]
<1>1. tab \in {"history", "compensationRecords"} /\ (tab = "history" <=> o.op = "appendHistory")
  BY TableFacts DEF Table
<1>2. /\ o.key \in StoredIds /\ s.entries \in [Memory!Appended -> SUBSET StoredIds]
      /\ s.rows \in [Memory!Tables -> [StoredIds -> RowValues]] /\ s.version \in [StoredIds -> Nat]
      /\ Memory!Appended = {"history", "compensationRecords"}
  BY DEF Operations, Stored, Memory!Appended
<1>3. ApplyOp(s, o) = p
  <2>1. CASE o.op = "appendHistory"
    BY <1>1, <2>1, ApplyFacts DEF AppendHistoryWith
  <2>2. CASE o.op = "saveCompensationRecord"
    BY <1>1, <2>2, ApplyFacts DEF SaveCompensationRecordWith
  <2>3. CASE o.op = "deleteCompensationRecord"
    BY <1>1, <2>3, ApplyFacts DEF DeleteCompensationRecordWith
  <2> QED BY <2>1, <2>2, <2>3
<1>4. keys \subseteq StoredIds /\ s.entries[tab] \subseteq StoredIds
  BY <1>1, <1>2
<1>5. o.op \in {"appendHistory", "saveCompensationRecord"} => o.key \notin s.entries[tab]
  BY <1>1 DEF Ready
<1>6. \A k : k # o.key => (k \in keys <=> k \in s.entries[tab])
  OBVIOUS
<1>7. (o.op = "deleteCompensationRecord" => o.key \notin keys) /\ (o.op # "deleteCompensationRecord" => o.key \in keys)
  OBVIOUS
<1> HIDE DEF tab
<1>8. p = [rows |-> s.rows, version |-> s.version, entries |-> e]
  <2>1. s = [rows |-> s.rows, version |-> s.version, entries |-> s.entries]
    BY DEF Stored
  <2> HIDE DEF e
  <2> QED BY <2>1
<1> HIDE DEF keys
<1>9. e \in [Memory!Appended -> SUBSET StoredIds] /\ e[tab] = keys /\ \A t : t # tab => e[t] = s.entries[t]
  BY <1>1, <1>2, <1>4
<1> HIDE DEF e, p
<1>10. p \in Stored
  BY <1>2, <1>8, <1>9 DEF Stored
<1>11. ~ Memory!MemoryConflict(AsMemory(s), o)
  BY DEF Memory!MemoryConflict
<1>12. Memory!MemoryApply(AsMemory(s), o)
         = [AsMemory(s) EXCEPT !.times[tab][o.key] = IF o.op = "deleteCompensationRecord" THEN 0 ELSE @ + 1]
  <2>1. CASE o.op = "deleteCompensationRecord"
    BY <2>1, MemoryApplyFacts DEF Memory!Filtered, tab, Table
  <2>2. CASE o.op # "deleteCompensationRecord"
    BY <2>2, MemoryApplyFacts DEF Memory!AppendedTo, tab, Table
  <2> QED BY <2>1, <2>2
<1>13. T(e) = [T(s.entries) EXCEPT ![tab][o.key] = IF o.op = "deleteCompensationRecord" THEN 0 ELSE @ + 1]
  <2> DEFINE x == T(s.entries)[tab]
             v == IF o.op = "deleteCompensationRecord" THEN 0 ELSE x[o.key] + 1
  <2>1. x = [k \in StoredIds |-> IF k \in s.entries[tab] THEN 1 ELSE 0]
    BY <1>1
  <2>2. T(e)[tab] = [k \in StoredIds |-> IF k \in keys THEN 1 ELSE 0]
    BY <1>1, <1>9
  <2>3. v = IF o.key \in keys THEN 1 ELSE 0
    BY <1>2, <1>5, <1>7, <2>1
  <2> HIDE DEF v, x, T
  <2>4. T(e)[tab] = [x EXCEPT ![o.key] = v]
    BY <1>2, <1>6, <2>1, <2>2, <2>3
  <2> USE DEF T
  <2>5. \A t \in {"history", "compensationRecords"} : t # tab => T(e)[t] = T(s.entries)[t]
    BY <1>9
  <2>6. T(e) = [T(s.entries) EXCEPT ![tab] = [x EXCEPT ![o.key] = v]]
    <3>1. /\ T(e) = [t \in {"history", "compensationRecords"} |-> T(e)[t]]
          /\ T(s.entries) = [t \in {"history", "compensationRecords"} |-> T(s.entries)[t]]
      OBVIOUS
    <3> HIDE DEF T
    <3> QED BY <1>1, <2>4, <2>5, <3>1
  <2> QED BY <2>6 DEF x, v
<1>14. Memory!MemoryApply(AsMemory(s), o) = AsMemory(p)
  <2>1. AsMemory(s) = [rows |-> s.rows, version |-> s.version, times |-> T(s.entries)]
    BY DEF AsMemory
  <2>2. AsMemory(p) = [rows |-> p.rows, version |-> p.version, times |-> T(p.entries)]
    BY DEF AsMemory
  <2>3. p.rows = s.rows /\ p.version = s.version /\ p.entries = e
    BY <1>8
  <2> HIDE DEF T
  <2>4. AsMemory(p) = [rows |-> s.rows, version |-> s.version, times |-> T(e)]
    BY <2>2, <2>3
  <2> QED BY <1>12, <1>13, <2>1, <2>4
<1>15. Memory!MemoryStep([m |-> AsMemory(s), thrown |-> FALSE], o) = [m |-> AsMemory(p), thrown |-> FALSE]
  BY <1>11, <1>14, Unopposed
<1>16. Done(s, p, o)
  BY <1>1, <1>7, <1>8, <1>9 DEF Done, tab
<1>17. \A t, k : t # Table(o) \/ k # o.key => SameEntry(s, p, t, k)
  BY <1>1, <1>2, <1>6, <1>8, <1>9 DEF SameEntry, tab
<1> QED BY <1>3, <1>10, <1>15, <1>16, <1>17 DEF Alike

\* One operation: where the others can count on it, the two stores do the same.
LEMMA OperationAlike ==
    ASSUME NEW s \in Stored, NEW o \in Operations, Ready(s, o)
    PROVE  Alike(s, ApplyOp(s, o), o)
<1>1. o.op \in DOMAIN Memory!TableOfOp
  BY DEF Operations
<1> QED BY <1>1, TableFacts, RowsAlike, InstanceAlike, EntriesAlike

----------------------------------------------------------------------------
(* A transaction *)

\* The tables in which no transaction of a client writes an entry twice.
Watched == {"instances", "tokens", "userTasks", "history", "compensationRecords"}

OpsOf(ops) == {ops[i] : i \in DOMAIN ops}

SameRow(o, u) == Table(o) = Table(u) /\ o.key = u.key

Apart(ops) ==
    /\ ops \in Seq(Operations)
    /\ \A i, j \in DOMAIN ops : i # j /\ Table(ops[i]) \in Watched => ~ SameRow(ops[i], ops[j])

\* Whether an operation is ready, and what it has done, depends on its own entry only.
LEMMA EntryFacts ==
    ASSUME NEW s, NEW p, NEW q, NEW o \in Operations
    PROVE  /\ Table(o) \notin Watched => SameEntry(s, p, Table(o), o.key)
           /\ Ready(s, o) /\ SameEntry(s, p, Table(o), o.key) => Ready(p, o)
           /\ Done(s, p, o) /\ SameEntry(p, q, Table(o), o.key) => Done(s, q, o)
           /\ SameEntry(s, p, Table(o), o.key) /\ Done(p, q, o) => Done(s, q, o)
           /\ \A tab, k : SameEntry(s, p, tab, k) /\ SameEntry(p, q, tab, k) => SameEntry(s, q, tab, k)
<1>1. Table(o) \notin Watched => SameEntry(s, p, Table(o), o.key)
  BY DEF SameEntry, Watched, Memory!Appended
<1>2. o.op \in {"createInstance", "updateInstance"} => Table(o) = "instances"
  BY TableFacts DEF Table
<1>3. o.op \in {"createUserTask", "updateUserTask"} => Table(o) = "userTasks"
  BY TableFacts DEF Table
<1>4. o.op = "appendHistory" => Table(o) = "history"
  BY TableFacts DEF Table
<1>5. o.op \in {"saveCompensationRecord", "deleteCompensationRecord"} => Table(o) = "compensationRecords"
  BY TableFacts DEF Table
<1> HIDE DEF Table
<1>6. Ready(s, o) /\ SameEntry(s, p, Table(o), o.key) => Ready(p, o)
  BY <1>2, <1>3, <1>4, <1>5 DEF Ready, SameEntry, Memory!Appended
<1>7. Done(s, p, o) /\ SameEntry(p, q, Table(o), o.key) => Done(s, q, o)
  BY <1>2, <1>3, <1>4, <1>5 DEF Done, SameEntry, Memory!Appended
<1>8. SameEntry(s, p, Table(o), o.key) /\ Done(p, q, o) => Done(s, q, o)
  BY <1>2, <1>3, <1>4, <1>5 DEF Done, SameEntry, Memory!Appended
<1>9. \A tab, k : SameEntry(s, p, tab, k) /\ SameEntry(p, q, tab, k) => SameEntry(s, q, tab, k)
  BY DEF SameEntry
<1> QED BY <1>1, <1>6, <1>7, <1>8, <1>9

\* What is done after something that left the entry alone is done altogether.
LEMMA DoneSince ==
    ASSUME NEW s, NEW p, NEW q, NEW o \in Operations, SameEntry(s, p, Table(o), o.key), Done(p, q, o)
    PROVE  Done(s, q, o)
BY EntryFacts

\* A state is no error.
LEMMA NoError ==
    ASSUME NEW s \in Stored
    PROVE  ~ Fails(s)
<1>1. "rows" \in DOMAIN s
  BY DEF Stored
<1>2. "rows" \notin DOMAIN Error
  BY DEF Error
<1> QED BY <1>1, <1>2 DEF Fails

\* A transaction: no two of its operations touch a watched entry, each is ready at the start, so each is ready when its turn
\* comes, and both stores get to the end of it alike.
LEMMA RunAlike ==
    ASSUME NEW s \in Stored, NEW ops, Apart(ops), \A o \in OpsOf(ops) : Ready(s, o)
    PROVE  LET p == PostgresRun(s, ops)[Len(ops)] IN
           /\ p \in Stored
           /\ Memory!MemoryRun(AsMemory(s), ops)[Len(ops)] = [m |-> AsMemory(p), thrown |-> FALSE]
           /\ \A o \in OpsOf(ops) : Done(s, p, o)
           /\ \A tab, k : (\A o \in OpsOf(ops) : tab # Table(o) \/ k # o.key) => SameEntry(s, p, tab, k)
<1> DEFINE n == Len(ops)
           f == PostgresRun(s, ops)
           g == Memory!MemoryRun(AsMemory(s), ops)
           Elsewhere(i, tab, k) == \A j \in 1..i : tab # Table(ops[j]) \/ k # ops[j].key
           Holds(i) == /\ f[i] \in Stored
                       /\ g[i] = [m |-> AsMemory(f[i]), thrown |-> FALSE]
                       /\ \A j \in 1..i : Done(s, f[i], ops[j])
                       /\ \A tab, k : Elsewhere(i, tab, k) => SameEntry(s, f[i], tab, k)
           S == {i \in 0..n : Holds(i)}
<1>1. ops \in Seq(Operations) /\ n \in Nat /\ DOMAIN ops = 1..n /\ \A i \in 1..n : ops[i] \in Operations
  BY DEF Apart
<1>2. /\ f[0] = s
      /\ \A i \in 0..n : i # 0 => f[i] = IF Fails(f[i - 1]) THEN f[i - 1] ELSE ApplyOp(f[i - 1], ops[i])
  BY <1>1, PostgresRunSteps
<1>3. /\ g[0] = [m |-> AsMemory(s), thrown |-> FALSE]
      /\ \A i \in 0..n : i # 0 => g[i] = Memory!MemoryStep(g[i - 1], ops[i])
  BY <1>1, MemoryRunSteps
<1> HIDE DEF f, g, n
<1>4. 0 \in S
  <2>1. f[0] \in Stored /\ g[0] = [m |-> AsMemory(f[0]), thrown |-> FALSE]
    BY <1>2, <1>3
  <2>2. \A tab, k : SameEntry(s, f[0], tab, k)
    BY <1>2 DEF SameEntry
  <2>3. Holds(0)
    <3> HIDE DEF Elsewhere
    <3> QED BY <2>1, <2>2
  <2> HIDE DEF Holds
  <2> QED BY <1>1, <2>3, 0 \in 0..n
<1>5. ASSUME NEW i \in 0..n, i < n, i \in S
      PROVE  i + 1 \in S
  <2> DEFINE o == ops[i + 1]
  <2>1. i + 1 \in 1..n /\ i + 1 \in 0..n /\ o \in Operations /\ o \in OpsOf(ops) /\ i + 1 # 0 /\ (i + 1) - 1 = i
    BY <1>1, <1>5 DEF OpsOf
  <2>2. Holds(i)
    BY <1>5
  <2> HIDE DEF S
  <2>3. ASSUME NEW j \in 1..i, Table(o) \in Watched \/ Table(ops[j]) \in Watched
        PROVE  ~ SameRow(ops[j], o)
    <3>1. j \in DOMAIN ops /\ i + 1 \in DOMAIN ops /\ j # i + 1
      BY <1>1, <1>5, <2>1
    <3>2. Table(o) = Table(ops[j]) => Table(ops[j]) \in Watched
      BY <2>3
    <3> HIDE DEF Holds
    <3> QED BY <3>1, <3>2 DEF Apart, SameRow
  <2>4. SameEntry(s, f[i], Table(o), o.key)
    <3>1. CASE Table(o) \notin Watched
      <4> HIDE DEF Holds, o
      <4> QED BY <3>1, <2>1, EntryFacts
    <3>2. CASE Table(o) \in Watched
      <4>1. Elsewhere(i, Table(o), o.key)
        BY <2>3, <3>2 DEF SameRow
      <4> HIDE DEF o, Elsewhere
      <4> QED BY <2>2, <4>1
    <3> QED BY <3>1, <3>2
  <2>5. Ready(f[i], o)
    <3>1. Ready(s, o)
      BY <2>1
    <3> HIDE DEF Holds, o
    <3> QED BY <2>1, <2>4, <3>1, EntryFacts
  <2>6. f[i] \in Stored /\ ~ Fails(f[i])
    BY <2>2, NoError
  <2>7. f[i + 1] = ApplyOp(f[i], o)
    <3> HIDE DEF Holds
    <3> QED BY <1>2, <2>1, <2>6
  <2>8. g[i + 1] = Memory!MemoryStep([m |-> AsMemory(f[i]), thrown |-> FALSE], o)
    BY <1>3, <2>1, <2>2
  <2>9. Alike(f[i], f[i + 1], o)
    <3> HIDE DEF Holds, o
    <3> QED BY <2>1, <2>5, <2>6, <2>7, OperationAlike
  <2>10. f[i + 1] \in Stored /\ g[i + 1] = [m |-> AsMemory(f[i + 1]), thrown |-> FALSE]
    <3> HIDE DEF Holds, o
    <3> QED BY <2>8, <2>9 DEF Alike
  <2>11. Done(s, f[i + 1], o)
    <3>1. Done(f[i], f[i + 1], o)
      <4> HIDE DEF Holds, o
      <4> QED BY <2>9 DEF Alike
    <3> HIDE DEF Holds, o
    <3> QED BY <2>1, <2>4, <3>1, DoneSince
  <2>12. ASSUME NEW j \in 1..i
         PROVE  Done(s, f[i + 1], ops[j])
    <3>1. ops[j] \in Operations /\ Done(s, f[i], ops[j])
      BY <1>1, <1>5, <2>2
    <3>2. SameEntry(f[i], f[i + 1], Table(ops[j]), ops[j].key)
      <4> HIDE DEF Holds, o
      <4>1. CASE Table(ops[j]) \notin Watched
        BY <3>1, <4>1, EntryFacts
      <4>2. CASE Table(ops[j]) \in Watched
        <5>1. Table(ops[j]) # Table(o) \/ ops[j].key # o.key
          BY <2>3, <4>2 DEF SameRow
        <5> QED BY <2>9, <5>1 DEF Alike
      <4> QED BY <4>1, <4>2
    <3> HIDE DEF Holds, o
    <3> QED BY <3>1, <3>2, EntryFacts
  <2>13. ASSUME NEW tab, NEW k, Elsewhere(i + 1, tab, k)
         PROVE  SameEntry(s, f[i + 1], tab, k)
    <3>1. Elsewhere(i, tab, k) /\ (tab # Table(o) \/ k # o.key)
      BY <1>5, <2>1, <2>13
    <3>2. SameEntry(s, f[i], tab, k)
      <4> HIDE DEF Elsewhere, o
      <4> QED BY <3>1, <2>2
    <3>3. SameEntry(f[i], f[i + 1], tab, k)
      <4> HIDE DEF Elsewhere, Holds, o
      <4> QED BY <3>1, <2>9 DEF Alike
    <3> QED BY <3>2, <3>3 DEF SameEntry
  <2>14. \A j \in 1..(i + 1) : Done(s, f[i + 1], ops[j])
    <3>1. \A j \in 1..(i + 1) : j = i + 1 \/ j \in 1..i
      BY <1>5
    <3> HIDE DEF Holds
    <3> QED BY <3>1, <2>11, <2>12
  <2>15. Holds(i + 1)
    <3> HIDE DEF Elsewhere, o
    <3> QED BY <2>10, <2>13, <2>14
  <2> HIDE DEF Holds
  <2> QED BY <2>1, <2>15 DEF S
<1>6. n \in S
  <2> HIDE DEF S
  <2>1. \A i \in 0..n : i \in S
    BY <1>1, <1>4, <1>5, StepByStep
  <2> QED BY <1>1, <2>1
<1>7. Holds(n)
  BY <1>6
<1>8. \A tab, k : (\A o \in OpsOf(ops) : tab # Table(o) \/ k # o.key) => Elsewhere(n, tab, k)
  BY <1>1 DEF OpsOf
<1>9. \A o \in OpsOf(ops) : \E j \in 1..n : o = ops[j]
  BY <1>1 DEF OpsOf
<1> HIDE DEF Elsewhere, S
<1> QED BY <1>7, <1>8, <1>9 DEF f, g, n

----------------------------------------------------------------------------
(* How transactions are put together *)

\* The operations of a transaction on watched tables are those of W.
Consists(ops, W) == Apart(ops) /\ {o \in OpsOf(ops) : Table(o) \in Watched} = W

\* The empty transaction, ...
LEMMA NoOperation == Consists(<< >>, {})
BY DEF Consists, Apart, OpsOf

\* ... one operation, ...
LEMMA OneOperation ==
    ASSUME NEW o \in Operations
    PROVE  Consists(<< o >>, IF Table(o) \in Watched THEN {o} ELSE {})
<1> DEFINE ops == << o >>
<1>1. ops \in Seq(Operations) /\ DOMAIN ops = {1} /\ ops[1] = o
  OBVIOUS
<1>2. OpsOf(ops) = {o}
  BY <1>1 DEF OpsOf
<1>3. Apart(ops)
  BY <1>1 DEF Apart
<1> HIDE DEF ops
<1>4. {u \in OpsOf(ops) : Table(u) \in Watched} = IF Table(o) \in Watched THEN {o} ELSE {}
  <2>1. CASE Table(o) \in Watched
    BY <1>2, <2>1
  <2>2. CASE Table(o) \notin Watched
    BY <1>2, <2>2
  <2> QED BY <2>1, <2>2
<1> QED BY <1>3, <1>4 DEF Consists, ops

\* ... and two lists of operations on different watched rows, one after the other.
LEMMA Joined ==
    ASSUME NEW a, NEW b, NEW V, NEW W, Consists(a, V), Consists(b, W), \A o \in V, u \in W : ~ SameRow(o, u)
    PROVE  /\ Consists(a \o b, V \cup W)
           /\ a \in Seq(Operations) /\ Len(a) \in Nat
           /\ Len(a) > 0 => Len(a \o b) > 0 /\ (a \o b)[1] = a[1]
<1> DEFINE c == a \o b
           n == Len(a)
           m == Len(b)
<1>1. /\ a \in Seq(Operations) /\ b \in Seq(Operations)
      /\ n \in Nat /\ m \in Nat /\ DOMAIN a = 1..n /\ DOMAIN b = 1..m
  BY LenProperties DEF Consists, Apart
<1>2. /\ c \in Seq(Operations) /\ Len(c) = n + m
      /\ \A i \in 1..(n + m) : c[i] = IF i <= n THEN a[i] ELSE b[i - n]
  BY <1>1, ConcatProperties
<1> HIDE DEF c
<1>3. DOMAIN c = 1..(n + m)
  BY <1>2, LenProperties
<1> HIDE DEF n, m
<1>4. ASSUME NEW i \in DOMAIN c
      PROVE  \/ i \in DOMAIN a /\ c[i] = a[i]
             \/ i - n \in DOMAIN b /\ c[i] = b[i - n] /\ i > n
  BY <1>1, <1>2, <1>3
<1>5. OpsOf(c) = OpsOf(a) \cup OpsOf(b)
  <2>1. OpsOf(c) \subseteq OpsOf(a) \cup OpsOf(b)
    BY <1>4 DEF OpsOf
  <2>2. \A i \in DOMAIN a : i \in DOMAIN c /\ c[i] = a[i]
    BY <1>1, <1>2, <1>3
  <2>3. ASSUME NEW i \in DOMAIN b
        PROVE  n + i \in DOMAIN c /\ c[n + i] = b[i]
    <3>1. n + i \in 1..(n + m) /\ ~ (n + i <= n) /\ (n + i) - n = i
      BY <1>1
    <3> QED BY <1>2, <1>3, <3>1
  <2> QED BY <2>1, <2>2, <2>3 DEF OpsOf
<1>6. ASSUME NEW i \in DOMAIN c, NEW j \in DOMAIN c, i # j, Table(c[i]) \in Watched
      PROVE  ~ SameRow(c[i], c[j])
  <2>1. \A o \in OpsOf(a), u \in OpsOf(b) : Table(o) \in Watched \/ Table(u) \in Watched => ~ SameRow(o, u) /\ ~ SameRow(u, o)
    BY DEF Consists, SameRow
  <2>2. CASE i \in DOMAIN a /\ c[i] = a[i] /\ j \in DOMAIN a /\ c[j] = a[j]
    BY <1>6, <2>2 DEF Consists, Apart
  <2>3. CASE i \in DOMAIN a /\ c[i] = a[i] /\ j - n \in DOMAIN b /\ c[j] = b[j - n]
    BY <1>6, <2>1, <2>3 DEF OpsOf
  <2>4. CASE i - n \in DOMAIN b /\ c[i] = b[i - n] /\ j \in DOMAIN a /\ c[j] = a[j]
    BY <1>6, <2>1, <2>4 DEF OpsOf
  <2>5. CASE i - n \in DOMAIN b /\ c[i] = b[i - n] /\ j - n \in DOMAIN b /\ c[j] = b[j - n]
    <3>1. i - n # j - n
      BY <1>1, <1>3, <1>6
    <3> QED BY <1>6, <2>5, <3>1 DEF Consists, Apart
  <2> QED BY <1>4, <2>2, <2>3, <2>4, <2>5
<1>7. Apart(c)
  BY <1>2, <1>6 DEF Apart
<1>8. {o \in OpsOf(c) : Table(o) \in Watched} = V \cup W
  BY <1>5 DEF Consists
<1>9. n > 0 => Len(c) > 0 /\ c[1] = a[1]
  BY <1>1, <1>2
<1> QED BY <1>1, <1>7, <1>8, <1>9 DEF Consists, c, n

----------------------------------------------------------------------------
(* A transaction that commits, and one that does not *)

\* A transaction whose operations are ready commits in the database, and in memory too: executeTransaction of the two adapters.
LEMMA Committed ==
    ASSUME State \in Stored, NEW ops, NEW W, Consists(ops, W), \A o \in W : Ready(State, o),
           ExecuteTransaction(ops)
    PROVE  /\ State' \in Stored
           /\ Memory!ExecuteTransaction
           /\ \A o \in W : Done(State, State', o)
           /\ \A tab, k : (\A o \in W : tab # Table(o) \/ k # o.key) => SameEntry(State, State', tab, k)
<1> DEFINE s == State
           p == PostgresRun(s, ops)[Len(ops)]
<1>1. ASSUME NEW o \in OpsOf(ops)
      PROVE  o \in Operations /\ (Table(o) \notin Watched => Ready(s, o)) /\ Ready(s, o)
  <2>1. o \in Operations
    <3>1. \A i \in DOMAIN ops : ops[i] \in Operations
      BY DEF Consists, Apart
    <3> QED BY <3>1 DEF OpsOf
  <2>2. Table(o) \notin Watched => Ready(s, o)
    BY <2>1, TableFacts DEF Table, Watched, Ready
  <2> QED BY <2>1, <2>2 DEF Consists
<1>2. /\ p \in Stored
      /\ Memory!MemoryRun(AsMemory(s), ops)[Len(ops)] = [m |-> AsMemory(p), thrown |-> FALSE]
      /\ \A o \in OpsOf(ops) : Done(s, p, o)
      /\ \A tab, k : (\A o \in OpsOf(ops) : tab # Table(o) \/ k # o.key) => SameEntry(s, p, tab, k)
  BY <1>1, RunAlike DEF Consists
<1>3. ~ Fails(p)
  BY <1>2, NoError
<1>4. batch' = ops /\ rows' = p.rows /\ versions' = p.version /\ entries' = p.entries
  BY <1>3 DEF ExecuteTransaction
<1> HIDE DEF p
<1>5. p = [rows |-> p.rows, version |-> p.version, entries |-> p.entries]
  BY <1>2 DEF Stored
<1>6. State' = p
  BY <1>4, <1>5 DEF State
<1>7. Memory!ExecuteTransaction
  <2>1. AsMemory(s) = [rows |-> rows, version |-> versions,
                       times |-> [t \in {"history", "compensationRecords"} |->
                                    [k \in StoredIds |-> IF k \in entries[t] THEN 1 ELSE 0]]]
    BY DEF AsMemory, State
  <2>2. AsMemory(p) = [rows |-> rows', version |-> versions',
                       times |-> [t \in {"history", "compensationRecords"} |->
                                    [k \in StoredIds |-> IF k \in entries'[t] THEN 1 ELSE 0]]]
    BY <1>4 DEF AsMemory
  <2>3. AsMemory(p) = Memory!MemoryRun(AsMemory(s), ops)[Len(ops)].m
    BY <1>2
  <2> HIDE DEF s
  <2> QED BY <1>4, <2>1, <2>2, <2>3 DEF Memory!ExecuteTransaction
<1>8. \A o \in W : o \in OpsOf(ops)
  BY DEF Consists
<1>9. ASSUME NEW tab, NEW k, \A o \in W : tab # Table(o) \/ k # o.key
      PROVE  SameEntry(s, p, tab, k)
  <2>1. CASE tab \in Watched
    <3>1. \A o \in OpsOf(ops) : tab # Table(o) \/ k # o.key
      BY <1>9, <2>1 DEF Consists
    <3> QED BY <1>2, <3>1
  <2>2. CASE tab \notin Watched
    BY <2>2 DEF SameEntry, Watched, Memory!Appended
  <2> QED BY <2>1, <2>2
<1> QED BY <1>2, <1>6, <1>7, <1>8, <1>9

\* The instance has another version than it was read with: neither store changes.
LEMMA RolledBack ==
    ASSUME State \in Stored, NEW ops \in Seq(Operations), Len(ops) > 0, ops[1].op = "updateInstance",
           versions[ops[1].key] # ops[1].version, versions[ops[1].key] # 0, ExecuteTransaction(ops)
    PROVE  UNCHANGED << rows, versions, entries >> /\ Memory!ExecuteTransaction
<1> DEFINE n == Len(ops)
           s == State
           m == AsMemory(s)
           f == PostgresRun(s, ops)
           g == Memory!MemoryRun(m, ops)
           thrown == [m |-> m, thrown |-> TRUE]
           S == {i \in 0..n : i # 0 => f[i] = Error /\ g[i] = thrown}
<1>1. n \in Nat /\ n # 0 /\ ops[1] \in Operations
  BY LenProperties
<1>2. /\ f[0] = s
      /\ \A i \in 0..n : i # 0 => f[i] = IF Fails(f[i - 1]) THEN f[i - 1] ELSE ApplyOp(f[i - 1], ops[i])
  BY <1>1, PostgresRunSteps
<1>3. /\ g[0] = [m |-> m, thrown |-> FALSE]
      /\ \A i \in 0..n : i # 0 => g[i] = Memory!MemoryStep(g[i - 1], ops[i])
  BY <1>1, MemoryRunSteps
<1>4. s.version = versions /\ m.version = versions
  BY DEF State, AsMemory
<1> HIDE DEF f, g, m, s, n
<1>5. f[1] = Error
  <2>1. f[1] = ApplyOp(s, ops[1])
    <3>1. 1 \in 0..n /\ 1 # 0 /\ 1 - 1 = 0
      BY <1>1
    <3>2. ~ Fails(s)
      BY NoError DEF s
    <3> QED BY <1>2, <3>1, <3>2
  <2>2. ApplyOp(s, ops[1]) = UpdateInstanceWith(s, ops[1])
    BY ApplyFacts
  <2> QED BY <1>4, <2>1, <2>2 DEF UpdateInstanceWith
<1>6. g[1] = thrown
  <2>1. g[1] = Memory!MemoryStep([m |-> m, thrown |-> FALSE], ops[1])
    <3>1. 1 \in 0..n /\ 1 # 0 /\ 1 - 1 = 0
      BY <1>1
    <3> QED BY <1>3, <3>1
  <2>2. Memory!MemoryConflict(m, ops[1])
    BY <1>4 DEF Memory!MemoryConflict
  <2> QED BY <2>1, <2>2 DEF Memory!MemoryStep
<1> HIDE DEF thrown
<1>7. 0 \in S
  BY <1>1
<1>8. ASSUME NEW i \in 0..n, i < n, i \in S
      PROVE  i + 1 \in S
  <2>1. i + 1 \in 0..n /\ i + 1 # 0 /\ (i + 1) - 1 = i
    <3> HIDE DEF S, f, g, n
    <3>1. n \in Nat /\ i \in 0..n /\ i < n
      BY <1>1, <1>8
    <3> QED BY <3>1
  <2>2. CASE i = 0
    BY <1>5, <1>6, <2>1, <2>2
  <2>3. CASE i # 0
    <3>1. f[i] = Error /\ g[i] = thrown
      BY <1>8, <2>3
    <3>2. f[i + 1] = Error
      BY <1>2, <2>1, <3>1 DEF Fails
    <3>3. g[i + 1] = Memory!MemoryStep(thrown, ops[i + 1])
      BY <1>3, <2>1, <3>1
    <3>4. g[i + 1] = thrown
      BY <3>3 DEF Memory!MemoryStep, thrown
    <3> QED BY <2>1, <3>2, <3>4
  <2> QED BY <2>2, <2>3
<1>9. f[n] = Error /\ g[n] = thrown
  <2> HIDE DEF S
  <2>1. \A i \in 0..n : i \in S
    BY <1>1, <1>7, <1>8, StepByStep
  <2> QED BY <1>1, <2>1 DEF S
<1>10. UNCHANGED << rows, versions, entries >> /\ batch' = ops
  BY <1>9 DEF ExecuteTransaction, Fails, f, n, s
<1>11. m = [rows |-> rows, version |-> versions,
            times |-> [t \in {"history", "compensationRecords"} |->
                         [k \in StoredIds |-> IF k \in entries[t] THEN 1 ELSE 0]]]
  BY DEF AsMemory, State, m, s
<1>12. Memory!MemoryRun(m, ops)[Len(ops)].m = m
  BY <1>9 DEF g, n, thrown
<1> QED BY <1>10, <1>11, <1>12 DEF Memory!ExecuteTransaction

----------------------------------------------------------------------------
(* What the clients rely on: the tables fit together, and what was loaded is what is there unless somebody *)
(* committed since                                                                                         *)

Fits(s) ==
    \A t \in StoredTokens :
        /\ s.rows["tokens"][t] \in {Absent, "waiting", "looping", "over"}
        /\ s.rows["tokens"][t] = "over" <=> t \in s.entries["history"]
        /\ t \in s.entries["compensationRecords"] => s.rows["tokens"][t] = "over"
        /\ s.rows["tokens"][t] = Absent => s.rows["userTasks"][t] = Absent

\* s was loaded when p or something before it was there; what was loaded has lost the state of loops.
Precedes(s, p) ==
    /\ 0 < s.version[TheInstance] /\ s.version[TheInstance] <= p.version[TheInstance]
    /\ \A t \in StoredTokens : s.rows["userTasks"][t] # Absent => p.rows["userTasks"][t] # Absent
    /\ s.version[TheInstance] = p.version[TheInstance] =>
          \A t \in StoredTokens :
              /\ \/ p.rows["tokens"][t] = s.rows["tokens"][t]
                 \/ p.rows["tokens"][t] = "looping" /\ s.rows["tokens"][t] = "waiting"
              /\ p.rows["userTasks"][t] = Absent <=> s.rows["userTasks"][t] = Absent
              /\ \A tab \in Memory!Appended : t \in p.entries[tab] <=> t \in s.entries[tab]

PostgresInv ==
    /\ State \in Stored /\ Fits(State)
    /\ loaded \in [Clients -> Stored \cup {NotLoaded}]
    /\ \A c \in Clients : loaded[c] # NotLoaded => Fits(loaded[c]) /\ Precedes(loaded[c], State)

----------------------------------------------------------------------------
(* What the transactions of the clients consist of *)

\* The fields of an operation that writes, ...
LEMMA WriteFacts ==
    ASSUME NEW what \in DOMAIN Memory!TableOfOp, NEW k \in StoredIds, NEW v \in RowValues
    PROVE  /\ Write(what, k, v) \in Operations
           /\ Write(what, k, v).op = what /\ Write(what, k, v).key = k /\ Write(what, k, v).value = v
           /\ Table(Write(what, k, v)) = Memory!TableOfOp[what]
BY DEF Write, Memory!Write, Memory!Op, Operations, Table

\* ... and of one that deletes.
LEMMA DeleteFacts ==
    ASSUME NEW what \in DOMAIN Memory!TableOfOp, NEW k \in StoredIds
    PROVE  /\ Delete(what, k) \in Operations
           /\ Delete(what, k).op = what /\ Delete(what, k).key = k
           /\ Table(Delete(what, k)) = Memory!TableOfOp[what]
BY DEF Delete, Memory!Delete, Memory!Op, Operations, Table, RowValues

\* A write of a table that is not watched.
LEMMA Unwatched ==
    ASSUME NEW what \in Plain \ {"saveTokens"}, NEW k \in StoredIds
    PROVE  /\ \A v \in RowValues : Write(what, k, v) \in Operations /\ Consists(<< Write(what, k, v) >>, {})
           /\ Delete(what, k) \in Operations /\ Consists(<< Delete(what, k) >>, {})
<1>1. what \in DOMAIN Memory!TableOfOp
  BY TableFacts
<1>2. Memory!TableOfOp[what] \notin Watched
  BY TableFacts DEF Watched, Memory!Tables
<1>3. \A v \in RowValues : Write(what, k, v) \in Operations /\ Table(Write(what, k, v)) \notin Watched
  BY <1>1, <1>2, WriteFacts
<1>4. Delete(what, k) \in Operations /\ Table(Delete(what, k)) \notin Watched
  BY <1>1, <1>2, DeleteFacts
<1>5. \A v \in RowValues : Consists(<< Write(what, k, v) >>, {})
  BY <1>3, OneOperation
<1>6. Consists(<< Delete(what, k) >>, {})
  BY <1>4, OneOperation
<1> QED BY <1>3, <1>4, <1>5, <1>6

\* A write of one that is.
LEMMA WatchedWrite ==
    ASSUME NEW what \in {"createInstance", "createUserTask", "updateUserTask", "saveTokens", "appendHistory",
                         "saveCompensationRecord"},
           NEW k \in StoredIds, NEW v \in RowValues
    PROVE  /\ Write(what, k, v) \in Operations
           /\ Write(what, k, v).op = what /\ Write(what, k, v).key = k /\ Write(what, k, v).value = v
           /\ Table(Write(what, k, v)) = Memory!TableOfOp[what]
           /\ Consists(<< Write(what, k, v) >>, {Write(what, k, v)})
<1>1. what \in DOMAIN Memory!TableOfOp
  BY TableFacts DEF Plain
<1>2. Memory!TableOfOp[what] \in Watched
  BY TableFacts DEF Watched, Plain
<1>3. Write(what, k, v) \in Operations /\ Table(Write(what, k, v)) \in Watched
  BY <1>1, <1>2, WriteFacts
<1>4. Consists(<< Write(what, k, v) >>, {Write(what, k, v)})
  BY <1>3, OneOperation
<1> QED BY <1>1, <1>4, WriteFacts

\* Nothing watched is joined to anything.
LEMMA JoinedQuietly ==
    ASSUME NEW a, NEW b, NEW W, Consists(b, {}), Consists(a, W)
    PROVE  /\ Consists(a \o b, W)
           /\ Consists(b \o a, W)
           /\ a \in Seq(Operations) /\ Len(a) \in Nat
           /\ Len(a) > 0 => Len(a \o b) > 0 /\ (a \o b)[1] = a[1]
<1>1. W \cup {} = W /\ {} \cup W = W
  OBVIOUS
<1>2. Consists(a \o b, W \cup {}) /\ a \in Seq(Operations) /\ Len(a) \in Nat
      /\ (Len(a) > 0 => Len(a \o b) > 0 /\ (a \o b)[1] = a[1])
  BY Joined
<1>3. Consists(b \o a, {} \cup W)
  BY Joined
<1> QED BY <1>1, <1>2, <1>3

TokenWrite(t, status) == Write("saveTokens", t, status)
TaskCreated(t) == Write("createUserTask", t, "open")
TaskUpdated(t, status) == Write("updateUserTask", t, status)
StepEntry(t) == Write("appendHistory", t, "over")
Recorded(t) == Write("saveCompensationRecord", t, "over")
UsedUp(t) == Delete("deleteCompensationRecord", t)

\* How a token that comes to wait is written.
ComesAs == {"waiting", "looping"}

\* What is watched when a token comes to wait: the token, and the record if it waits for a user.
LEMMA Arrival ==
    ASSUME NEW t \in StoredTokens, NEW for \in Waits
    PROVE  \/ \E v \in ComesAs : Consists(Arrives(t, for), {TokenWrite(t, v)})
           \/ Consists(Arrives(t, for), {TokenWrite(t, "waiting"), TaskCreated(t)})
<1> DEFINE w == TokenWrite(t, "waiting")
<1>1. t \in StoredIds /\ TheInstance \in StoredIds /\ {"waiting", "looping", "open", "active"} \subseteq RowValues
  BY DEF StoredIds, RowValues
<1>2. Consists(<< w >>, {w}) /\ w \in Operations /\ Table(w) = "tokens"
  BY <1>1, WatchedWrite, TableFacts DEF TokenWrite
<1>3. \A x : << w, x >> = << w >> \o << x >>
  OBVIOUS
<1>4. CASE for = "user"
  <2> DEFINE x == TaskCreated(t)
  <2>1. Consists(<< x >>, {x}) /\ Table(x) = "userTasks"
    BY <1>1, WatchedWrite, TableFacts DEF TaskCreated
  <2>2. ~ SameRow(w, x)
    BY <1>2, <2>1 DEF SameRow
  <2>3. {w} \cup {x} = {w, x}
    OBVIOUS
  <2>4. Arrives(t, for) = << w, x >>
    BY <1>4 DEF Arrives, TokenWrite, TaskCreated
  <2> HIDE DEF w, x
  <2>5. Consists(<< w >> \o << x >>, {w} \cup {x})
    BY <1>2, <2>1, <2>2, Joined
  <2> QED BY <1>3, <2>3, <2>4, <2>5 DEF w, x
<1>6. CASE for = "items"
  <2>1. Consists(<< TokenWrite(t, "looping") >>, {TokenWrite(t, "looping")})
    BY <1>1, WatchedWrite DEF TokenWrite
  <2> QED BY <1>6, <2>1 DEF Arrives, TokenWrite, ComesAs
<1>5. CASE for \notin {"user", "items"}
  <2>1. PICK x : Arrives(t, for) = << w, x >> /\ Consists(<< x >>, {})
    <3>1. CASE for = "message"
      BY <1>1, <3>1, Unwatched DEF Arrives, TokenWrite, Plain
    <3>2. CASE for = "timer"
      BY <1>1, <3>2, Unwatched DEF Arrives, TokenWrite, Plain
    <3>3. CASE for = "join"
      BY <1>1, <3>3, Unwatched DEF Arrives, TokenWrite, Plain
    <3> QED BY <1>5, <3>1, <3>2, <3>3 DEF Waits
  <2> HIDE DEF w
  <2>2. Consists(<< w >> \o << x >>, {w})
    BY <1>2, <2>1, JoinedQuietly
  <2> QED BY <1>3, <2>1, <2>2 DEF w, ComesAs
<1> QED BY <1>4, <1>5, <1>6

\* What the operations on watched tables are.
IsOp(o, what, table, k) == o \in Operations /\ o.op = what /\ Table(o) = table /\ o.key = k

\* What the watched operations of the clients are.
LEMMA Kinds ==
    ASSUME NEW t \in StoredIds
    PROVE  /\ \A v \in {"waiting", "looping", "over"} :
                 IsOp(TokenWrite(t, v), "saveTokens", "tokens", t) /\ TokenWrite(t, v).value = v
           /\ IsOp(TaskCreated(t), "createUserTask", "userTasks", t) /\ TaskCreated(t).value = "open"
           /\ \A v \in {"open", "completed"} :
                 IsOp(TaskUpdated(t, v), "updateUserTask", "userTasks", t) /\ TaskUpdated(t, v).value = v
           /\ IsOp(StepEntry(t), "appendHistory", "history", t)
           /\ IsOp(Recorded(t), "saveCompensationRecord", "compensationRecords", t)
           /\ IsOp(UsedUp(t), "deleteCompensationRecord", "compensationRecords", t)
<1>1. {"over", "waiting", "looping", "open", "completed"} \subseteq RowValues
  BY DEF RowValues
<1>2. {"saveTokens", "createUserTask", "updateUserTask", "appendHistory", "saveCompensationRecord",
       "deleteCompensationRecord"} \subseteq DOMAIN Memory!TableOfOp
  BY TableFacts DEF Plain
<1>3. \A v \in {"waiting", "looping", "over"} : IsOp(TokenWrite(t, v), "saveTokens", "tokens", t) /\ TokenWrite(t, v).value = v
  BY <1>1, <1>2, WriteFacts, TableFacts DEF TokenWrite, IsOp
<1>4. IsOp(TaskCreated(t), "createUserTask", "userTasks", t) /\ TaskCreated(t).value = "open"
  BY <1>1, <1>2, WriteFacts, TableFacts DEF TaskCreated, IsOp
<1>5. \A v \in {"open", "completed"} :
         IsOp(TaskUpdated(t, v), "updateUserTask", "userTasks", t) /\ TaskUpdated(t, v).value = v
  BY <1>1, <1>2, WriteFacts, TableFacts DEF TaskUpdated, IsOp
<1>6. IsOp(StepEntry(t), "appendHistory", "history", t)
  BY <1>1, <1>2, WriteFacts, TableFacts DEF StepEntry, IsOp
<1>7. IsOp(Recorded(t), "saveCompensationRecord", "compensationRecords", t)
  BY <1>1, <1>2, WriteFacts, TableFacts DEF Recorded, IsOp
<1>8. IsOp(UsedUp(t), "deleteCompensationRecord", "compensationRecords", t)
  BY <1>2, DeleteFacts, TableFacts DEF UsedUp, IsOp
<1> QED BY <1>3, <1>4, <1>5, <1>6, <1>7, <1>8

\* Alone, any of them is a transaction that consists of it.
LEMMA Alone ==
    ASSUME NEW o \in Operations, Table(o) \in Watched
    PROVE  Consists(<< o >>, {o})
BY OneOperation

Expects(s) == Memory!Op("updateInstance", TheInstance, "active", s.version[TheInstance])

\* updateInstance with the version that was read.
LEMMA ExpectsFacts ==
    ASSUME NEW s \in Stored
    PROVE  /\ Expects(s) \in Operations
           /\ Expects(s).op = "updateInstance" /\ Expects(s).key = TheInstance
           /\ Expects(s).version = s.version[TheInstance] /\ s.version[TheInstance] \in Nat
           /\ Table(Expects(s)) = "instances" /\ Consists(<< Expects(s) >>, {Expects(s)})
<1>1. "updateInstance" \in DOMAIN Memory!TableOfOp /\ Memory!TableOfOp["updateInstance"] = "instances"
  BY TableFacts
<1>2. TheInstance \in StoredIds /\ "active" \in RowValues
  BY DEF StoredIds, RowValues
<1>3. s.version[TheInstance] \in Nat
  BY <1>2 DEF Stored
<1>4. Expects(s) \in Operations /\ Table(Expects(s)) = "instances"
  BY <1>1, <1>2, <1>3 DEF Expects, Memory!Op, Operations, Table
<1>5. Consists(<< Expects(s) >>, {Expects(s)})
  BY <1>4, OneOperation DEF Watched
<1> QED BY <1>3, <1>4, <1>5 DEF Expects, Memory!Op

\* Two lists of one element are a list of two.
LEMMA TwoTogether ==
    ASSUME NEW x, NEW y
    PROVE  << x >> \o << y >> = << x, y >>
<1> DEFINE S == {x, y}
           a == << x >>
           b == << y >>
           c == << x, y >>
<1>1. a \in Seq(S) /\ b \in Seq(S) /\ Len(a) = 1 /\ Len(b) = 1 /\ a[1] = x /\ b[1] = y
  OBVIOUS
<1>2. c \in Seq(S) /\ Len(c) = 2 /\ c[1] = x /\ c[2] = y
  OBVIOUS
<1> HIDE DEF S, a, b, c
<1>3. /\ a \o b \in Seq(S) /\ Len(a \o b) = Len(a) + Len(b)
      /\ \A i \in 1..(Len(a) + Len(b)) : (a \o b)[i] = IF i <= Len(a) THEN a[i] ELSE b[i - Len(a)]
  BY <1>1, ConcatProperties
<1>4. (a \o b)[1] = x /\ (a \o b)[2] = y
  BY <1>1, <1>3
<1>5. a \o b = c
  BY <1>1, <1>2, <1>3, <1>4, SeqEqual
<1> QED BY <1>5 DEF a, b, c

\* The instance first, then the token that leaves, then what it leaves behind.
LEMMA Departure ==
    ASSUME NEW s \in Stored, NEW t \in StoredTokens
    PROVE  /\ Consists(ComputeStoreOps(s, t), {Expects(s), TokenWrite(t, "over"), StepEntry(t)})
           /\ Len(ComputeStoreOps(s, t)) > 0 /\ ComputeStoreOps(s, t)[1] = Expects(s)
<1> DEFINE u == Expects(s)
           w == TokenWrite(t, "over")
           h == StepEntry(t)
           sc == Write("saveScope", TheInstance, "active")
           first == << u, w, sc >>
           G == IF s.rows["gatewayStates"][TheInstance] # Absent THEN << Delete("deleteGatewayState", TheInstance) >> ELSE << >>
           B == IF s.rows["subscriptions"][t] # Absent THEN << Delete("deleteSubscription", t) >> ELSE << >>
           T == IF s.rows["timers"][t] # Absent THEN << Delete("deleteTimer", t) >> ELSE << >>
<1>1. t \in StoredIds /\ TheInstance \in StoredIds /\ {"over", "active"} \subseteq RowValues
  BY DEF StoredIds, RowValues
<1>2. Consists(<< u >>, {u}) /\ Table(u) = "instances"
  BY ExpectsFacts
<1>3. Consists(<< w >>, {w}) /\ Table(w) = "tokens"
  <2>1. IsOp(w, "saveTokens", "tokens", t)
    BY <1>1, Kinds
  <2> HIDE DEF w
  <2> QED BY <2>1, Alone DEF IsOp, Watched
<1>4. Consists(<< h >>, {h}) /\ Table(h) = "history"
  <2>1. IsOp(h, "appendHistory", "history", t)
    BY <1>1, Kinds
  <2> HIDE DEF h
  <2> QED BY <2>1, Alone DEF IsOp, Watched
<1>5. Consists(<< sc >>, {}) /\ Consists(G, {}) /\ Consists(B, {}) /\ Consists(T, {})
  <2>1. {"saveScope", "deleteGatewayState", "deleteSubscription", "deleteTimer"} \subseteq Plain \ {"saveTokens"}
    BY DEF Plain
  <2>2. Consists(<< sc >>, {})
    BY <1>1, <2>1, Unwatched
  <2>3. Consists(G, {})
    BY <1>1, <2>1, Unwatched, NoOperation
  <2>4. Consists(B, {})
    BY <1>1, <2>1, Unwatched, NoOperation
  <2>5. Consists(T, {})
    BY <1>1, <2>1, Unwatched, NoOperation
  <2> QED BY <2>2, <2>3, <2>4, <2>5
<1>6. ComputeStoreOps(s, t) = (((first \o G) \o B) \o T) \o << h >>
  BY DEF ComputeStoreOps, Expects, TokenWrite, StepEntry, DeriveHistory
<1> HIDE DEF u, w, h, sc, G, B, T
<1>7. ~ SameRow(u, w) /\ ~ SameRow(u, h) /\ ~ SameRow(w, h)
  BY <1>2, <1>3, <1>4 DEF SameRow
<1>8. Consists(first, {u, w}) /\ Len(first) > 0 /\ first[1] = u
  <2>1. Consists(<< u >> \o << w >>, {u} \cup {w})
    <3> DEFINE a == << u >>
               b == << w >>
               V == {u}
               W == {w}
    <3>1. \A o \in V, x \in W : ~ SameRow(o, x)
      BY <1>7
    <3>2. Consists(a, V) /\ Consists(b, W)
      BY <1>2, <1>3
    <3> HIDE DEF a, b, V, W
    <3>3. Consists(a \o b, V \cup W)
      BY <3>1, <3>2, Joined
    <3> QED BY <3>3 DEF a, b, V, W
  <2> DEFINE both == << u >> \o << w >>
  <2>2. both = << u, w >> /\ {u} \cup {w} = {u, w}
    <3>1. both = << u, w >>
      BY TwoTogether
    <3>2. {u} \cup {w} = {u, w}
      OBVIOUS
    <3> QED BY <3>1, <3>2
  <2>3. first = << u, w >> \o << sc >> /\ Len(first) > 0 /\ first[1] = u
    OBVIOUS
  <2>4. Consists(<< u, w >>, {u, w})
    BY <2>1, <2>2
  <2>5. Consists(<< sc >>, {})
    BY <1>5
  <2>6. Consists(<< u, w >> \o << sc >>, {u, w})
    BY <2>4, <2>5, JoinedQuietly
  <2> HIDE DEF first
  <2> QED BY <2>3, <2>6
<1> HIDE DEF first
<1> DEFINE g == first \o G
           b == g \o B
           d == b \o T
<1>9. Consists(g, {u, w}) /\ Len(g) > 0 /\ g[1] = u
  BY <1>5, <1>8, JoinedQuietly
<1> HIDE DEF g
<1>10. Consists(b, {u, w}) /\ Len(b) > 0 /\ b[1] = u
  BY <1>5, <1>9, JoinedQuietly
<1> HIDE DEF b
<1>11. Consists(d, {u, w}) /\ Len(d) > 0 /\ d[1] = u
  BY <1>5, <1>10, JoinedQuietly
<1> HIDE DEF d
<1>12. /\ Consists(d \o << h >>, {u, w} \cup {h})
       /\ Len(d) > 0 => Len(d \o << h >>) > 0 /\ (d \o << h >>)[1] = d[1]
  BY <1>4, <1>7, <1>11, Joined
<1>13. {u, w} \cup {h} = {u, w, h}
  OBVIOUS
<1> QED BY <1>6, <1>11, <1>12, <1>13 DEF d, b, g, u, w, h

\* What else is watched in a cycle: the tokens that did not move, a compensation record, a token that comes to wait,
\* the record that is closed.
Others(s, t) == Tok(s, "waiting") \ {t}
Rewritten(q) == {TokenWrite(q[i], "waiting") : i \in DOMAIN q}
Compensated(s, t) == {{}, {Recorded(t)}} \cup {{UsedUp(u)} : u \in s.entries["compensationRecords"]}
Arrived(s) == {{}} \cup {{TokenWrite(u, v)} : u \in Next1(s), v \in ComesAs}
              \cup {{TokenWrite(u, "waiting"), TaskCreated(u)} : u \in Next1(s)}
Closed(s, t) == IF s.rows["userTasks"][t] # Absent THEN {TaskUpdated(t, "completed")} ELSE {}

Arrivals(s) == {<< >>} \cup {Arrives(u, for) : u \in Next1(s), for \in Waits}

\* The five parts of such a transaction, in the tables they are about.
Leaving(ops, W, t) ==
    Consists(ops, W) /\ \A o \in W : Table(o) \in {"instances", "tokens", "history"} /\ (Table(o) = "tokens" => o.key = t)
Recording(ops, W) == Consists(ops, W) /\ \A o \in W : Table(o) = "compensationRecords"
Staying(ops, W, s, t) == Consists(ops, W) /\ \A o \in W : Table(o) = "tokens" /\ o.key \in Others(s, t)
Coming(ops, W, s) == Consists(ops, W) /\ \A o \in W : Table(o) \in {"tokens", "userTasks"} /\ o.key \notin Tok(s, "waiting")
Closing(ops, W, t) == Consists(ops, W) /\ \A o \in W : Table(o) = "userTasks" /\ o.key = t

\* What is watched when an activity can be compensated, or is.
LEMMA CompensationBatch ==
    ASSUME NEW s \in Stored, NEW t \in StoredTokens, NEW k \in Compensations(s, t)
    PROVE  \E K \in Compensated(s, t) : Recording(k, K)
<1>1. t \in StoredIds
  BY DEF StoredIds
<1>2. CASE k = << >>
  <2>1. {} \in Compensated(s, t)
    BY DEF Compensated
  <2> QED BY <1>2, <2>1, NoOperation DEF Recording
<1>3. CASE k = << Recorded(t) >>
  <2>1. IsOp(Recorded(t), "saveCompensationRecord", "compensationRecords", t)
    BY <1>1, Kinds
  <2>2. Consists(<< Recorded(t) >>, {Recorded(t)}) /\ {Recorded(t)} \in Compensated(s, t)
    BY <2>1, Alone DEF IsOp, Watched, Compensated
  <2> QED BY <1>3, <2>1, <2>2 DEF IsOp, Recording
<1>4. ASSUME NEW u \in s.entries["compensationRecords"], k = << UsedUp(u) >>
      PROVE  \E K \in Compensated(s, t) : Recording(k, K)
  <2>1. u \in StoredIds
    BY DEF Stored, Memory!Appended
  <2>2. IsOp(UsedUp(u), "deleteCompensationRecord", "compensationRecords", u)
    BY <2>1, Kinds
  <2>3. Consists(<< UsedUp(u) >>, {UsedUp(u)}) /\ {UsedUp(u)} \in Compensated(s, t)
    BY <2>2, Alone DEF IsOp, Watched, Compensated
  <2> QED BY <1>4, <2>2, <2>3 DEF IsOp, Recording
<1> QED BY <1>2, <1>3, <1>4 DEF Compensations, Recorded, UsedUp

\* What is watched when the tokens that did not move are written again.
LEMMA StayingBatch ==
    ASSUME NEW s \in Stored, NEW t, NEW q \in Listings(Others(s, t))
    PROVE  LET again == [i \in DOMAIN q |-> Write("saveTokens", q[i], "waiting")] IN
           Staying(again, Rewritten(q), s, t)
<1> DEFINE n == Cardinality(Others(s, t))
           again == [i \in DOMAIN q |-> Write("saveTokens", q[i], "waiting")]
<1>1. /\ q \in [1..n -> Others(s, t)] /\ DOMAIN q = 1..n
      /\ \A i, j \in 1..n : i < j => q[i] < q[j]
  BY DEF Listings
<1>2. \A i \in 1..n : q[i] \in Others(s, t) /\ q[i] \in StoredTokens /\ q[i] \in StoredIds /\ q[i] \in Nat
  BY <1>1, PostgresAssumption DEF Others, Tok, StoredIds
<1>3. again = [i \in 1..n |-> TokenWrite(q[i], "waiting")]
  BY <1>1 DEF TokenWrite
<1>4. \A i \in 1..n : IsOp(TokenWrite(q[i], "waiting"), "saveTokens", "tokens", q[i])
  BY <1>2, Kinds
<1>5. n \in Nat
  <2>1. Others(s, t) \subseteq StoredTokens
    BY DEF Others, Tok
  <2>2. IsFiniteSet(Others(s, t))
    BY <2>1, PostgresAssumption, FS_Subset
  <2> QED BY <2>2, FS_CardinalityType
<1> HIDE DEF n, again
<1>6. again \in Seq(Operations) /\ DOMAIN again = 1..n
  BY <1>3, <1>4, <1>5 DEF IsOp
<1>7. \A i \in 1..n : again[i] = TokenWrite(q[i], "waiting") /\ Table(again[i]) = "tokens" /\ again[i].key = q[i]
  BY <1>3, <1>4 DEF IsOp
<1>8. Apart(again)
  <2>1. \A i, j \in 1..n : i # j => q[i] # q[j]
    <3> SUFFICES ASSUME NEW i \in 1..n, NEW j \in 1..n, i # j
                 PROVE  q[i] # q[j]
      OBVIOUS
    <3>1. q[i] \in Nat /\ q[j] \in Nat /\ (i < j \/ j < i)
      BY <1>2, <1>5
    <3> QED BY <1>1, <3>1
  <2>2. \A i, j \in 1..n : i # j => ~ SameRow(again[i], again[j])
    BY <1>7, <2>1 DEF SameRow
  <2> QED BY <1>6, <2>2 DEF Apart
<1>9. {o \in OpsOf(again) : Table(o) \in Watched} = Rewritten(q)
  <2>1. OpsOf(again) = Rewritten(q)
    BY <1>1, <1>6, <1>7 DEF OpsOf, Rewritten
  <2>2. \A o \in OpsOf(again) : Table(o) \in Watched
    BY <1>6, <1>7 DEF OpsOf, Watched
  <2> QED BY <2>1, <2>2
<1>10. \A o \in Rewritten(q) : Table(o) = "tokens" /\ o.key \in Others(s, t)
  BY <1>1, <1>2, <1>4 DEF Rewritten, IsOp
<1> QED BY <1>8, <1>9, <1>10 DEF Staying, Consists, again

\* What is watched when a token comes to wait in a cycle, or none does.
LEMMA ArrivalBatch ==
    ASSUME NEW s \in Stored, NEW arrival \in Arrivals(s)
    PROVE  \E A \in Arrived(s) : Coming(arrival, A, s)
<1>1. CASE arrival = << >>
  <2>1. {} \in Arrived(s)
    BY DEF Arrived
  <2> QED BY <1>1, <2>1, NoOperation DEF Coming
<1>2. ASSUME NEW u \in Next1(s), NEW for \in Waits, arrival = Arrives(u, for)
      PROVE  \E A \in Arrived(s) : Coming(arrival, A, s)
  <2>1. u \in StoredTokens /\ u \notin Tok(s, "waiting") /\ u \in StoredIds
    BY PostgresAssumption DEF Next1, Tok, StoredIds
  <2>2. (\A v \in ComesAs : IsOp(TokenWrite(u, v), "saveTokens", "tokens", u))
        /\ IsOp(TaskCreated(u), "createUserTask", "userTasks", u)
    BY <2>1, Kinds DEF ComesAs
  <2>3. (\A v \in ComesAs : {TokenWrite(u, v)} \in Arrived(s)) /\ {TokenWrite(u, "waiting"), TaskCreated(u)} \in Arrived(s)
    BY DEF Arrived
  <2>4. \/ \E v \in ComesAs : Consists(arrival, {TokenWrite(u, v)})
        \/ Consists(arrival, {TokenWrite(u, "waiting"), TaskCreated(u)})
    BY <1>2, <2>1, Arrival
  <2>5. CASE \E v \in ComesAs : Consists(arrival, {TokenWrite(u, v)})
    <3>1. PICK v \in ComesAs : Consists(arrival, {TokenWrite(u, v)})
      BY <2>5
    <3>2. \A o \in {TokenWrite(u, v)} : Table(o) \in {"tokens", "userTasks"} /\ o.key \notin Tok(s, "waiting")
      BY <2>1, <2>2 DEF IsOp
    <3> QED BY <2>3, <3>1, <3>2 DEF Coming
  <2>6. CASE Consists(arrival, {TokenWrite(u, "waiting"), TaskCreated(u)})
    <3>1. \A o \in {TokenWrite(u, "waiting"), TaskCreated(u)} :
             Table(o) \in {"tokens", "userTasks"} /\ o.key \notin Tok(s, "waiting")
      BY <2>1, <2>2 DEF IsOp, ComesAs
    <3> QED BY <2>3, <2>6, <3>1 DEF Coming
  <2> QED BY <2>4, <2>5, <2>6
<1> QED BY <1>1, <1>2 DEF Arrivals

\* What is watched when a token moves on.
LEMMA DepartureTables ==
    ASSUME NEW s \in Stored, NEW t \in StoredIds
    PROVE  \A o \in {Expects(s), TokenWrite(t, "over"), StepEntry(t)} :
              Table(o) \in {"instances", "tokens", "history"} /\ (Table(o) = "tokens" => o.key = t)
<1>1. Table(Expects(s)) = "instances"
  BY ExpectsFacts
<1>2. IsOp(TokenWrite(t, "over"), "saveTokens", "tokens", t) /\ IsOp(StepEntry(t), "appendHistory", "history", t)
  BY Kinds
<1> QED BY <1>1, <1>2 DEF IsOp

\* What is watched when the record of the token is closed.
LEMMA ClosingBatch ==
    ASSUME NEW s \in Stored, NEW t \in StoredIds
    PROVE  LET task == IF s.rows["userTasks"][t] # Absent THEN << TaskUpdated(t, "completed") >> ELSE << >> IN
           Closing(task, Closed(s, t), t)
<1> DEFINE x == TaskUpdated(t, "completed")
<1>1. IsOp(x, "updateUserTask", "userTasks", t)
  BY Kinds
<1>2. Closed(s, t) = (IF s.rows["userTasks"][t] # Absent THEN {x} ELSE {})
  BY DEF Closed
<1> HIDE DEF x
<1>3. Consists(<< x >>, {x})
  BY <1>1, Alone DEF IsOp, Watched
<1>4. CASE s.rows["userTasks"][t] # Absent
  BY <1>1, <1>2, <1>3, <1>4 DEF IsOp, x, Closing
<1>5. CASE s.rows["userTasks"][t] = Absent
  BY <1>2, <1>5, NoOperation DEF Closing
<1> QED BY <1>4, <1>5

\* What a client sends for a cycle.
CycleOps(s, t, again, k, arrival) ==
    ComputeStoreOps(s, t) \o again \o k \o arrival
      \o (IF s.rows["userTasks"][t] # Absent THEN << TaskUpdated(t, "completed") >> ELSE << >>)

CycleMarks(s, t, R, K, A) ==
    (((({Expects(s), TokenWrite(t, "over"), StepEntry(t)} \cup R) \cup K) \cup A) \cup Closed(s, t))

\* The tokens that did not move, in some order.
Stays(s, t) == {Rewritten(q) : q \in Listings(Others(s, t))}

\* computeStoreOps: no watched row twice, and updateInstance first.
LEMMA CycleBatch ==
    ASSUME NEW s \in Stored, NEW t \in Tok(s, "waiting"), NEW arrival \in Arrivals(s), NEW k \in Compensations(s, t),
           NEW again \in SavedAgain(s, t)
    PROVE  LET ops == CycleOps(s, t, again, k, arrival) IN
           \E R \in Stays(s, t), K \in Compensated(s, t), A \in Arrived(s) :
              /\ Consists(ops, CycleMarks(s, t, R, K, A))
              /\ ops \in Seq(Operations) /\ Len(ops) > 0 /\ ops[1] = Expects(s)
<1> DEFINE task == IF s.rows["userTasks"][t] # Absent THEN << TaskUpdated(t, "completed") >> ELSE << >>
           C == ComputeStoreOps(s, t)
           W == {Expects(s), TokenWrite(t, "over"), StepEntry(t)}
           ops == CycleOps(s, t, again, k, arrival)
<1>1. t \in StoredTokens /\ s.rows["tokens"][t] = "waiting" /\ t \in StoredIds
  BY DEF Tok, StoredIds
<1>2. PICK K \in Compensated(s, t) : Recording(k, K)
  BY <1>1, CompensationBatch
<1>3. PICK A \in Arrived(s) : Coming(arrival, A, s)
  BY <1>1, ArrivalBatch
<1>9. PICK R \in Stays(s, t) : Staying(again, R, s, t)
  <2>1. PICK q \in Listings(Others(s, t)) : again = [i \in DOMAIN q |-> Write("saveTokens", q[i], "waiting")]
    BY DEF SavedAgain, Others
  <2> QED BY <2>1, StayingBatch DEF Stays
<1>4. Closing(task, Closed(s, t), t)
  BY <1>1, ClosingBatch
<1>5. ops = C \o again \o k \o arrival \o task
  BY DEF CycleOps
<1>6. Leaving(C, W, t) /\ Len(C) > 0 /\ C[1] = Expects(s)
  BY <1>1, Departure, DepartureTables DEF Leaving
<1> HIDE DEF task, C, W, ops
<1>10. t \in Tok(s, "waiting") /\ t \notin Others(s, t) /\ Others(s, t) \subseteq Tok(s, "waiting")
  BY DEF Others
<1>7. /\ Consists(ops, (((W \cup R) \cup K) \cup A) \cup Closed(s, t))
      /\ ops \in Seq(Operations) /\ Len(ops) > 0 /\ ops[1] = C[1]
  <2> DEFINE v == C \o again
             x == v \o k
             y == x \o arrival
             z == y \o task
  <2>0. Consists(v, W \cup R) /\ Len(v) > 0 /\ v[1] = C[1]
    <3>1. \A o \in W, u \in R : ~ SameRow(o, u)
      <4> SUFFICES ASSUME NEW o \in W, NEW u \in R
                   PROVE  Table(o) # Table(u) \/ o.key # u.key
        BY DEF SameRow
      <4> HIDE DEF Table
      <4> QED BY <1>6, <1>9, <1>10 DEF Leaving, Staying
    <3>2. /\ Consists(v, W \cup R)
          /\ Len(C) > 0 => Len(v) > 0 /\ v[1] = C[1]
      BY <1>6, <1>9, <3>1, Joined DEF Leaving, Staying
    <3> QED BY <1>6, <3>2
  <2> HIDE DEF v
  <2>1. Consists(x, (W \cup R) \cup K) /\ Len(x) > 0 /\ x[1] = C[1]
    <3>1. \A o \in W \cup R, u \in K : ~ SameRow(o, u)
      <4> SUFFICES ASSUME NEW o \in W \cup R, NEW u \in K
                   PROVE  Table(o) # Table(u)
        BY DEF SameRow
      <4> HIDE DEF Table
      <4> QED BY <1>2, <1>6, <1>9 DEF Leaving, Recording, Staying
    <3>2. /\ Consists(x, (W \cup R) \cup K)
          /\ Len(v) > 0 => Len(x) > 0 /\ x[1] = v[1]
      BY <1>2, <2>0, <3>1, Joined DEF Recording
    <3> QED BY <2>0, <3>2
  <2> HIDE DEF x
  <2>2. Consists(y, ((W \cup R) \cup K) \cup A) /\ Len(y) > 0 /\ y[1] = C[1]
    <3>1. \A o \in (W \cup R) \cup K, u \in A : ~ SameRow(o, u)
      <4> SUFFICES ASSUME NEW o \in (W \cup R) \cup K, NEW u \in A
                   PROVE  Table(o) # Table(u) \/ o.key # u.key
        BY DEF SameRow
      <4> HIDE DEF Table
      <4> QED BY <1>2, <1>3, <1>4, <1>6, <1>9, <1>10 DEF Leaving, Staying, Recording, Coming, Closing
    <3>2. /\ Consists(y, ((W \cup R) \cup K) \cup A)
          /\ Len(x) > 0 => Len(y) > 0 /\ y[1] = x[1]
      BY <2>1, <3>1, <1>3, Joined DEF Coming
    <3> QED BY <2>1, <3>2
  <2> HIDE DEF y
  <2>3. Consists(z, (((W \cup R) \cup K) \cup A) \cup Closed(s, t)) /\ Len(z) > 0 /\ z[1] = C[1]
    <3>1. \A o \in ((W \cup R) \cup K) \cup A, u \in Closed(s, t) : ~ SameRow(o, u)
      <4> SUFFICES ASSUME NEW o \in ((W \cup R) \cup K) \cup A, NEW u \in Closed(s, t)
                   PROVE  Table(o) # Table(u) \/ o.key # u.key
        BY DEF SameRow
      <4> HIDE DEF Table
      <4> QED BY <1>2, <1>3, <1>4, <1>6, <1>9, <1>10 DEF Leaving, Staying, Recording, Coming, Closing
    <3>2. /\ Consists(z, (((W \cup R) \cup K) \cup A) \cup Closed(s, t))
          /\ Len(y) > 0 => Len(z) > 0 /\ z[1] = y[1]
      BY <2>2, <3>1, <1>4, Joined DEF Closing
    <3> QED BY <2>2, <3>2
  <2>4. z \in Seq(Operations)
    BY <2>3 DEF Consists, Apart
  <2>5. ops = z
    BY <1>5 DEF v, x, y
  <2> HIDE DEF z
  <2> QED BY <2>3, <2>4, <2>5
<1>8. (((W \cup R) \cup K) \cup A) \cup Closed(s, t) = CycleMarks(s, t, R, K, A)
  BY DEF W, CycleMarks
<1> QED BY <1>6, <1>7, <1>8 DEF ops

\* What the watched operations of a cycle can be.
LEMMA MarksFacts ==
    ASSUME NEW s \in Stored, NEW t \in Tok(s, "waiting"), NEW R \in Stays(s, t), NEW K \in Compensated(s, t), NEW A \in Arrived(s)
    PROVE  LET W == CycleMarks(s, t, R, K, A) IN
           /\ Expects(s) \in W /\ TokenWrite(t, "over") \in W /\ StepEntry(t) \in W
           /\ \A o \in W :
                 \/ o = Expects(s)
                 \/ o = TokenWrite(t, "over")
                 \/ \E u \in Others(s, t) : o = TokenWrite(u, "waiting")
                 \/ \E u \in Next1(s), v \in ComesAs : o = TokenWrite(u, v)
                 \/ \E u \in Next1(s) : o = TaskCreated(u) /\ TokenWrite(u, "waiting") \in W
                 \/ o = TaskUpdated(t, "completed") /\ s.rows["userTasks"][t] # Absent
                 \/ o = StepEntry(t)
                 \/ o = Recorded(t)
                 \/ \E u \in StoredIds : o = UsedUp(u)
<1> DEFINE W == CycleMarks(s, t, R, K, A)
<1>1. Expects(s) \in W /\ TokenWrite(t, "over") \in W /\ StepEntry(t) \in W
  BY DEF CycleMarks
<1>2. \A o \in K : o = Recorded(t) \/ \E u \in StoredIds : o = UsedUp(u)
  BY DEF Compensated, Stored, Memory!Appended
<1>6. \A o \in R : \E u \in Others(s, t) : o = TokenWrite(u, "waiting")
  BY DEF Stays, Rewritten, Listings
<1>3. \A o \in A : \/ \E u \in Next1(s), v \in ComesAs : o = TokenWrite(u, v)
                  \/ \E u \in Next1(s) : o = TaskCreated(u) /\ TokenWrite(u, "waiting") \in A
  <2>1. \/ A = {}
        \/ \E u \in Next1(s), v \in ComesAs : A = {TokenWrite(u, v)}
        \/ \E u \in Next1(s) : A = {TokenWrite(u, "waiting"), TaskCreated(u)}
    BY DEF Arrived
  <2> QED BY <2>1 DEF ComesAs
<1>4. \A o \in Closed(s, t) : o = TaskUpdated(t, "completed") /\ s.rows["userTasks"][t] # Absent
  BY DEF Closed
<1>5. (\A o \in W : \/ o \in {Expects(s), TokenWrite(t, "over"), StepEntry(t)}
                  \/ o \in R \/ o \in K \/ o \in A \/ o \in Closed(s, t))
      /\ A \subseteq W
  BY DEF CycleMarks
<1> HIDE DEF W
<1> QED BY <1>1, <1>2, <1>3, <1>4, <1>5, <1>6 DEF W

\* Who is waiting in s is where the token was for sure, if nobody committed since.
LEMMA CycleReady ==
    ASSUME State \in Stored, NEW s \in Stored, Fits(s), Precedes(s, State), s.version[TheInstance] = versions[TheInstance],
           NEW t \in Tok(s, "waiting"), NEW R \in Stays(s, t), NEW K \in Compensated(s, t), NEW A \in Arrived(s)
    PROVE  \A o \in CycleMarks(s, t, R, K, A) : Ready(State, o)
<1> DEFINE p == State
<1>1. t \in StoredTokens /\ s.rows["tokens"][t] = "waiting" /\ t \in StoredIds
  BY DEF Tok, StoredIds
<1>2. \A u \in Next1(s) : u \in StoredTokens /\ s.rows["tokens"][u] = Absent /\ u \in StoredIds
  BY DEF Next1, Tok, StoredIds
<1>3. p.version[TheInstance] = s.version[TheInstance] /\ 0 < s.version[TheInstance]
  BY DEF Precedes, State
<1>4. \A v \in StoredTokens :
         /\ p.rows["userTasks"][v] = Absent <=> s.rows["userTasks"][v] = Absent
         /\ v \in p.entries["history"] <=> v \in s.entries["history"]
         /\ v \in p.entries["compensationRecords"] <=> v \in s.entries["compensationRecords"]
  BY <1>3 DEF Precedes, Memory!Appended
<1> HIDE DEF p
<1>5. Ready(p, Expects(s))
  <2>1. /\ Expects(s).op = "updateInstance" /\ Expects(s).key = TheInstance
        /\ Expects(s).version = s.version[TheInstance]
        /\ s.version[TheInstance] \in Nat
    BY ExpectsFacts
  <2> QED BY <2>1, <1>3 DEF Ready
<1>6. \A u \in StoredIds, v \in ComesAs \cup {"over"} : Ready(p, TokenWrite(u, v))
  <2>1. \A u \in StoredIds, v \in ComesAs \cup {"over"} : TokenWrite(u, v).op = "saveTokens"
    BY Kinds DEF IsOp, ComesAs
  <2> QED BY <2>1 DEF Ready
<1>7. \A u \in Next1(s) : Ready(p, TaskCreated(u))
  <2> TAKE u \in Next1(s)
  <2>1. TaskCreated(u).op = "createUserTask" /\ TaskCreated(u).key = u
    BY <1>2, Kinds DEF IsOp
  <2>2. p.rows["userTasks"][u] = Absent
    BY <1>2, <1>4 DEF Fits
  <2> QED BY <2>1, <2>2 DEF Ready
<1>8. s.rows["userTasks"][t] # Absent => Ready(p, TaskUpdated(t, "completed"))
  <2>1. TaskUpdated(t, "completed").op = "updateUserTask" /\ TaskUpdated(t, "completed").key = t
    BY <1>1, Kinds DEF IsOp
  <2> QED BY <2>1, <1>1, <1>4 DEF Ready
<1>9. Ready(p, StepEntry(t)) /\ Ready(p, Recorded(t))
  <2>1. StepEntry(t).op = "appendHistory" /\ StepEntry(t).key = t
        /\ Recorded(t).op = "saveCompensationRecord" /\ Recorded(t).key = t
    BY <1>1, Kinds DEF IsOp
  <2>2. t \notin s.entries["history"] /\ t \notin s.entries["compensationRecords"]
    BY <1>1 DEF Fits
  <2> QED BY <1>1, <1>4, <2>1, <2>2 DEF Ready
<1>10. \A u \in StoredIds : Ready(p, UsedUp(u))
  <2>1. \A u \in StoredIds : UsedUp(u).op = "deleteCompensationRecord"
    BY Kinds DEF IsOp
  <2> QED BY <2>1 DEF Ready
<1>11. \A u \in Others(s, t) : u \in StoredIds
  BY DEF Others, Tok, StoredIds
<1>12. /\ Ready(p, TokenWrite(t, "over"))
       /\ \A u \in Others(s, t) : Ready(p, TokenWrite(u, "waiting"))
       /\ \A u \in Next1(s), v \in ComesAs : Ready(p, TokenWrite(u, v))
  BY <1>1, <1>2, <1>6, <1>11 DEF ComesAs
<1> QED BY <1>5, <1>7, <1>8, <1>9, <1>10, <1>12, MarksFacts DEF p

\* What a cycle that commits leaves.
LEMMA CycleEffect ==
    ASSUME NEW s \in Stored, NEW t \in Tok(s, "waiting"), NEW R \in Stays(s, t), NEW K \in Compensated(s, t), NEW A \in Arrived(s),
           NEW o \in Stored, NEW p \in Stored,
           \A x \in CycleMarks(s, t, R, K, A) : Done(o, p, x),
           \A tab, k : (\A x \in CycleMarks(s, t, R, K, A) : tab # Table(x) \/ k # x.key) => SameEntry(o, p, tab, k)
    PROVE  /\ p.version[TheInstance] = o.version[TheInstance] + 1
           /\ p.rows["tokens"][t] = "over"
           /\ \A v \in StoredTokens :
                 /\ \/ v = t
                    \/ p.rows["tokens"][v] = o.rows["tokens"][v]
                    \/ v \in Next1(s) /\ p.rows["tokens"][v] \in ComesAs
                    \/ v \in Others(s, t) /\ p.rows["tokens"][v] = "waiting"
                 /\ \/ p.rows["userTasks"][v] = o.rows["userTasks"][v]
                    \/ p.rows["userTasks"][v] # Absent /\ p.rows["tokens"][v] # Absent
                 /\ v \in p.entries["history"] <=> v = t \/ v \in o.entries["history"]
                 /\ v \in p.entries["compensationRecords"] => v = t \/ v \in o.entries["compensationRecords"]
<1> DEFINE W == CycleMarks(s, t, R, K, A)
<1>1. /\ t \in StoredIds /\ (\A u \in Next1(s) : u \in StoredIds) /\ \A v \in StoredTokens : v \in StoredIds
      /\ \A u \in Others(s, t) : u \in StoredIds /\ u # t
  BY DEF Tok, Next1, Others, StoredIds
<1>2. /\ Expects(s) \in W /\ TokenWrite(t, "over") \in W /\ StepEntry(t) \in W
      /\ \A x \in W :
            \/ x = Expects(s)
            \/ x = TokenWrite(t, "over")
            \/ \E u \in Others(s, t) : x = TokenWrite(u, "waiting")
            \/ \E u \in Next1(s), v \in ComesAs : x = TokenWrite(u, v)
            \/ \E u \in Next1(s) : x = TaskCreated(u) /\ TokenWrite(u, "waiting") \in W
            \/ x = TaskUpdated(t, "completed") /\ s.rows["userTasks"][t] # Absent
            \/ x = StepEntry(t)
            \/ x = Recorded(t)
            \/ \E u \in StoredIds : x = UsedUp(u)
  BY MarksFacts
<1>3. (\A x \in W : Done(o, p, x)) /\ \A tab, k : (\A x \in W : tab # Table(x) \/ k # x.key) => SameEntry(o, p, tab, k)
  OBVIOUS
<1> HIDE DEF W
\* the tables of the operations
<1>4. /\ Table(Expects(s)) = "instances" /\ Expects(s).key = TheInstance
      /\ IsOp(TokenWrite(t, "over"), "saveTokens", "tokens", t) /\ TokenWrite(t, "over").value = "over"
      /\ \A u \in StoredIds, v \in ComesAs : IsOp(TokenWrite(u, v), "saveTokens", "tokens", u) /\ TokenWrite(u, v).value = v
      /\ \A u \in Next1(s) : /\ IsOp(TaskCreated(u), "createUserTask", "userTasks", u) /\ TaskCreated(u).value = "open"
      /\ IsOp(TaskUpdated(t, "completed"), "updateUserTask", "userTasks", t)
      /\ TaskUpdated(t, "completed").value = "completed"
      /\ IsOp(StepEntry(t), "appendHistory", "history", t)
      /\ IsOp(Recorded(t), "saveCompensationRecord", "compensationRecords", t)
      /\ \A u \in StoredIds : IsOp(UsedUp(u), "deleteCompensationRecord", "compensationRecords", u)
  <2>1. Table(Expects(s)) = "instances" /\ Expects(s).key = TheInstance
    BY ExpectsFacts
  <2>2. /\ IsOp(TokenWrite(t, "over"), "saveTokens", "tokens", t) /\ TokenWrite(t, "over").value = "over"
        /\ IsOp(TaskUpdated(t, "completed"), "updateUserTask", "userTasks", t)
        /\ TaskUpdated(t, "completed").value = "completed"
        /\ IsOp(StepEntry(t), "appendHistory", "history", t)
        /\ IsOp(Recorded(t), "saveCompensationRecord", "compensationRecords", t)
    BY <1>1, Kinds
  <2>3. \A u \in Next1(s) : IsOp(TaskCreated(u), "createUserTask", "userTasks", u) /\ TaskCreated(u).value = "open"
    BY <1>1, Kinds
  <2>5. \A u \in StoredIds, v \in ComesAs : IsOp(TokenWrite(u, v), "saveTokens", "tokens", u) /\ TokenWrite(u, v).value = v
    BY Kinds DEF ComesAs
  <2>4. \A u \in StoredIds : IsOp(UsedUp(u), "deleteCompensationRecord", "compensationRecords", u)
    BY Kinds
  <2> QED BY <2>1, <2>2, <2>3, <2>4, <2>5
<1> HIDE DEF Table
<1>5. p.version[TheInstance] = o.version[TheInstance] + 1
  BY <1>2, <1>3, <1>4 DEF Done
<1>6. /\ p.rows["tokens"][t] = "over"
      /\ \A u \in Next1(s) : TokenWrite(u, "waiting") \in W => p.rows["tokens"][u] = "waiting"
  BY <1>1, <1>2, <1>3, <1>4 DEF Done, IsOp, ComesAs
<1>7. ASSUME NEW v \in StoredTokens, v # t, p.rows["tokens"][v] # o.rows["tokens"][v]
      PROVE  \/ v \in Next1(s) /\ p.rows["tokens"][v] \in ComesAs
             \/ v \in Others(s, t) /\ p.rows["tokens"][v] = "waiting"
  <2>1. PICK x \in W : Table(x) = "tokens" /\ x.key = v
    BY <1>3, <1>7 DEF SameEntry
  <2>2. \/ \E u \in Next1(s), w \in ComesAs : x = TokenWrite(u, w)
        \/ \E u \in Others(s, t) : x = TokenWrite(u, "waiting")
    BY <1>1, <1>2, <1>4, <1>7, <2>1 DEF IsOp
  <2>3. p.rows["tokens"][v] = x.value
    BY <1>3, <2>1 DEF Done
  <2>4. CASE \E u \in Next1(s), w \in ComesAs : x = TokenWrite(u, w)
    BY <1>1, <1>4, <2>1, <2>3, <2>4 DEF IsOp
  <2>5. CASE \E u \in Others(s, t) : x = TokenWrite(u, "waiting")
    BY <1>1, <1>4, <2>1, <2>3, <2>5 DEF IsOp, ComesAs
  <2> QED BY <2>2, <2>4, <2>5
<1>8. ASSUME NEW v \in StoredTokens, p.rows["userTasks"][v] # o.rows["userTasks"][v]
      PROVE  p.rows["userTasks"][v] # Absent /\ p.rows["tokens"][v] # Absent
  <2>1. PICK x \in W : Table(x) = "userTasks" /\ x.key = v
    BY <1>3, <1>8 DEF SameEntry
  <2>2. \/ \E u \in Next1(s) : x = TaskCreated(u) /\ TokenWrite(u, "waiting") \in W
        \/ x = TaskUpdated(t, "completed")
    BY <1>1, <1>2, <1>4, <2>1 DEF IsOp, ComesAs
  <2>3. p.rows["userTasks"][v] = x.value
    BY <1>3, <2>1 DEF Done
  <2>4. CASE x = TaskUpdated(t, "completed")
    BY <1>4, <1>6, <2>1, <2>3, <2>4, PostgresAssumption DEF IsOp
  <2>5. ASSUME NEW u \in Next1(s), x = TaskCreated(u), TokenWrite(u, "waiting") \in W
        PROVE  p.rows["userTasks"][v] # Absent /\ p.rows["tokens"][v] # Absent
    BY <1>4, <1>6, <2>1, <2>3, <2>5, PostgresAssumption DEF IsOp
  <2> QED BY <2>2, <2>4, <2>5
<1>9. \A v \in StoredTokens : v \in p.entries["history"] <=> v = t \/ v \in o.entries["history"]
  <2>1. t \in p.entries["history"]
    BY <1>2, <1>3, <1>4 DEF Done, IsOp
  <2>2. \A x \in W : Table(x) = "history" => x.key = t
    BY <1>1, <1>2, <1>4 DEF IsOp, ComesAs
  <2>3. \A v \in StoredTokens : v # t => SameEntry(o, p, "history", v)
    BY <1>3, <2>2
  <2> QED BY <2>1, <2>3 DEF SameEntry, Memory!Appended
<1>10. ASSUME NEW v \in StoredTokens, v \in p.entries["compensationRecords"], v \notin o.entries["compensationRecords"]
       PROVE  v = t
  <2>1. PICK x \in W : Table(x) = "compensationRecords" /\ x.key = v
    BY <1>3, <1>10 DEF SameEntry, Memory!Appended
  <2>2. x = Recorded(t) \/ \E u \in StoredIds : x = UsedUp(u)
    BY <1>1, <1>2, <1>4, <2>1 DEF IsOp, ComesAs
  <2>3. x.op # "deleteCompensationRecord"
    BY <1>3, <1>10, <2>1 DEF Done
  <2> QED BY <1>4, <2>1, <2>2, <2>3 DEF IsOp
<1> QED BY <1>5, <1>6, <1>7, <1>8, <1>9, <1>10

----------------------------------------------------------------------------
(* The steps *)

\* Somebody moved the store from o to p: what others have loaded stays behind it.
LEMMA StaysBehind ==
    ASSUME NEW s \in Stored, NEW o \in Stored, NEW p \in Stored, Precedes(s, o),
           o.version[TheInstance] < p.version[TheInstance],
           \A v \in StoredTokens : o.rows["userTasks"][v] # Absent => p.rows["userTasks"][v] # Absent
    PROVE  Precedes(s, p)
<1>1. /\ s.version[TheInstance] \in Nat /\ o.version[TheInstance] \in Nat /\ p.version[TheInstance] \in Nat
  BY DEF Stored, StoredIds
<1> QED BY <1>1 DEF Precedes

\* A cycle commits if the instance still has the version that was read, and then both stores do the same; or else it fails at its
\* first operation, so there is nothing to undo: a ConcurrentModificationError in both.
LEMMA CycleKeeps ==
    ASSUME PostgresInv, NEW c \in Clients, Cycle(c)
    PROVE  PostgresInv' /\ Memory!ExecuteTransaction
<1> DEFINE s == loaded[c]
           o == State
           p == State'
<1>1. /\ s # NotLoaded /\ s \in Stored /\ Fits(s) /\ Precedes(s, o) /\ o \in Stored /\ Fits(o)
      /\ loaded' = [loaded EXCEPT ![c] = NotLoaded]
  <2>1. s # NotLoaded /\ loaded' = [loaded EXCEPT ![c] = NotLoaded]
    BY DEF Cycle
  <2> QED BY <2>1 DEF PostgresInv
<1> HIDE DEF s
<1>2. PICK t \in Tok(s, "waiting") : \E arrival \in Arrivals(s) : \E k \in Compensations(s, t), again \in SavedAgain(s, t) :
         ExecuteTransaction(CycleOps(s, t, again, k, arrival))
  <2>1. RunOn(s)
    BY DEF Cycle, s
  <2> QED BY <2>1 DEF RunOn, Arrivals, CycleOps, TaskUpdated
<1>3. PICK arrival \in Arrivals(s) : \E k \in Compensations(s, t), again \in SavedAgain(s, t) :
         ExecuteTransaction(CycleOps(s, t, again, k, arrival))
  BY <1>2
<1>4. PICK k \in Compensations(s, t), again \in SavedAgain(s, t) :
         ExecuteTransaction(CycleOps(s, t, again, k, arrival))
  BY <1>3
<1> DEFINE ops == CycleOps(s, t, again, k, arrival)
<1>5. PICK R \in Stays(s, t), K \in Compensated(s, t), A \in Arrived(s) :
         /\ Consists(ops, CycleMarks(s, t, R, K, A))
         /\ ops \in Seq(Operations) /\ Len(ops) > 0 /\ ops[1] = Expects(s)
  BY <1>1, CycleBatch
<1>6. /\ Expects(s).op = "updateInstance" /\ Expects(s).key = TheInstance
      /\ Expects(s).version = s.version[TheInstance] /\ s.version[TheInstance] \in Nat
  BY <1>1, ExpectsFacts
<1>7. o.version = versions /\ TheInstance \in StoredIds /\ versions[TheInstance] \in Nat
  BY <1>1 DEF State, Stored, StoredIds
<1>8. 0 < s.version[TheInstance] /\ s.version[TheInstance] <= versions[TheInstance]
  BY <1>1, <1>7 DEF Precedes
<1> HIDE DEF ops
<1>9. CASE s.version[TheInstance] # versions[TheInstance]
  <2>1. UNCHANGED << rows, versions, entries >> /\ Memory!ExecuteTransaction
    <3>1. /\ ops[1].op = "updateInstance" /\ versions[ops[1].key] # ops[1].version /\ versions[ops[1].key] # 0
          /\ ExecuteTransaction(ops)
      BY <1>4, <1>5, <1>6, <1>7, <1>8, <1>9 DEF ops
    <3> QED BY <1>1, <1>5, <3>1, RolledBack
  <2>2. p = o
    BY <2>1 DEF State
  <2>3. PostgresInv'
    <3>1. Fits(p)
      BY <1>1, <2>2
    <3> HIDE DEF o, p
    <3>2. /\ loaded' \in [Clients -> Stored \cup {NotLoaded}]
          /\ \A d \in Clients : loaded'[d] # NotLoaded => Fits(loaded'[d]) /\ Precedes(loaded'[d], o)
      BY <1>1 DEF PostgresInv, o
    <3> QED BY <1>1, <2>2, <3>1, <3>2 DEF PostgresInv, p
  <2> QED BY <2>1, <2>3
<1>10. CASE s.version[TheInstance] = versions[TheInstance]
  <2>1. \A x \in CycleMarks(s, t, R, K, A) : Ready(o, x)
    BY <1>1, <1>10, CycleReady
  <2>2. ExecuteTransaction(ops)
    BY <1>4 DEF ops
  <2>3. /\ p \in Stored
        /\ Memory!ExecuteTransaction
        /\ \A x \in CycleMarks(s, t, R, K, A) : Done(o, p, x)
        /\ \A tab, l : (\A x \in CycleMarks(s, t, R, K, A) : tab # Table(x) \/ l # x.key) => SameEntry(o, p, tab, l)
    BY <1>1, <1>5, <2>1, <2>2, Committed
  <2> HIDE DEF p, o
  <2>4. /\ p.version[TheInstance] = o.version[TheInstance] + 1
        /\ p.rows["tokens"][t] = "over"
        /\ \A v \in StoredTokens :
              /\ \/ v = t
                 \/ p.rows["tokens"][v] = o.rows["tokens"][v]
                 \/ v \in Next1(s) /\ p.rows["tokens"][v] \in ComesAs
                 \/ v \in Others(s, t) /\ p.rows["tokens"][v] = "waiting"
              /\ \/ p.rows["userTasks"][v] = o.rows["userTasks"][v]
                 \/ p.rows["userTasks"][v] # Absent /\ p.rows["tokens"][v] # Absent
              /\ v \in p.entries["history"] <=> v = t \/ v \in o.entries["history"]
              /\ v \in p.entries["compensationRecords"] => v = t \/ v \in o.entries["compensationRecords"]
    BY <1>1, <2>3, CycleEffect
  <2>5. ASSUME NEW v \in Next1(s)
        PROVE  /\ v \in StoredTokens /\ v # t /\ o.rows["tokens"][v] = Absent
               /\ v \notin o.entries["history"] /\ v \notin o.entries["compensationRecords"]
    <3>1. v \in StoredTokens /\ s.rows["tokens"][v] = Absent /\ t \in StoredTokens /\ s.rows["tokens"][t] = "waiting"
      BY DEF Next1, Tok
    <3>2. o.rows["tokens"][v] = Absent
      BY <1>1, <1>7, <1>10, <3>1, PostgresAssumption DEF Precedes
    <3>3. v # t
      BY <3>1, PostgresAssumption
    <3> QED BY <1>1, <3>1, <3>2, <3>3, PostgresAssumption DEF Fits
  <2>6. Fits(p)
    <3> SUFFICES ASSUME NEW v \in StoredTokens
                 PROVE  /\ p.rows["tokens"][v] \in {Absent, "waiting", "looping", "over"}
                        /\ p.rows["tokens"][v] = "over" <=> v \in p.entries["history"]
                        /\ v \in p.entries["compensationRecords"] => p.rows["tokens"][v] = "over"
                        /\ p.rows["tokens"][v] = Absent => p.rows["userTasks"][v] = Absent
      BY DEF Fits
    <3>1. CASE v = t
      BY <2>4, <3>1, PostgresAssumption
    <3>2. CASE v # t /\ p.rows["tokens"][v] = o.rows["tokens"][v]
      BY <1>1, <2>4, <3>2 DEF Fits
    <3>3. CASE v # t /\ v \in Next1(s) /\ p.rows["tokens"][v] \in ComesAs
      BY <2>4, <2>5, <3>3, PostgresAssumption DEF ComesAs
    <3>4. CASE v # t /\ v \in Others(s, t) /\ p.rows["tokens"][v] = "waiting"
      <4>1. s.rows["tokens"][v] = "waiting"
        BY <3>4 DEF Others, Tok
      <4>2. o.rows["tokens"][v] \in ComesAs
        BY <1>1, <1>7, <1>10, <4>1 DEF Precedes, ComesAs
      <4>3. v \notin o.entries["history"] /\ v \notin o.entries["compensationRecords"]
        BY <1>1, <4>2, PostgresAssumption DEF Fits, ComesAs
      <4> QED BY <2>4, <3>4, <4>3, PostgresAssumption
    <3> QED BY <2>4, <3>1, <3>2, <3>3, <3>4
  <2>7. ASSUME NEW d \in Clients, loaded'[d] # NotLoaded
        PROVE  Fits(loaded'[d]) /\ Precedes(loaded'[d], p)
    <3>1. loaded'[d] = loaded[d] /\ loaded[d] \in Stored /\ Fits(loaded[d]) /\ Precedes(loaded[d], o)
      BY <1>1, <2>7 DEF PostgresInv, o
    <3>2. o.version[TheInstance] < p.version[TheInstance]
      BY <1>7, <2>4
    <3>3. \A v \in StoredTokens : o.rows["userTasks"][v] # Absent => p.rows["userTasks"][v] # Absent
      BY <2>4
    <3> QED BY <1>1, <2>3, <3>1, <3>2, <3>3, StaysBehind
  <2>8. loaded' \in [Clients -> Stored \cup {NotLoaded}]
    BY <1>1 DEF PostgresInv
  <2> QED BY <2>3, <2>6, <2>7, <2>8 DEF PostgresInv, p
<1> QED BY <1>9, <1>10

\* loadEngineState: what was loaded is what is there, but for the state of loops.
LEMMA LoadKeeps ==
    ASSUME PostgresInv, NEW c \in Clients, Load(c)
    PROVE  PostgresInv' /\ Memory!ExecuteTransaction
<1> DEFINE o == State
           p == State'
           l == Revived(State)
<1>1. /\ versions[TheInstance] # 0 /\ loaded' = [loaded EXCEPT ![c] = l] /\ batch' = << >> /\ p = o
      /\ UNCHANGED << rows, versions, entries >>
  BY DEF Load, State
<1>2. /\ o \in Stored /\ Fits(o) /\ loaded \in [Clients -> Stored \cup {NotLoaded}]
      /\ \A d \in Clients : loaded[d] # NotLoaded => Fits(loaded[d]) /\ Precedes(loaded[d], o)
  BY DEF PostgresInv
<1>3. o.version = versions
  BY DEF State
<1>4. Fits(p)
  BY <1>1, <1>2
<1>10. l = [o EXCEPT !.rows = [o.rows EXCEPT !["tokens"] =
                [k \in StoredIds |-> IF o.rows["tokens"][k] = "looping" THEN "waiting" ELSE o.rows["tokens"][k]]]]
  BY DEF Revived
<1> HIDE DEF o, p, l
<1>11. /\ l \in Stored /\ l.version = o.version /\ l.entries = o.entries /\ l.rows["userTasks"] = o.rows["userTasks"]
       /\ \A k \in StoredIds :
            l.rows["tokens"][k] = IF o.rows["tokens"][k] = "looping" THEN "waiting" ELSE o.rows["tokens"][k]
  <2> DEFINE T == [k \in StoredIds |-> IF o.rows["tokens"][k] = "looping" THEN "waiting" ELSE o.rows["tokens"][k]]
             r == [o.rows EXCEPT !["tokens"] = T]
  <2>1. /\ o.rows \in [Memory!Tables -> [StoredIds -> RowValues]] /\ {"tokens", "userTasks"} \subseteq Memory!Tables
        /\ o.version \in [StoredIds -> Nat] /\ o.entries \in [Memory!Appended -> SUBSET StoredIds]
    BY <1>2 DEF Stored, Memory!Tables
  <2>2. o.rows["tokens"] \in [StoredIds -> RowValues] /\ "waiting" \in RowValues
    BY <2>1 DEF RowValues
  <2>3. T \in [StoredIds -> RowValues]
    BY <2>2
  <2> HIDE DEF T
  <2>4. r \in [Memory!Tables -> [StoredIds -> RowValues]] /\ r["tokens"] = T /\ r["userTasks"] = o.rows["userTasks"]
    BY <2>1, <2>3
  <2>5. l = [o EXCEPT !.rows = r]
    BY <1>10 DEF T
  <2> HIDE DEF r
  <2>6. l = [rows |-> r, version |-> o.version, entries |-> o.entries]
    BY <1>2, <2>5 DEF Stored
  <2> QED BY <2>1, <2>4, <2>6 DEF Stored, T
<1>12. \A t \in StoredTokens : t \in StoredIds
  BY DEF StoredIds
<1>13. Fits(l)
  BY <1>2, <1>11, <1>12, PostgresAssumption DEF Fits
<1>5. Precedes(l, o)
  <2>1. o.version[TheInstance] \in Nat /\ o.version[TheInstance] # 0
    BY <1>1, <1>2, <1>3 DEF Stored, StoredIds
  <2> QED BY <1>11, <1>12, <2>1 DEF Precedes
<1>6. loaded' \in [Clients -> Stored \cup {NotLoaded}]
  BY <1>1, <1>2, <1>11
<1>7. \A d \in Clients : loaded'[d] # NotLoaded => Fits(loaded'[d]) /\ Precedes(loaded'[d], p)
  BY <1>1, <1>2, <1>5, <1>13
<1>8. PostgresInv'
  BY <1>1, <1>2, <1>4, <1>6, <1>7 DEF PostgresInv, p
<1>9. Memory!ExecuteTransaction
  <2>1. Len(<< >>) = 0 /\ Len(<< >>) \in Nat
    OBVIOUS
  <2>2. Memory!MemoryRun(AsMemory(State), << >>)[0] = [m |-> AsMemory(State), thrown |-> FALSE]
    BY <2>1, MemoryRunSteps
  <2>3. AsMemory(State) = [rows |-> rows, version |-> versions,
                           times |-> [t \in {"history", "compensationRecords"} |->
                                        [k \in StoredIds |-> IF k \in entries[t] THEN 1 ELSE 0]]]
    BY DEF AsMemory, State
  <2>4. Memory!MemoryRun(AsMemory(State), << >>)[0].m = AsMemory(State)
    BY <2>2
  <2> QED BY <1>1, <2>1, <2>3, <2>4 DEF Memory!ExecuteTransaction
<1> QED BY <1>8, <1>9

\* Claiming and releasing: the record is still there, since records are never deleted, whatever was committed since it was read.
LEMMA ClaimKeeps ==
    ASSUME PostgresInv, NEW c \in Clients, Claim(c)
    PROVE  PostgresInv' /\ Memory!ExecuteTransaction
<1> DEFINE s == loaded[c]
           o == State
           p == State'
<1>1. /\ s # NotLoaded /\ s \in Stored /\ Fits(s) /\ Precedes(s, o) /\ o \in Stored /\ Fits(o)
      /\ loaded \in [Clients -> Stored \cup {NotLoaded}] /\ loaded' = [loaded EXCEPT ![c] = NotLoaded]
      /\ \A d \in Clients : loaded[d] # NotLoaded => Fits(loaded[d]) /\ Precedes(loaded[d], o)
  <2>1. s # NotLoaded /\ loaded' = [loaded EXCEPT ![c] = NotLoaded]
    BY DEF Claim
  <2> QED BY <2>1 DEF PostgresInv
<1>2. PICK t \in StoredTokens : s.rows["userTasks"][t] # Absent /\ ExecuteTransaction(<< TaskUpdated(t, "open") >>)
  BY DEF Claim, TaskUpdated
<1> DEFINE x == TaskUpdated(t, "open")
<1>3. IsOp(x, "updateUserTask", "userTasks", t) /\ x.value = "open"
  BY Kinds DEF StoredIds
<1> HIDE DEF x, s
<1>4. Ready(o, x)
  <2>1. o.rows["userTasks"][t] # Absent
    BY <1>1, <1>2 DEF Precedes
  <2> HIDE DEF o
  <2> QED BY <1>3, <2>1 DEF Ready, IsOp
<1>5. Consists(<< x >>, {x})
  BY <1>3, Alone DEF IsOp, Watched
<1>6. /\ p \in Stored
      /\ Memory!ExecuteTransaction
      /\ \A y \in {x} : Done(o, p, y)
      /\ \A tab, k : (\A y \in {x} : tab # Table(y) \/ k # y.key) => SameEntry(o, p, tab, k)
  <2>1. ExecuteTransaction(<< x >>)
    BY <1>2 DEF x
  <2>2. \A y \in {x} : Ready(o, y)
    BY <1>4
  <2> QED BY <1>1, <1>5, <2>1, <2>2, Committed
<1> HIDE DEF o, p
<1>7. /\ Done(o, p, x)
      /\ \A tab, k : (tab # "userTasks" \/ k # t) => SameEntry(o, p, tab, k)
  BY <1>3, <1>6 DEF IsOp
<1>8. /\ p.rows["userTasks"][t] = "open"
      /\ p.version[TheInstance] = o.version[TheInstance]
      /\ \A v : p.rows["tokens"][v] = o.rows["tokens"][v]
      /\ \A v : v # t => p.rows["userTasks"][v] = o.rows["userTasks"][v]
      /\ \A tab \in Memory!Appended : \A v : v \in p.entries[tab] <=> v \in o.entries[tab]
  <2>1. p.rows["userTasks"][t] = "open"
    BY <1>3, <1>7 DEF Done, IsOp
  <2>2. p.version[TheInstance] = o.version[TheInstance]
    BY <1>7 DEF SameEntry
  <2>3. \A v : p.rows["tokens"][v] = o.rows["tokens"][v]
    BY <1>7 DEF SameEntry
  <2>4. \A v : v # t => p.rows["userTasks"][v] = o.rows["userTasks"][v]
    BY <1>7 DEF SameEntry
  <2>5. \A tab \in Memory!Appended : \A v : v \in p.entries[tab] <=> v \in o.entries[tab]
    BY <1>7 DEF SameEntry, Memory!Appended
  <2> QED BY <2>1, <2>2, <2>3, <2>4, <2>5
<1>9. o.rows["userTasks"][t] # Absent /\ o.rows["tokens"][t] # Absent /\ p.rows["userTasks"][t] # Absent
  BY <1>1, <1>2, <1>8, PostgresAssumption DEF Precedes, Fits
<1>10. Fits(p)
  BY <1>1, <1>8, <1>9 DEF Fits, Memory!Appended
<1>11. ASSUME NEW d \in Clients, loaded'[d] # NotLoaded
       PROVE  Fits(loaded'[d]) /\ Precedes(loaded'[d], p)
  <2>1. loaded'[d] = loaded[d] /\ Fits(loaded[d]) /\ Precedes(loaded[d], o)
    BY <1>1, <1>11
  <2>2. \A v \in StoredTokens : p.rows["userTasks"][v] = Absent <=> o.rows["userTasks"][v] = Absent
    BY <1>8, <1>9
  <2> HIDE DEF x
  <2> QED BY <1>8, <2>1, <2>2 DEF Precedes
<1>12. loaded' \in [Clients -> Stored \cup {NotLoaded}]
  BY <1>1
<1> QED BY <1>6, <1>10, <1>11, <1>12 DEF PostgresInv, p

Created == Write("createInstance", TheInstance, "active")

\* The first transaction of an instance.
StartOps(t, for) ==
    << Created, Write("saveScope", TheInstance, "active"), Write("saveDefinition", TheInstance, "active") >>
      \o Arrives(t, for)

\* The operations every instance starts with.
LEMMA CreatedFacts ==
    /\ IsOp(Created, "createInstance", "instances", TheInstance) /\ Consists(<< Created >>, {Created})
    /\ Consists(<< Write("saveScope", TheInstance, "active") >>, {})
    /\ Consists(<< Write("saveDefinition", TheInstance, "active") >>, {})
<1>1. TheInstance \in StoredIds /\ "active" \in RowValues
  BY DEF StoredIds, RowValues
<1>2. IsOp(Created, "createInstance", "instances", TheInstance) /\ Consists(<< Created >>, {Created})
  BY <1>1, WatchedWrite, TableFacts DEF Created, IsOp
<1>3. {"saveScope", "saveDefinition"} \subseteq Plain \ {"saveTokens"}
  BY DEF Plain
<1>4. Consists(<< Write("saveScope", TheInstance, "active") >>, {})
  BY <1>1, <1>3, Unwatched
<1>5. Consists(<< Write("saveDefinition", TheInstance, "active") >>, {})
  BY <1>1, <1>3, Unwatched
<1> QED BY <1>2, <1>4, <1>5

\* What is watched when an instance starts.
LEMMA StartBatch ==
    ASSUME NEW t \in StoredTokens, NEW for \in Waits
    PROVE  \/ \E v \in ComesAs : Consists(StartOps(t, for), {Created, TokenWrite(t, v)})
           \/ Consists(StartOps(t, for), {Created, TokenWrite(t, "waiting"), TaskCreated(t)})
<1> DEFINE u == Created
           sc == Write("saveScope", TheInstance, "active")
           d == Write("saveDefinition", TheInstance, "active")
           first == << u, sc, d >>
           w(v) == TokenWrite(t, v)
           x == TaskCreated(t)
           arrival == Arrives(t, for)
<1>1. t \in StoredIds
  BY DEF StoredIds
<1>2. IsOp(u, "createInstance", "instances", TheInstance) /\ Consists(<< u >>, {u})
      /\ Consists(<< sc >>, {}) /\ Consists(<< d >>, {})
  BY CreatedFacts
<1>3. (\A v \in ComesAs : IsOp(w(v), "saveTokens", "tokens", t)) /\ IsOp(x, "createUserTask", "userTasks", t)
  BY <1>1, Kinds DEF ComesAs
<1>4. (\E v \in ComesAs : Consists(arrival, {w(v)})) \/ Consists(arrival, {w("waiting"), x})
  BY Arrival
<1>5. StartOps(t, for) = first \o arrival
  BY DEF StartOps
<1> HIDE DEF u, sc, d, w, x, arrival
<1>6. (\A v \in ComesAs : ~ SameRow(u, w(v))) /\ ~ SameRow(u, x)
  BY <1>2, <1>3 DEF SameRow, IsOp
<1>7. Consists(first, {u})
  <2>1. Consists(<< u >> \o << sc >>, {u})
    BY <1>2, JoinedQuietly
  <2>2. << u >> \o << sc >> = << u, sc >>
    BY TwoTogether
  <2>3. Consists(<< u, sc >>, {u})
    BY <2>1, <2>2
  <2>4. Consists(<< u, sc >> \o << d >>, {u})
    BY <1>2, <2>3, JoinedQuietly
  <2>5. first = << u, sc >> \o << d >>
    OBVIOUS
  <2> HIDE DEF first
  <2> QED BY <2>4, <2>5
<1> HIDE DEF first
<1>8. ASSUME NEW v \in ComesAs, Consists(arrival, {w(v)})
      PROVE  Consists(StartOps(t, for), {u, w(v)})
  <2>1. Consists(first \o arrival, {u} \cup {w(v)})
    <3> DEFINE V == {u}
               W == {w(v)}
    <3>1. \A o \in V, y \in W : ~ SameRow(o, y)
      BY <1>6 DEF ComesAs
    <3>2. Consists(first, V) /\ Consists(arrival, W)
      BY <1>7, <1>8
    <3> HIDE DEF V, W
    <3>3. Consists(first \o arrival, V \cup W)
      BY <3>1, <3>2, Joined
    <3> QED BY <3>3 DEF V, W
  <2>2. {u} \cup {w(v)} = {u, w(v)}
    OBVIOUS
  <2>3. Consists(first \o arrival, {u, w(v)})
    BY <2>1, <2>2
  <2> QED BY <1>5, <2>3
<1>9. ASSUME Consists(arrival, {w("waiting"), x})
      PROVE  Consists(StartOps(t, for), {u, w("waiting"), x})
  <2>1. Consists(first \o arrival, {u} \cup {w("waiting"), x})
    <3> DEFINE V == {u}
               W == {w("waiting"), x}
    <3>1. \A o \in V, y \in W : ~ SameRow(o, y)
      BY <1>6 DEF ComesAs
    <3>2. Consists(first, V) /\ Consists(arrival, W)
      BY <1>7, <1>9
    <3> HIDE DEF V, W
    <3>3. Consists(first \o arrival, V \cup W)
      BY <3>1, <3>2, Joined
    <3> QED BY <3>3 DEF V, W
  <2>2. {u} \cup {w("waiting"), x} = {u, w("waiting"), x}
    OBVIOUS
  <2>3. Consists(first \o arrival, {u, w("waiting"), x})
    BY <2>1, <2>2
  <2> QED BY <1>5, <2>3
<1> QED BY <1>4, <1>8, <1>9 DEF u, w, x

\* An instance starts: nobody can have loaded it before.
LEMMA StartKeeps ==
    ASSUME PostgresInv, Start
    PROVE  PostgresInv' /\ Memory!ExecuteTransaction
<1> DEFINE o == State
           p == State'
<1>1. PICK t \in Next1(o), for \in Waits : ExecuteTransaction(StartOps(t, for))
  BY DEF Start, StartOps, Created
<1>2. versions[TheInstance] = 0 /\ loaded' = loaded
  BY DEF Start
<1>3. /\ o \in Stored /\ Fits(o) /\ loaded \in [Clients -> Stored \cup {NotLoaded}] /\ o.version = versions
      /\ \A d \in Clients : loaded[d] # NotLoaded => Precedes(loaded[d], o)
  BY DEF PostgresInv, State
<1>4. \A d \in Clients : loaded[d] = NotLoaded
  <2> SUFFICES ASSUME NEW d \in Clients, loaded[d] # NotLoaded
               PROVE  FALSE
    OBVIOUS
  <2>1. Precedes(loaded[d], o) /\ loaded[d] \in Stored /\ o.version[TheInstance] = 0
    BY <1>2, <1>3
  <2>2. loaded[d].version[TheInstance] \in Nat
    BY <2>1 DEF Stored, StoredIds
  <2> HIDE DEF o
  <2> QED BY <2>1, <2>2 DEF Precedes
<1>5. t \in StoredTokens /\ t \in StoredIds /\ TheInstance \in StoredIds /\ o.rows["tokens"][t] = Absent
  BY DEF Next1, Tok, StoredIds
<1> DEFINE u == Created
           x == TaskCreated(t)
<1>13. PICK v0 \in ComesAs : \E W \in {{u, TokenWrite(t, v0)}, {u, TokenWrite(t, v0), x}} : Consists(StartOps(t, for), W)
  BY <1>5, StartBatch DEF ComesAs
<1> DEFINE w == TokenWrite(t, v0)
<1>6. /\ IsOp(u, "createInstance", "instances", TheInstance)
      /\ IsOp(w, "saveTokens", "tokens", t) /\ w.value = v0
      /\ IsOp(x, "createUserTask", "userTasks", t) /\ x.value = "open"
  BY <1>5, Kinds, CreatedFacts DEF ComesAs
<1>7. PICK W \in {{u, w}, {u, w, x}} : Consists(StartOps(t, for), W)
  BY <1>13
<1> HIDE DEF u, w, x
<1>8. Ready(o, u) /\ Ready(o, w) /\ Ready(o, x)
  <2>1. Ready(o, u)
    BY <1>2, <1>3, <1>6 DEF Ready, IsOp
  <2>2. Ready(o, w)
    BY <1>6 DEF Ready, IsOp
  <2>3. o.rows["userTasks"][t] = Absent
    BY <1>3, <1>5 DEF Fits
  <2>4. Ready(o, x)
    BY <1>6, <2>3 DEF Ready, IsOp
  <2> QED BY <2>1, <2>2, <2>4
<1>9. \A y \in W : y \in {u, w, x} /\ Ready(o, y)
  BY <1>7, <1>8
<1>10. /\ p \in Stored
       /\ Memory!ExecuteTransaction
       /\ \A y \in W : Done(o, p, y)
       /\ \A tab, k : (\A y \in W : tab # Table(y) \/ k # y.key) => SameEntry(o, p, tab, k)
  BY <1>1, <1>3, <1>7, <1>9, Committed
<1> HIDE DEF o, p
<1>11. /\ p.rows["tokens"][t] = v0
       /\ \A v : v # t => p.rows["tokens"][v] = o.rows["tokens"][v] /\ p.rows["userTasks"][v] = o.rows["userTasks"][v]
       /\ \A tab \in Memory!Appended : \A v : v \in p.entries[tab] <=> v \in o.entries[tab]
  <2>1. w \in W
    BY <1>7
  <2>2. p.rows["tokens"][t] = v0
    BY <1>6, <1>10, <2>1 DEF Done, IsOp
  <2>3. \A v : v # t => SameEntry(o, p, "tokens", v) /\ SameEntry(o, p, "userTasks", v)
    <3>1. \A y \in W : Table(y) = "instances" \/ y.key = t
      BY <1>6, <1>9 DEF IsOp
    <3> QED BY <1>10, <3>1
  <2>4. \A tab \in Memory!Appended : \A v : SameEntry(o, p, tab, v)
    <3>1. \A y \in W : Table(y) \notin Memory!Appended
      BY <1>6, <1>9 DEF IsOp, Memory!Appended
    <3> QED BY <1>10, <3>1
  <2> QED BY <2>2, <2>3, <2>4 DEF SameEntry
<1>12. Fits(p)
  <2> SUFFICES ASSUME NEW v \in StoredTokens
               PROVE  /\ p.rows["tokens"][v] \in {Absent, "waiting", "looping", "over"}
                      /\ p.rows["tokens"][v] = "over" <=> v \in p.entries["history"]
                      /\ v \in p.entries["compensationRecords"] => p.rows["tokens"][v] = "over"
                      /\ p.rows["tokens"][v] = Absent => p.rows["userTasks"][v] = Absent
    BY DEF Fits
  <2>1. CASE v = t
    <3>1. t \notin o.entries["history"] /\ t \notin o.entries["compensationRecords"]
      BY <1>3, <1>5, PostgresAssumption DEF Fits
    <3> QED BY <1>11, <2>1, <3>1, PostgresAssumption DEF Memory!Appended, ComesAs
  <2>2. CASE v # t
    BY <1>3, <1>11, <2>2 DEF Fits, Memory!Appended
  <2> QED BY <2>1, <2>2
<1> QED BY <1>2, <1>3, <1>4, <1>10, <1>12 DEF PostgresInv, p

----------------------------------------------------------------------------
(* The specification *)

\* Nothing is stored at first.
LEMMA PostgresInitially ==
    ASSUME PostgresInit
    PROVE  PostgresInv /\ Memory!MemoryInit
<1>1. State \in Stored
  <2>1. rows \in [Memory!Tables -> [StoredIds -> RowValues]]
    BY DEF PostgresInit, RowValues
  <2>2. versions \in [StoredIds -> Nat]
    BY DEF PostgresInit
  <2>3. entries \in [Memory!Appended -> SUBSET StoredIds]
    BY DEF PostgresInit
  <2> QED BY <2>1, <2>2, <2>3 DEF State, Stored
<1>2. Fits(State)
  <2>1. {"tokens", "userTasks"} \subseteq Memory!Tables /\ \A t \in StoredTokens : t \in StoredIds
    BY DEF Memory!Tables, StoredIds
  <2>2. \A t \in StoredTokens :
           /\ rows["tokens"][t] = Absent /\ rows["userTasks"][t] = Absent
           /\ t \notin entries["history"] /\ t \notin entries["compensationRecords"]
    BY <2>1 DEF PostgresInit, Memory!Appended
  <2> QED BY <2>2, PostgresAssumption DEF Fits, State
<1>3. loaded \in [Clients -> Stored \cup {NotLoaded}] /\ \A c \in Clients : loaded[c] = NotLoaded
  BY DEF PostgresInit
<1>4. Memory!MemoryInit
  <2> DEFINE T == [t \in {"history", "compensationRecords"} |->
                     [k \in StoredIds |-> IF k \in entries[t] THEN 1 ELSE 0]]
  <2>1. T = [t \in Memory!Appended |-> [k \in StoredIds |-> 0]]
    <3>1. Memory!Appended = {"history", "compensationRecords"}
      BY DEF Memory!Appended
    <3>2. \A t \in Memory!Appended : entries[t] = {}
      BY DEF PostgresInit
    <3> QED BY <3>1, <3>2
  <2>2. /\ rows = [t \in Memory!Tables |-> [k \in StoredIds |-> Absent]]
        /\ versions = [k \in StoredIds |-> 0] /\ batch = << >>
    BY DEF PostgresInit
  <2> HIDE DEF T
  <2>3. [rows |-> rows, version |-> versions, times |-> T] = Memory!NothingStored
    BY <2>1, <2>2 DEF Memory!NothingStored
  <2> QED BY <2>2, <2>3 DEF Memory!MemoryInit, T
<1> QED BY <1>1, <1>2, <1>3, <1>4 DEF PostgresInv

\* Every step keeps the tables fitting together, and is one of the store in memory, or none.
LEMMA PostgresSteps ==
    ASSUME PostgresInv, [PostgresNext]_postgresVars
    PROVE  PostgresInv' /\ [Memory!ExecuteTransaction]_Memory!memoryVars
<1>1. CASE Start
  BY <1>1, StartKeeps
<1>2. ASSUME NEW c \in Clients, Load(c)
      PROVE  PostgresInv' /\ Memory!ExecuteTransaction
  BY <1>2, LoadKeeps
<1>3. ASSUME NEW c \in Clients, Cycle(c)
      PROVE  PostgresInv' /\ Memory!ExecuteTransaction
  BY <1>3, CycleKeeps
<1>4. ASSUME NEW c \in Clients, Claim(c)
      PROVE  PostgresInv' /\ Memory!ExecuteTransaction
  BY <1>4, ClaimKeeps
<1>5. CASE UNCHANGED postgresVars
  <2>1. UNCHANGED << rows, versions, entries, loaded, batch >>
    BY <1>5 DEF postgresVars
  <2>2. State' = State
    BY <2>1 DEF State
  <2>3. PostgresInv'
    <3> DEFINE o == State
               p == State'
    <3>1. p = o /\ loaded' = loaded /\ o \in Stored /\ Fits(o) /\ loaded \in [Clients -> Stored \cup {NotLoaded}]
          /\ \A d \in Clients : loaded[d] # NotLoaded => Fits(loaded[d]) /\ Precedes(loaded[d], o)
      BY <2>1, <2>2 DEF PostgresInv
    <3>2. Fits(p)
      BY <3>1
    <3> HIDE DEF o, p
    <3> QED BY <3>1, <3>2 DEF PostgresInv, p
  <2>4. UNCHANGED Memory!memoryVars
    BY <2>1 DEF Memory!memoryVars
  <2> QED BY <2>3, <2>4
<1> QED BY <1>1, <1>2, <1>3, <1>4, <1>5 DEF PostgresNext

\* What the invariant says of the rows.
LEMMA PostgresInvTypes == PostgresInv => PostgresTypeOK
<1> SUFFICES ASSUME PostgresInv
             PROVE  PostgresTypeOK
  OBVIOUS
<1>1. rows \in [Memory!Tables -> [StoredIds -> RowValues]] /\ versions \in [StoredIds -> Nat]
      /\ entries \in [Memory!Appended -> SUBSET StoredIds]
  BY DEF PostgresInv, Stored, State
<1>2. \A t \in StoredTokens : rows["tokens"][t] = "over" <=> t \in entries["history"]
  BY DEF PostgresInv, Fits, State
<1> QED BY <1>1, <1>2 DEF PostgresTypeOK, RowValues

\* Rows have the values of their tables, versions are numbers, and exactly the tokens that are over left a step in the history,
\* whoever moved them and however the clients interleave (computeStoreOps, deriveHistory).
THEOREM PostgresTypes == PostgresSpec => []PostgresTypeOK
<1>1. PostgresInit => PostgresInv
  BY PostgresInitially
<1>2. PostgresInv /\ [PostgresNext]_postgresVars => PostgresInv'
  BY PostgresSteps
<1> QED BY <1>1, <1>2, PostgresInvTypes, PTL DEF PostgresSpec

\* What PostgresStateStore makes of a transaction is what the in-memory store makes of it, which the engine is tested
\* against: for any number of clients, tokens and transactions, the same ones commit, the same ones conflict, and what is in
\* the tables afterwards is the same.  It says nothing of what is read back, where reviveToken drops the state of loops.
THEOREM TransactionsAgree == PostgresSpec => CommitsLikeMemory
<1>1. PostgresInit => PostgresInv /\ Memory!MemoryInit
  BY PostgresInitially
<1>2. PostgresInv /\ [PostgresNext]_postgresVars => PostgresInv' /\ [Memory!ExecuteTransaction]_Memory!memoryVars
  BY PostgresSteps
<1> QED BY <1>1, <1>2, PTL DEF PostgresSpec, CommitsLikeMemory, Memory!MemorySpec

-----------------------------------------------------------------------------
(* Records and subscriptions                                                *)

ComesTo == WaitKinds \cup {"brief"}
CallType == [op : {"deploy", "delete", "start", "cancel", "complete", "claim", "release"},
             of : Instances \cup {NoInstance}, token : 0..MaxTokens, list : SUBSET (WaitingTokens \cup 1..MaxDeploys)]

Born(t) == waitingToken[t].waits # "none"

\* A call refers to what was there when it was made: the content it uploads, the instance it starts or cancels with
\* records of that instance's tokens, the record it read.
CallFits(c) ==
    /\ c \in CallType
    /\ c.op = "deploy" => \E n \in 1..deployments : c.list = {n}
    /\ c.op \in {"start", "cancel"} => c.of \in Instances
    /\ c.op = "cancel" => \A t \in c.list : t \in WaitingTokens /\ waitingToken[t].of = c.of /\ Born(t)
    /\ c.op \in {"complete", "claim", "release"} =>
          c.token \in WaitingTokens /\ Born(c.token) /\ record[c.token] # "none"

CallsFit == \A c \in calls : CallFits(c)

DefinitionsOK ==
    /\ deployments \in 0..MaxDeploys
    /\ definitionData \in 0..deployments /\ definitionXml \in 0..deployments
    /\ writtenBack \subseteq WaitingTokens /\ crossed \in BOOLEAN

TokensOK ==
    /\ instance \in [Instances -> Statuses]
    /\ waitingToken \in [WaitingTokens -> [of : Instances \cup {NoInstance}, waits : WaitKinds \cup {"none", "over"}]]
    /\ \A t \in WaitingTokens : Born(t) => waitingToken[t].of \in Instances
    /\ record \in [WaitingTokens -> {"none", "open", "claimed", "completed", "cancelled"}]
    /\ subscriptions \subseteq WaitingTokens /\ unindexed \subseteq WaitingTokens /\ interrupted \subseteq WaitingTokens
    /\ \A t \in WaitingTokens : ~Born(t) => record[t] = "none" /\ t \notin subscriptions
    /\ \A t \in WaitingTokens : waitingToken[t].waits \in WaitKinds \ {"user"} => record[t] = "none"
    /\ TasksFollowTokens

TasksInv == DefinitionsOK /\ TokensOK /\ CallsFit

\* The invariant gives the types.
LEMMA InvTypes == TasksInv => UserTasksTypeOK
  <1> SUFFICES ASSUME TasksInv PROVE UserTasksTypeOK
    OBVIOUS
  <1>1. calls \subseteq CallType
    BY DEF TasksInv, CallsFit, CallFits
  <1>2. \A t \in Unborn : record[t] = "none" /\ t \notin subscriptions
    BY DEF TasksInv, TokensOK, Unborn, Born
  <1>3. waitingToken \in [WaitingTokens -> [of : Instances \cup {NoInstance}, waits : WaitKinds \cup {"none", "over"}]]
    BY DEF TasksInv, TokensOK
  <1> QED BY <1>1, <1>2, <1>3 DEF TasksInv, DefinitionsOK, TokensOK, UserTasksTypeOK, CallType

\* Tokens that came to wait stay those of their instance, and records are not deleted.
TokensStay ==
    \A t \in WaitingTokens :
        /\ Born(t) => Born(t)' /\ waitingToken'[t].of = waitingToken[t].of
        /\ record[t] # "none" => record'[t] # "none"

\* Then what calls refer to stays, too.
LEMMA CallsStayFit ==
    ASSUME CallsFit, TokensStay, deployments \in Nat, deployments' \in Nat, deployments <= deployments',
           calls' \subseteq calls
    PROVE  CallsFit'
  <1> SUFFICES ASSUME NEW c \in calls PROVE CallFits(c)'
    BY DEF CallsFit
  <1>1. CallFits(c)
    BY DEF CallsFit
  <1>2. c.op = "deploy" => \E n \in 1..deployments' : c.list = {n}
    BY <1>1 DEF CallFits
  <1> QED BY <1>1, <1>2 DEF CallFits, TokensStay

\* Nothing to move: no token, no record.
LEMMA NothingMoves == << >> \in [{} -> ComesTo] /\ << >> \in [{} -> {"completed", "cancelled"}] /\ DOMAIN << >> = {}
  OBVIOUS

\* The tokens that come to wait are new ones.
LEMMA NewAreUnborn ==
    ASSUME NEW n \in Nat, NEW new \in NewWaits(n)
    PROVE  DOMAIN new \in SUBSET Unborn /\ new \in [DOMAIN new -> ComesTo]
  <1>1. PICK k \in 0..n : new \in [{t \in Unborn : Cardinality({u \in Unborn : u < t}) < k} -> ComesTo]
    BY DEF NewWaits, ComesTo
  <1> QED BY <1>1

-----------------------------------------------------------------------------
(* A cycle of the engine                                                    *)

\* Its tokens: those of gone are over, those of D wait, the others are left alone.
LEMMA MovedTokens ==
    ASSUME TokensOK, NEW i \in Instances, NEW gone \in SUBSET Waiting(i),
           NEW D \in SUBSET Unborn, NEW new \in [D -> ComesTo], NEW status \in Statuses,
           Moves(i, gone, new, status)
    PROVE  /\ instance' \in [Instances -> Statuses]
           /\ waitingToken' \in [WaitingTokens -> [of : Instances \cup {NoInstance}, waits : WaitKinds \cup {"none", "over"}]]
           /\ \A t \in gone : waitingToken'[t].waits = "over" /\ waitingToken'[t].of = i /\ Born(t) /\ waitingToken[t].of = i
           /\ \A t \in D : waitingToken'[t] = [of |-> i, waits |-> Becomes(new[t])] /\ ~Born(t) /\ new[t] \in ComesTo
           /\ \A t \in WaitingTokens : t \notin gone /\ t \notin D => waitingToken'[t] = waitingToken[t]
           /\ gone \subseteq WaitingTokens /\ D \subseteq WaitingTokens
  <1>1. gone \subseteq WaitingTokens /\ D \subseteq WaitingTokens /\ DOMAIN new = D
    BY DEF Waiting, Unborn
  <1>2. /\ waitingToken' = [t \in WaitingTokens |->
              IF t \in gone THEN [waitingToken[t] EXCEPT !.waits = "over"]
              ELSE IF t \in D THEN [of |-> i, waits |-> Becomes(new[t])] ELSE waitingToken[t]]
        /\ instance' = [instance EXCEPT ![i] = status]
    BY <1>1 DEF Moves
  <1>3. instance' \in [Instances -> Statuses]
    BY <1>2 DEF TokensOK
  <1>4. ASSUME NEW t \in gone
        PROVE  /\ waitingToken'[t] = [waitingToken[t] EXCEPT !.waits = "over"]
               /\ waitingToken[t] \in [of : Instances \cup {NoInstance}, waits : WaitKinds \cup {"none", "over"}]
               /\ Born(t) /\ waitingToken[t].of = i
    BY <1>1, <1>2 DEF TokensOK, Waiting, WaitKinds, Born
  <1>5. ASSUME NEW t \in D
        PROVE  waitingToken'[t] = [of |-> i, waits |-> Becomes(new[t])] /\ ~Born(t) /\ new[t] \in ComesTo
    <2>1. t \notin gone /\ ~Born(t)
      BY <1>4 DEF Unborn, Born
    <2> QED BY <1>1, <1>2, <2>1
  <1>6. \A t \in WaitingTokens : t \notin gone /\ t \notin D => waitingToken'[t] = waitingToken[t]
    BY <1>2
  <1>7. \A t \in gone : waitingToken'[t].waits = "over" /\ waitingToken'[t].of = i
                        /\ waitingToken'[t] \in [of : Instances \cup {NoInstance}, waits : WaitKinds \cup {"none", "over"}]
    BY <1>4
  <1>8. \A t \in D : waitingToken'[t] \in [of : Instances \cup {NoInstance}, waits : WaitKinds \cup {"none", "over"}]
    <2> SUFFICES ASSUME NEW t \in D
                 PROVE  waitingToken'[t] \in [of : Instances \cup {NoInstance}, waits : WaitKinds \cup {"none", "over"}]
      OBVIOUS
    <2>1. waitingToken'[t] = [of |-> i, waits |-> Becomes(new[t])] /\ Becomes(new[t]) \in WaitKinds \cup {"over"}
      BY <1>5 DEF Becomes, ComesTo
    <2>2. [of |-> i, waits |-> Becomes(new[t])] \in [of : Instances \cup {NoInstance}, waits : WaitKinds \cup {"none", "over"}]
      BY <2>1
    <2> QED BY <2>1, <2>2
  <1>9. \A t \in WaitingTokens : waitingToken'[t] \in [of : Instances \cup {NoInstance}, waits : WaitKinds \cup {"none", "over"}]
    BY <1>6, <1>7, <1>8 DEF TokensOK
  <1>10. waitingToken' \in [WaitingTokens -> [of : Instances \cup {NoInstance}, waits : WaitKinds \cup {"none", "over"}]]
    BY <1>2, <1>9
  <1> QED BY <1>1, <1>3, <1>4, <1>5, <1>6, <1>7, <1>10

\* A route's cycle: records and subscriptions go with the tokens; the records it marks itself are of tokens
\* that are over, and it marks those of the tokens it is about, unless there is nothing to close.
LEMMA RouteCycleKeeps ==
    ASSUME TokensOK, NEW i \in Instances, NEW its \in SUBSET Waiting(i), NEW others \in SUBSET Waiting(i),
           NEW D \in SUBSET Unborn, NEW new \in [D -> ComesTo], NEW status \in Statuses,
           NEW M \in SUBSET WaitingTokens, NEW marks \in [M -> {"completed", "cancelled"}],
           \A t \in M : t \in its \cup others \/ waitingToken[t].waits = "over",
           \A t \in its : t \in M \/ record[t] \notin Open, UNCHANGED writtenBack,
           RouteCycle(i, its, others, new, status, marks)
    PROVE  TokensOK' /\ TokensStay
  <1>0. PICK gone \in SUBSET Waiting(i) : gone = its \cup others
    OBVIOUS
  <1>1. /\ Moves(i, gone, new, status) /\ UNCHANGED unindexed
        /\ record' = [t \in WaitingTokens |-> IF t \in M THEN marks[t] ELSE NewRecords(new)[t]]
        /\ subscriptions' = (subscriptions \ gone) \cup For(new, "message")
        /\ interrupted' = interrupted \cup others \cup For(new, "brief")
    BY <1>0 DEF RouteCycle, Resubscribed
  <1>2. /\ instance' \in [Instances -> Statuses]
        /\ waitingToken' \in [WaitingTokens -> [of : Instances \cup {NoInstance}, waits : WaitKinds \cup {"none", "over"}]]
        /\ \A t \in gone : waitingToken'[t].waits = "over" /\ waitingToken'[t].of = i /\ Born(t) /\ waitingToken[t].of = i
        /\ \A t \in D : waitingToken'[t] = [of |-> i, waits |-> Becomes(new[t])] /\ ~Born(t) /\ new[t] \in ComesTo
        /\ \A t \in WaitingTokens : t \notin gone /\ t \notin D => waitingToken'[t] = waitingToken[t]
        /\ gone \subseteq WaitingTokens /\ D \subseteq WaitingTokens
    BY <1>1, MovedTokens
  <1>3. \A t \in M : t \notin D /\ marks[t] \in {"completed", "cancelled"} /\ waitingToken'[t].waits = "over"
    BY <1>0, <1>2 DEF Born
  <1>4. \A t \in WaitingTokens : NewRecords(new)[t] = (IF t \in D /\ new[t] \in {"user", "brief"} THEN "open" ELSE record[t])
    BY DEF NewRecords, For
  <1>5. \A t \in WaitingTokens :
          record'[t] = IF t \in M THEN marks[t] ELSE IF t \in D /\ new[t] \in {"user", "brief"} THEN "open" ELSE record[t]
    BY <1>1, <1>4
  <1>6. record' \in [WaitingTokens -> {"none", "open", "claimed", "completed", "cancelled"}]
    <2>1. \A t \in WaitingTokens : record'[t] \in {"none", "open", "claimed", "completed", "cancelled"}
      BY <1>3, <1>5 DEF TokensOK
    <2> QED BY <1>1, <2>1
  <1>7. \A t : t \in subscriptions' <=> (t \in subscriptions /\ t \notin gone) \/ (t \in D /\ new[t] = "message")
    BY <1>1 DEF For
  <1>8. /\ subscriptions' \subseteq WaitingTokens /\ unindexed' \subseteq WaitingTokens
        /\ interrupted' \subseteq WaitingTokens
    BY <1>0, <1>1, <1>2, <1>7 DEF TokensOK, For
  <1>9. \A t \in WaitingTokens : Born(t)' => waitingToken'[t].of \in Instances
    <2> SUFFICES ASSUME NEW t \in WaitingTokens, Born(t)' PROVE waitingToken'[t].of \in Instances
      OBVIOUS
    <2>1. CASE t \in gone
      BY <1>2, <2>1
    <2>2. CASE t \in D
      <3>1. waitingToken'[t] = [of |-> i, waits |-> Becomes(new[t])]
        BY <1>2, <2>2
      <3>2. waitingToken'[t].of = i
        BY <3>1
      <3> QED BY <3>2
    <2>3. CASE t \notin gone /\ t \notin D
      <3>1. waitingToken'[t] = waitingToken[t]
        BY <1>2, <2>3
      <3> QED BY <3>1 DEF TokensOK, Born
    <2> QED BY <2>1, <2>2, <2>3
  <1>10. \A t \in WaitingTokens : ~Born(t)' => record'[t] = "none" /\ t \notin subscriptions'
    <2> SUFFICES ASSUME NEW t \in WaitingTokens, ~Born(t)' PROVE record'[t] = "none" /\ t \notin subscriptions'
      OBVIOUS
    <2>1. t \notin gone /\ t \notin M
      BY <1>2, <1>3 DEF Born
    <2>2. t \notin D
      <3> SUFFICES ASSUME t \in D PROVE FALSE
        OBVIOUS
      <3>1. waitingToken'[t] = [of |-> i, waits |-> Becomes(new[t])] /\ new[t] \in ComesTo
        BY <1>2
      <3>2. waitingToken'[t].waits \in WaitKinds \cup {"over"}
        BY <3>1 DEF Becomes, ComesTo
      <3> QED BY <3>2 DEF Born, WaitKinds
    <2> QED BY <1>2, <1>5, <1>7, <2>1, <2>2 DEF TokensOK, Born
  <1>11. TasksFollowTokens'
    <2> SUFFICES ASSUME NEW t \in WaitingTokens, t \notin unindexed
                 PROVE  /\ waitingToken'[t].waits = "user" => record'[t] \in Open
                        /\ waitingToken'[t].waits = "message" <=> t \in subscriptions'
                        /\ record'[t] \in {"completed", "cancelled"} => waitingToken'[t].waits = "over"
                        /\ record'[t] \in Open /\ waitingToken'[t].waits = "over" => t \in interrupted' \cup writtenBack'
      BY <1>1 DEF TasksFollowTokens
    <2>0. writtenBack \subseteq writtenBack'
      OBVIOUS
    <2>1. CASE t \in gone
      <3>1. t \notin D
        BY <1>2, <2>1
      <3>2. record'[t] \in Open => t \in interrupted'
        BY <1>0, <1>1, <1>3, <1>5, <2>1, <3>1 DEF Open
      <3> QED BY <1>2, <1>7, <2>1, <3>1, <3>2
    <2>2. CASE t \in D
      <3>1. t \notin gone /\ t \notin M /\ record[t] = "none" /\ t \notin subscriptions
        BY <1>2, <1>3, <2>2 DEF TokensOK
      <3>2. waitingToken'[t] = [of |-> i, waits |-> Becomes(new[t])]
        BY <1>2, <2>2
      <3>3. waitingToken'[t].waits = Becomes(new[t]) /\ new[t] \in ComesTo
        BY <1>2, <2>2, <3>2
      <3>4. new[t] = "brief" => t \in interrupted'
        BY <1>1, <2>2 DEF For
      <3> QED BY <1>5, <1>7, <2>2, <3>1, <3>3, <3>4 DEF Open, Becomes, ComesTo, WaitKinds
    <2>3. CASE t \notin gone /\ t \notin D /\ t \in M
      <3>1. record'[t] \in {"completed", "cancelled"}
        BY <1>3, <1>5, <2>3
      <3> QED BY <1>2, <1>3, <1>7, <2>3, <3>1 DEF TokensOK, TasksFollowTokens, Open
    <2>4. CASE t \notin gone /\ t \notin D /\ t \notin M
      BY <1>1, <1>2, <1>5, <1>7, <2>0, <2>4 DEF TokensOK, TasksFollowTokens
    <2> QED BY <2>1, <2>2, <2>3, <2>4
  <1>12. TokensStay
    BY <1>2, <1>3, <1>5 DEF TokensStay, Born
  <1>13. \A t \in WaitingTokens : waitingToken'[t].waits \in WaitKinds \ {"user"} => record'[t] = "none"
    <2> SUFFICES ASSUME NEW t \in WaitingTokens, waitingToken'[t].waits \in WaitKinds \ {"user"}
                 PROVE  record'[t] = "none"
      OBVIOUS
    <2>1. t \notin gone /\ t \notin M
      BY <1>2, <1>3 DEF WaitKinds
    <2>2. CASE t \in D
      <3>1. waitingToken'[t] = [of |-> i, waits |-> Becomes(new[t])] /\ record[t] = "none"
        BY <1>2, <2>2 DEF TokensOK
      <3>2. waitingToken'[t].waits = Becomes(new[t])
        BY <3>1
      <3> QED BY <1>5, <2>1, <3>1, <3>2 DEF Becomes, WaitKinds
    <2>3. CASE t \notin D
      BY <1>2, <1>5, <2>1, <2>3 DEF TokensOK
    <2> QED BY <2>2, <2>3
  <1> QED BY <1>2, <1>6, <1>8, <1>9, <1>10, <1>11, <1>12, <1>13 DEF TokensOK

\* In particular one that closes the record of one token it moves.
LEMMA CompletingCycleKeeps ==
    ASSUME TokensOK, NEW i \in Instances, NEW others \in SUBSET Waiting(i),
           NEW D \in SUBSET Unborn, NEW new \in [D -> ComesTo], NEW status \in Statuses,
           NEW t \in Waiting(i), UNCHANGED writtenBack,
           NEW M \in SUBSET {t}, record[t] \in Open => M = {t},
           RouteCycle(i, {t}, others, new, status, [u \in M |-> "completed"])
    PROVE  TokensOK' /\ TokensStay
  <1>1. t \in WaitingTokens
    BY DEF Waiting
  <1>2. PICK marks : marks = [u \in M |-> "completed"]
    OBVIOUS
  <1>3. M \in SUBSET WaitingTokens /\ \A u \in M : u \in {t} \cup others \/ waitingToken[u].waits = "over"
    BY <1>1
  <1>4. marks \in [M -> {"completed", "cancelled"}]
    BY <1>2
  <1>5. RouteCycle(i, {t}, others, new, status, marks)
    BY <1>2
  <1>6. {t} \in SUBSET Waiting(i) /\ \A u \in {t} : u \in M \/ record[u] \notin Open
    OBVIOUS
  <1> HIDE <1>2
  <1> QED BY <1>3, <1>4, <1>5, <1>6, RouteCycleKeeps

\* A worker's or timer's cycle: the tokens it moves are indexed no more.
LEMMA BackgroundCycleKeeps ==
    ASSUME TokensOK, NEW i \in Instances, NEW gone \in SUBSET Waiting(i),
           NEW D \in SUBSET Unborn, NEW new \in [D -> ComesTo], NEW status \in Statuses,
           BackgroundCycle(i, gone, new, status), UNCHANGED writtenBack
    PROVE  TokensOK' /\ TokensStay
  <1>1. Moves(i, gone, new, status) /\ unindexed' = unindexed \cup gone \cup D /\ UNCHANGED << record, subscriptions, interrupted >>
    BY DEF BackgroundCycle
  <1>2. /\ instance' \in [Instances -> Statuses]
        /\ waitingToken' \in [WaitingTokens -> [of : Instances \cup {NoInstance}, waits : WaitKinds \cup {"none", "over"}]]
        /\ \A t \in gone : waitingToken'[t].waits = "over" /\ waitingToken'[t].of = i /\ Born(t) /\ waitingToken[t].of = i
        /\ \A t \in D : waitingToken'[t] = [of |-> i, waits |-> Becomes(new[t])] /\ ~Born(t) /\ new[t] \in ComesTo
        /\ \A t \in WaitingTokens : t \notin gone /\ t \notin D => waitingToken'[t] = waitingToken[t]
        /\ gone \subseteq WaitingTokens /\ D \subseteq WaitingTokens
    BY <1>1, MovedTokens
  <1>3. \A t \in WaitingTokens : Born(t)' => waitingToken'[t].of \in Instances
    <2> SUFFICES ASSUME NEW t \in WaitingTokens, Born(t)' PROVE waitingToken'[t].of \in Instances
      OBVIOUS
    <2>1. CASE t \in gone
      BY <1>2, <2>1
    <2>2. CASE t \in D
      <3>1. waitingToken'[t] = [of |-> i, waits |-> Becomes(new[t])]
        BY <1>2, <2>2
      <3>2. waitingToken'[t].of = i
        BY <3>1
      <3> QED BY <3>2
    <2>3. CASE t \notin gone /\ t \notin D
      <3>1. waitingToken'[t] = waitingToken[t]
        BY <1>2, <2>3
      <3> QED BY <3>1 DEF TokensOK, Born
    <2> QED BY <2>1, <2>2, <2>3
  <1>4. TokensStay
    BY <1>1, <1>2 DEF TokensStay, Born
  <1>5. \A t \in WaitingTokens : ~Born(t)' => record'[t] = "none" /\ t \notin subscriptions'
    BY <1>1, <1>4 DEF TokensOK, TokensStay
  <1>6. TasksFollowTokens'
    BY <1>1, <1>2 DEF TokensOK, TasksFollowTokens
  <1>7. unindexed' \subseteq WaitingTokens
    BY <1>1, <1>2 DEF TokensOK
  <1>8. \A t \in WaitingTokens : waitingToken'[t].waits \in WaitKinds \ {"user"} => record'[t] = "none"
    <2> SUFFICES ASSUME NEW t \in WaitingTokens, waitingToken'[t].waits \in WaitKinds \ {"user"}
                 PROVE  record'[t] = "none"
      OBVIOUS
    <2>1. t \notin gone
      BY <1>2 DEF WaitKinds
    <2> QED BY <1>1, <1>2, <2>1 DEF TokensOK
  <1>9. interrupted' \subseteq WaitingTokens
    BY <1>1 DEF TokensOK
  <1> QED BY <1>1, <1>2, <1>3, <1>4, <1>5, <1>6, <1>7, <1>8, <1>9 DEF TokensOK

\* How an instance comes out of a cycle is a status.
LEMMA OutcomeIsStatus ==
    ASSUME TokensOK, NEW i \in Instances, NEW gone, NEW new, NEW status \in Outcomes(i, gone, new)
    PROVE  status \in Statuses
  BY DEF Outcomes, TokensOK, Statuses

-----------------------------------------------------------------------------
(* Steps                                                                    *)

\* A call is entered and the tokens are left alone.
LEMMA Entered ==
    ASSUME TasksInv, NEW c, Enters(c), UNCHANGED Engine, UNCHANGED writtenBack, DefinitionsOK',
           deployments <= deployments', CallFits(c)'
    PROVE  TasksInv'
  <1>1. calls' = calls \cup {c} /\ UNCHANGED << instance, waitingToken, record, subscriptions, unindexed, interrupted >>
    BY DEF Enters, Engine
  <1>2. TokensOK' /\ TokensStay
    BY <1>1 DEF TasksInv, TokensOK, TasksFollowTokens, TokensStay, Born
  <1>3. ASSUME NEW e \in calls PROVE CallFits(e)'
    <2>1. CallFits(e)
      BY DEF TasksInv, CallsFit
    <2>2. deployments \in Nat /\ deployments' \in Nat
      BY UserTasksAssumption DEF TasksInv, DefinitionsOK, UserTasksAssumption
    <2>3. e.op = "deploy" => \E n \in 1..deployments' : e.list = {n}
      BY <2>1, <2>2 DEF CallFits
    <2> QED BY <1>2, <2>1, <2>3 DEF CallFits, TokensStay
  <1> QED BY <1>1, <1>2, <1>3 DEF TasksInv, CallsFit

\* A call leaves, or is outdated, and the tokens are as they should be.
LEMMA Left ==
    ASSUME TasksInv, calls' \subseteq calls, TokensOK', TokensStay, DefinitionsOK', deployments' = deployments
    PROVE  TasksInv'
  <1>1. deployments \in Nat
    BY DEF TasksInv, DefinitionsOK
  <1> QED BY <1>1, CallsStayFit DEF TasksInv

\* Nothing happens to tokens.
LEMMA TokensUntouched ==
    ASSUME TasksInv, UNCHANGED Engine, UNCHANGED writtenBack
    PROVE  TokensOK' /\ TokensStay
  BY DEF TasksInv, TokensOK, TasksFollowTokens, TokensStay, Born, Engine

\* Nothing happens to definitions.
LEMMA DefinitionsUntouched ==
    ASSUME TasksInv, UNCHANGED << Definitions, writtenBack >>
    PROVE  DefinitionsOK' /\ deployments' = deployments
  BY DEF TasksInv, DefinitionsOK, Definitions

\* Deploying and deleting definitions.
LEMMA DefinitionStep ==
    ASSUME TasksInv,
           \/ SaveDefinition(Call("deploy", NoInstance, 0, {deployments + 1}))
           \/ AskDelete(Call("delete", NoInstance, 0, {}))
           \/ \E c \in calls : SaveDefinitionXml(c) \/ DeleteDefinition(c) \/ CallLost(c)
    PROVE  TasksInv'
  <1> USE UserTasksAssumption DEF UserTasksAssumption
  <1>1. DefinitionsOK /\ deployments \in Nat /\ definitionData \in Nat /\ definitionXml \in Nat
    BY DEF TasksInv, DefinitionsOK
  <1>2. CASE SaveDefinition(Call("deploy", NoInstance, 0, {deployments + 1}))
    <2>0. PICK c : c = Call("deploy", NoInstance, 0, {deployments + 1})
      OBVIOUS
    <2>1. /\ deployments < MaxDeploys /\ Enters(c) /\ deployments' = deployments + 1 /\ definitionData' = deployments + 1
          /\ definitionXml' \in {0, definitionXml} /\ crossed' \in BOOLEAN /\ UNCHANGED << Engine, writtenBack >>
      BY <1>2, <2>0 DEF SaveDefinition, Overlaps
    <2>2. DefinitionsOK'
      BY <1>1, <2>1 DEF DefinitionsOK
    <2>3. c \in CallType /\ c.op = "deploy" /\ c.list = {deployments'} /\ deployments' \in 1..deployments'
      BY <1>1, <2>0, <2>1 DEF Call, CallType
    <2>4. CallFits(c)'
      BY <2>3 DEF CallFits
    <2> QED BY <1>1, <2>1, <2>2, <2>4, Entered
  <1>3. CASE AskDelete(Call("delete", NoInstance, 0, {}))
    <2> DEFINE c == Call("delete", NoInstance, 0, {})
    <2>1. Enters(c) /\ crossed' \in BOOLEAN /\ UNCHANGED << deployments, definitionData, definitionXml, Engine, writtenBack >>
      BY <1>3 DEF AskDelete, Overlaps
    <2>2. DefinitionsOK'
      BY <1>1, <2>1 DEF DefinitionsOK
    <2>3. c \in CallType /\ c.op = "delete"
      BY DEF Call, CallType
    <2> HIDE DEF c
    <2>4. CallFits(c)'
      BY <2>3 DEF CallFits
    <2> QED BY <1>1, <2>1, <2>2, <2>4, Entered
  <1>4. ASSUME NEW c \in calls, SaveDefinitionXml(c) \/ DeleteDefinition(c) \/ CallLost(c) PROVE TasksInv'
    <2>1. calls' \subseteq calls /\ UNCHANGED << Engine, writtenBack >> /\ deployments' = deployments
      BY <1>4 DEF SaveDefinitionXml, DeleteDefinition, CallLost, Leaves
    <2>2. c.op = "deploy" => (CHOOSE n \in c.list : TRUE) \in 0..deployments
      <3> SUFFICES ASSUME c.op = "deploy" PROVE (CHOOSE n \in c.list : TRUE) \in 0..deployments
        OBVIOUS
      <3>1. PICK n \in 1..deployments : c.list = {n}
        BY DEF TasksInv, CallsFit, CallFits
      <3>2. (CHOOSE m \in {n} : TRUE) = n
        OBVIOUS
      <3> QED BY <1>1, <3>1, <3>2
    <2>3. DefinitionsOK'
      <3>1. CASE SaveDefinitionXml(c)
        <4>1. UNCHANGED << deployments, definitionData, crossed, writtenBack >>
              /\ definitionXml' = (IF definitionData = 0 THEN 0 ELSE CHOOSE n \in c.list : TRUE) /\ c.op = "deploy"
          BY <3>1 DEF SaveDefinitionXml
        <4>2. definitionXml' \in 0..deployments
          BY <1>1, <2>2, <4>1
        <4> QED BY <1>1, <4>1, <4>2 DEF DefinitionsOK
      <3>2. CASE DeleteDefinition(c)
        BY <1>1, <3>2 DEF DeleteDefinition, DefinitionsOK
      <3>3. CASE CallLost(c)
        <4>1. UNCHANGED << deployments, definitionData, definitionXml, writtenBack >> /\ crossed' \in BOOLEAN
          BY <3>3 DEF CallLost
        <4> QED BY <1>1, <4>1 DEF DefinitionsOK
      <3> QED BY <1>4, <3>1, <3>2, <3>3
    <2> QED BY <2>1, <2>3, TokensUntouched, Left
  <1> QED BY <1>2, <1>3, <1>4

\* Requests that only read, or are still to take effect.
LEMMA AskStep ==
    ASSUME TasksInv,
           \/ \E i \in Instances : AskStart(Call("start", i, 0, {}))
           \/ \E i \in Instances :
                AskCancel(Call("cancel", i, 0, {t \in WaitingTokens : waitingToken[t].of = i /\ record[t] = "open"}))
           \/ \E t \in WaitingTokens, op \in {"complete", "claim", "release"} : ReadTask(Call(op, NoInstance, t, {}))
    PROVE  TasksInv'
  <1> USE UserTasksAssumption DEF UserTasksAssumption
  <1>1. DefinitionsOK /\ TokensOK /\ deployments \in Nat
    BY DEF TasksInv, DefinitionsOK
  <1>2. ASSUME NEW i \in Instances, AskStart(Call("start", i, 0, {})) PROVE TasksInv'
    <2> DEFINE c == Call("start", i, 0, {})
    <2>1. Enters(c) /\ crossed' \in BOOLEAN /\ UNCHANGED << deployments, definitionData, definitionXml, Engine, writtenBack >>
      BY <1>2 DEF AskStart, Overlaps
    <2>2. DefinitionsOK'
      BY <1>1, <2>1 DEF DefinitionsOK
    <2>3. c \in CallType /\ c.op = "start" /\ c.of = i
      BY DEF Call, CallType
    <2> HIDE DEF c
    <2>4. CallFits(c)'
      BY <2>3 DEF CallFits
    <2> QED BY <1>1, <2>1, <2>2, <2>4, Entered
  <1>3. ASSUME NEW i \in Instances,
               AskCancel(Call("cancel", i, 0, {t \in WaitingTokens : waitingToken[t].of = i /\ record[t] = "open"}))
        PROVE  TasksInv'
    <2>0. PICK list : list = {t \in WaitingTokens : waitingToken[t].of = i /\ record[t] = "open"}
      OBVIOUS
    <2>. PICK c : c = Call("cancel", i, 0, list)
      OBVIOUS
    <2>1. Enters(c) /\ UNCHANGED << Definitions, Engine, writtenBack >>
      BY <1>3, <2>0 DEF AskCancel
    <2>2. DefinitionsOK' /\ deployments' = deployments
      BY <2>1, DefinitionsUntouched
    <2>3. \A t \in list : t \in WaitingTokens /\ waitingToken[t].of = i /\ Born(t)
      BY <1>1, <2>0 DEF TokensOK
    <2>4. c \in CallType /\ c.op = "cancel" /\ c.of = i /\ c.list = list
      BY <2>3 DEF Call, CallType
    <2>5. \A t \in list : Born(t)' /\ waitingToken'[t].of = i
      BY <2>1, <2>3 DEF Born, Engine
    <2>6. CallFits(c)'
      BY <2>3, <2>4, <2>5 DEF CallFits
    <2> QED BY <1>1, <2>1, <2>2, <2>6, Entered
  <1>4. ASSUME NEW t \in WaitingTokens, NEW op \in {"complete", "claim", "release"}, ReadTask(Call(op, NoInstance, t, {}))
        PROVE  TasksInv'
    <2> DEFINE c == Call(op, NoInstance, t, {})
    <2>1. c \in CallType /\ c.op = op /\ c.token = t
      BY DEF Call, CallType, WaitingTokens
    <2>2. Enters(c) /\ UNCHANGED << Definitions, Engine, writtenBack >> /\ record[t] # "none"
      BY <1>4, <2>1 DEF ReadTask
    <2>3. DefinitionsOK' /\ deployments' = deployments
      BY <2>2, DefinitionsUntouched
    <2>4. Born(t)' /\ record'[t] # "none"
      BY <1>1, <2>2 DEF TokensOK, Born, Engine
    <2> HIDE DEF c
    <2>5. CallFits(c)'
      BY <2>1, <2>4 DEF CallFits
    <2> QED BY <1>1, <2>2, <2>3, <2>5, Entered
  <1> QED BY <1>2, <1>3, <1>4

\* Cycles of routes on an instance: start, suspend, resume, cancel, messages.
LEMMA InstanceStep ==
    ASSUME TasksInv,
           \/ \E c \in calls : StartInstance(c) \/ CancelInstance(c)
           \/ \E i \in Instances, to \in {"active", "suspended"} : SuspendOrResume(i, to)
           \/ \E s \in WaitingTokens : DeliverMessage(s) \/ ForceStep(s)
    PROVE  TasksInv'
  <1>1. TokensOK
    BY DEF TasksInv
  <1>2. DefinitionsOK' /\ deployments' = deployments /\ UNCHANGED writtenBack
    BY DefinitionsUntouched DEF StartInstance, CancelInstance, SuspendOrResume, DeliverMessage, ForceStep
  <1>3. calls' \subseteq calls
    BY DEF StartInstance, CancelInstance, SuspendOrResume, DeliverMessage, ForceStep, Leaves, Outdates
  <1>4. {} \in SUBSET Unborn /\ {} \in SUBSET WaitingTokens /\ \A i : {} \in SUBSET Waiting(i)
    OBVIOUS
  <1>5. ASSUME NEW c \in calls, StartInstance(c) PROVE TokensOK' /\ TokensStay
    <2>1. c.of \in Instances
      BY <1>5 DEF TasksInv, CallsFit, CallFits, StartInstance
    <2>2. PICK new \in NewWaits(2) :
            RouteCycle(c.of, {}, {}, new, IF DOMAIN new = For(new, "brief") THEN "completed" ELSE "active", << >>)
      BY <1>5 DEF StartInstance
    <2>3. DOMAIN new \in SUBSET Unborn /\ new \in [DOMAIN new -> ComesTo]
      BY NewAreUnborn
    <2>4. (IF DOMAIN new = For(new, "brief") THEN "completed" ELSE "active") \in Statuses
      BY DEF Statuses
    <2> QED BY <1>1, <1>4, <2>1, <2>2, <2>3, <2>4, <1>2, NothingMoves, RouteCycleKeeps
  <1>6. ASSUME NEW c \in calls, CancelInstance(c) PROVE TokensOK' /\ TokensStay
    <2>1. c.of \in Instances /\ \A t \in c.list : t \in WaitingTokens /\ waitingToken[t].of = c.of /\ Born(t)
      BY <1>6 DEF TasksInv, CallsFit, CallFits, CancelInstance
    <2>2. RouteCycle(c.of, Waiting(c.of) \cap c.list, Waiting(c.of) \ c.list, << >>, "terminated",
                     [t \in c.list |-> "cancelled"])
      BY <1>6 DEF CancelInstance
    <2>3. \A t \in c.list : t \in (Waiting(c.of) \cap c.list) \cup (Waiting(c.of) \ c.list) \/ waitingToken[t].waits = "over"
      BY <1>1, <2>1 DEF TokensOK, Waiting, Born
    <2>4. c.list \in SUBSET WaitingTokens /\ [t \in c.list |-> "cancelled"] \in [c.list -> {"completed", "cancelled"}]
          /\ "terminated" \in Statuses
      BY <2>1 DEF Statuses
    <2>5. PICK its, others : its = Waiting(c.of) \cap c.list /\ others = Waiting(c.of) \ c.list
      OBVIOUS
    <2>6. its \in SUBSET Waiting(c.of) /\ others \in SUBSET Waiting(c.of) /\ \A t \in its : t \in c.list
      BY <2>5
    <2>7. PICK M \in SUBSET WaitingTokens : M = c.list
      BY <2>4
    <2>8. PICK marks \in [M -> {"completed", "cancelled"}] : marks = [t \in c.list |-> "cancelled"]
      BY <2>4, <2>7
    <2>9. /\ RouteCycle(c.of, its, others, << >>, "terminated", marks)
          /\ \A t \in M : t \in its \cup others \/ waitingToken[t].waits = "over"
          /\ \A t \in its : t \in M \/ record[t] \notin Open
      BY <2>2, <2>3, <2>5, <2>6, <2>7, <2>8
    <2>10. PICK i \in Instances, none \in [{} -> ComesTo], over \in Statuses :
             i = c.of /\ none = << >> /\ over = "terminated"
      BY <2>1, <2>4, NothingMoves
    <2>11. RouteCycle(i, its, others, none, over, marks) /\ its \in SUBSET Waiting(i) /\ others \in SUBSET Waiting(i)
      BY <2>6, <2>9, <2>10
    <2> QED BY <1>1, <1>2, <1>4, <2>9, <2>11, RouteCycleKeeps
  <1>7. ASSUME NEW i \in Instances, NEW to \in {"active", "suspended"}, SuspendOrResume(i, to) PROVE TokensOK' /\ TokensStay
    <2>1. RouteCycle(i, {}, {}, << >>, to, << >>) /\ to \in Statuses
      BY <1>7 DEF SuspendOrResume, Statuses
    <2> QED BY <1>1, <1>2, <1>4, <2>1, NothingMoves, RouteCycleKeeps
  <1>8. ASSUME NEW s \in WaitingTokens, DeliverMessage(s) PROVE TokensOK' /\ TokensStay
    <2> DEFINE i == waitingToken[s].of
    <2>1. PICK t \in Waiting(i), new \in NewWaits(1), others \in SUBSET Waiting(i) :
            /\ waitingToken[t].waits = "message"
            /\ \E status \in Outcomes(i, others \cup {t}, new) : RouteCycle(i, {t}, others, new, status, << >>)
      BY <1>8 DEF DeliverMessage
    <2>2. PICK status \in Outcomes(i, others \cup {t}, new) : RouteCycle(i, {t}, others, new, status, << >>)
      BY <2>1
    <2>3. i \in Instances /\ record[t] = "none"
      BY <1>1, <2>1 DEF Waiting, TokensOK, Born, WaitKinds
    <2>4. status \in Statuses
      BY <1>1, <2>3, OutcomeIsStatus
    <2>5. DOMAIN new \in SUBSET Unborn /\ new \in [DOMAIN new -> ComesTo]
      BY NewAreUnborn
    <2>6. {t} \in SUBSET Waiting(i) /\ \A u \in {t} : u \in {} \/ record[u] \notin Open
      BY <2>3 DEF Open
    <2> HIDE DEF i
    <2> QED BY <1>1, <1>2, <1>4, <2>2, <2>3, <2>4, <2>5, <2>6, NothingMoves, RouteCycleKeeps
  <1>10. ASSUME NEW s \in WaitingTokens, ForceStep(s) PROVE TokensOK' /\ TokensStay
    <2> DEFINE i == waitingToken[s].of
               M == {u \in {s} : record[u] \in Open}
    <2>1. s \in Waiting(i) /\ i \in Instances
      BY <1>1, <1>10 DEF ForceStep, Waiting, TokensOK, Born, WaitKinds
    <2>2. PICK others \in SUBSET Waiting(i), new \in NewWaits(1) :
            \E status \in Outcomes(i, others \cup {s}, new) :
                RouteCycle(i, {s}, others, new, status, [u \in M |-> "completed"])
      BY <1>10 DEF ForceStep
    <2>3. PICK status \in Outcomes(i, others \cup {s}, new) :
            RouteCycle(i, {s}, others, new, status, [u \in M |-> "completed"])
      BY <2>2
    <2>4. M \in SUBSET {s} /\ (record[s] \in Open => M = {s}) /\ status \in Statuses
      BY <1>1, <2>1, OutcomeIsStatus
    <2>5. DOMAIN new \in SUBSET Unborn /\ new \in [DOMAIN new -> ComesTo]
      BY NewAreUnborn
    <2> HIDE DEF i, M
    <2> QED BY <1>1, <1>2, <2>1, <2>3, <2>4, <2>5, CompletingCycleKeeps
  <1>9. TokensOK' /\ TokensStay
    BY <1>5, <1>6, <1>7, <1>8, <1>10
  <1> QED BY <1>2, <1>3, <1>9, Left

\* A worker's or timer's cycle.
LEMMA BackgroundStep ==
    ASSUME TasksInv, NEW i \in Instances, Background(i)
    PROVE  TasksInv'
  <1>1. PICK gone \in SUBSET Waiting(i), new \in NewWaits(1) :
          \E status \in Outcomes(i, gone, new) : BackgroundCycle(i, gone, new, status)
    BY DEF Background
  <1>2. PICK status \in Outcomes(i, gone, new) : BackgroundCycle(i, gone, new, status)
    BY <1>1
  <1>3. TokensOK /\ status \in Statuses
    BY OutcomeIsStatus DEF TasksInv
  <1>4. DOMAIN new \in SUBSET Unborn /\ new \in [DOMAIN new -> ComesTo]
    BY NewAreUnborn
  <1>6. DefinitionsOK' /\ deployments' = deployments /\ UNCHANGED writtenBack
    BY DefinitionsUntouched DEF Background
  <1>5. TokensOK' /\ TokensStay
    BY <1>2, <1>3, <1>4, <1>6, BackgroundCycleKeeps
  <1>7. calls' \subseteq calls
    BY DEF Background, Outdates
  <1> QED BY <1>5, <1>6, <1>7, Left

\* A record is written back whatever became of it: an open one at worst, of a token that came to wait.
LEMMA WriteStep ==
    ASSUME TasksInv, NEW c \in calls, WriteTask(c)
    PROVE  TasksInv'
  <1>1. TokensOK /\ c.token \in WaitingTokens /\ Born(c.token) /\ record[c.token] # "none"
    BY DEF TasksInv, CallsFit, CallFits, WriteTask
  <1>2. PICK r \in {"claimed", "open"} : record' = [record EXCEPT ![c.token] = r]
    BY DEF WriteTask
  <1>3. UNCHANGED << deployments, definitionData, definitionXml, crossed, instance, waitingToken, subscriptions, unindexed, interrupted >>
        /\ calls' \subseteq calls /\ writtenBack \subseteq writtenBack' /\ writtenBack' \subseteq writtenBack \cup {c.token}
        /\ (record[c.token] \in Open \/ c.token \in writtenBack')
    BY DEF WriteTask, Definitions, Leaves
  <1>4. record' \in [WaitingTokens -> {"none", "open", "claimed", "completed", "cancelled"}]
    BY <1>1, <1>2 DEF TokensOK
  <1>5. \A t \in WaitingTokens : record'[t] = IF t = c.token THEN r ELSE record[t]
    BY <1>1, <1>2 DEF TokensOK
  <1>6. TasksFollowTokens'
    BY <1>1, <1>2, <1>3, <1>5 DEF TokensOK, TasksFollowTokens, Open
  <1>7. \A t \in WaitingTokens : ~Born(t)' => record'[t] = "none" /\ t \notin subscriptions'
    BY <1>1, <1>3, <1>5 DEF TokensOK, Born
  <1>8. \A t \in WaitingTokens : Born(t)' => waitingToken'[t].of \in Instances
    BY <1>1, <1>3 DEF TokensOK, Born
  <1>81. \A t \in WaitingTokens : waitingToken'[t].waits \in WaitKinds \ {"user"} => record'[t] = "none"
    BY <1>1, <1>3, <1>5 DEF TokensOK
  <1>9. TokensOK' /\ TokensStay
    BY <1>1, <1>2, <1>3, <1>4, <1>5, <1>6, <1>7, <1>8, <1>81 DEF TokensOK, TokensStay, Born
  <1>10. DefinitionsOK'
    BY <1>1, <1>3 DEF TasksInv, DefinitionsOK
  <1> QED BY <1>3, <1>9, <1>10, Left

\* A task is completed, if its token still waits for a user.
LEMMA CompleteStep ==
    ASSUME TasksInv, NEW c \in calls, CompleteTask(c)
    PROVE  TasksInv'
  <1> DEFINE i == waitingToken[c.token].of
  <1>1. TokensOK /\ c.token \in WaitingTokens /\ Born(c.token)
    BY DEF TasksInv, CallsFit, CallFits, CompleteTask
  <1>2. DefinitionsOK' /\ deployments' = deployments /\ UNCHANGED writtenBack
    BY DefinitionsUntouched DEF CompleteTask
  <1>3. calls' \subseteq calls
    BY DEF CompleteTask, Leaves, Outdates
  <1>4. CASE waitingToken[c.token].waits # "user"
    <2>1. UNCHANGED Engine
      BY <1>4 DEF CompleteTask
    <2> QED BY <1>2, <1>3, <2>1, TokensUntouched, Left
  <1>5. CASE waitingToken[c.token].waits = "user"
    <2>1. i \in Instances /\ c.token \in Waiting(i)
      BY <1>1, <1>5 DEF TokensOK, Waiting, WaitKinds
    <2>. PICK j \in Instances : j = i
      BY <2>1
    <2>2. PICK others \in SUBSET (Waiting(j) \ {c.token}), new \in NewWaits(1) :
            \E status \in Outcomes(j, others \cup {c.token}, new) :
                RouteCycle(j, {c.token}, others, new, status, [t \in {c.token} |-> "completed"])
      BY <1>5 DEF CompleteTask
    <2>3. PICK status \in Outcomes(j, others \cup {c.token}, new) :
            RouteCycle(j, {c.token}, others, new, status, [t \in {c.token} |-> "completed"])
      BY <2>2
    <2>5. DOMAIN new \in SUBSET Unborn /\ new \in [DOMAIN new -> ComesTo]
      BY NewAreUnborn
    <2>6. status \in Statuses
      BY <1>1, <2>1, <2>3, OutcomeIsStatus
    <2>4. PICK M : M = {c.token}
      OBVIOUS
    <2>8. RouteCycle(j, {c.token}, others, new, status, [t \in M |-> "completed"]) /\ c.token \in Waiting(j)
          /\ others \in SUBSET Waiting(j) /\ M \in SUBSET {c.token} /\ M = {c.token}
      BY <2>1, <2>3, <2>4
    <2> HIDE DEF i
    <2>7. TokensOK' /\ TokensStay
      BY <1>1, <1>2, <2>8, <2>5, <2>6, CompletingCycleKeeps
    <2> QED BY <1>2, <1>3, <2>7, Left
  <1> QED BY <1>4, <1>5

\* At the start nothing is deployed and no token waits.
LEMMA TasksStart == UserTasksInit => TasksInv
<1> SUFFICES ASSUME UserTasksInit PROVE TasksInv
  OBVIOUS
<1>1. DefinitionsOK /\ CallsFit
  <2>1. deployments = 0 /\ definitionData = 0 /\ definitionXml = 0 /\ writtenBack = {} /\ crossed = FALSE /\ calls = {}
    BY DEF UserTasksInit
  <2>2. 0 \in 0..MaxDeploys /\ 0 \in 0..0 /\ FALSE \in BOOLEAN
    BY UserTasksAssumption DEF UserTasksAssumption
  <2> QED BY <2>1, <2>2 DEF DefinitionsOK, CallsFit
<1>2. \A t \in WaitingTokens : waitingToken[t].waits = "none" /\ record[t] = "none"
  BY DEF UserTasksInit
<1>3. TasksFollowTokens
  BY <1>2 DEF TasksFollowTokens, UserTasksInit
<1>4. TokensOK
  BY <1>2, <1>3 DEF UserTasksInit, TokensOK, Statuses, Born
<1> QED BY <1>1, <1>4 DEF TasksInv

\* Every request and every cycle.
LEMMA TasksKept == TasksInv /\ [UserTasksNext]_userTaskVars => TasksInv'
<1> SUFFICES ASSUME TasksInv, [UserTasksNext]_userTaskVars PROVE TasksInv'
  OBVIOUS
<1>1. CASE UNCHANGED userTaskVars
  BY <1>1 DEF userTaskVars, TasksInv, DefinitionsOK, TokensOK, CallsFit, CallFits, TasksFollowTokens, Born
<1> QED BY <1>1, DefinitionStep, AskStep, InstanceStep, BackgroundStep, WriteStep, CompleteStep DEF UserTasksNext

\* Routes of tasks, messages, instances and definitions, with workers and timers in between: types are kept, and
\* records and subscriptions follow the tokens.
THEOREM TasksInvariance == UserTasksSpec => []TasksInv
  BY TasksStart, TasksKept, PTL DEF UserTasksSpec

\* tasks.ts, buildUserTaskCreationOps and computeStoreOps: a token that waits for a user at the top level of its definition
\* has a record that can be completed, one that waits for a message is in the index, only records of tokens that are over
\* are closed, and of those only a cycle about another token or a write of an earlier read leaves one open.  Cycles of
\* workers and timers, which write neither, are excepted, and so are user tasks of sub-processes, which have no record.
THEOREM RecordsFollowTokens == UserTasksSpec => []TasksFollowTokens
  BY TasksInvariance, PTL DEF TasksInv, TokensOK

\* Records and subscriptions belong to tokens that came to wait; calls refer to what there is.
THEOREM TaskTypes == UserTasksSpec => []UserTasksTypeOK
  BY TasksInvariance, InvTypes, PTL

-----------------------------------------------------------------------------
(* Definitions                                                              *)

\* Unless requests on the definition overlapped: a start under way needs the definition as a running instance does, a
\* deletion under way has seen none and nothing else touches the definition, a deployment under way is the last one.
DefinitionsInv ==
    crossed \/
        /\ (Live # {} \/ \E c \in calls : c.op = "start") => definitionData > 0
        /\ (\E c \in calls : c.op = "delete") => Live = {} /\ \A c \in calls : c.op \notin {"start", "deploy"}
        /\ \A c \in calls : c.op = "deploy" => c.list = {definitionData}
        /\ definitionXml = definitionData \/ \E c \in calls : c.op = "deploy"

\* Cycles on instances leave it alone: they start none, and no request on the definition ends.
LEMMA DefinitionsLeftAlone ==
    ASSUME DefinitionsInv, UNCHANGED Definitions, Live' \subseteq Live,
           calls' \subseteq calls, \A c \in calls : c.op = "deploy" => c \in calls'
    PROVE  DefinitionsInv'
  BY DEF DefinitionsInv, Definitions

\* A cycle of an instance leaves it running only if it was, or if that is how it is to be left.
LEMMA MovedInstances ==
    ASSUME TokensOK, NEW i \in Instances, NEW gone, NEW new, NEW status, Moves(i, gone, new, status)
    PROVE  /\ status \notin {"active", "suspended"} => Live' \subseteq Live
           /\ i \in Live => Live' \subseteq Live
           /\ status = instance[i] => Live' \subseteq Live
           /\ Live' \subseteq Live \cup {i}
  <1>1. instance' = [instance EXCEPT ![i] = status] /\ instance \in [Instances -> Statuses]
    BY DEF Moves, TokensOK
  <1>2. \A j \in Instances : instance'[j] = IF j = i THEN status ELSE instance[j]
    BY <1>1
  <1> QED BY <1>2 DEF Live

\* A cycle that does not change the status but to end it.
LEMMA OutcomeEnds ==
    ASSUME TokensOK, NEW i \in Instances, NEW gone, NEW new, NEW status \in Outcomes(i, gone, new), Moves(i, gone, new, status)
    PROVE  Live' \subseteq Live
  <1>1. status = instance[i] \/ status = "completed"
    BY DEF Outcomes
  <1> QED BY <1>1, MovedInstances

\* Requests on the definition.
LEMMA DefinitionRequests ==
    ASSUME TasksInv, DefinitionsInv,
           \/ SaveDefinition(Call("deploy", NoInstance, 0, {deployments + 1}))
           \/ AskDelete(Call("delete", NoInstance, 0, {}))
           \/ \E i \in Instances : AskStart(Call("start", i, 0, {}))
           \/ \E c \in calls : SaveDefinitionXml(c) \/ DeleteDefinition(c) \/ CallLost(c)
    PROVE  DefinitionsInv'
  <1> SUFFICES ASSUME ~ crossed'
               PROVE  DefinitionsInv'
    BY DEF DefinitionsInv
  <1>1. definitionData \in Nat /\ definitionXml \in Nat /\ deployments \in Nat /\ crossed \in BOOLEAN
    BY DEF TasksInv, DefinitionsOK
  <1>2. CASE SaveDefinition(Call("deploy", NoInstance, 0, {deployments + 1}))
    <2> DEFINE d == Call("deploy", NoInstance, 0, {deployments + 1})
    <2>1. d.op = "deploy" /\ d.list = {deployments + 1}
      BY DEF Call
    <2> HIDE DEF d
    <2>2. /\ calls' = calls \cup {d} /\ definitionData' = deployments + 1 /\ UNCHANGED Engine
          /\ ~ crossed /\ \A c \in calls : c.op \notin {"deploy", "delete"}
      BY <1>2 DEF SaveDefinition, Enters, Overlaps, d
    <2>3. Live' = Live
      BY <2>2 DEF Live, Engine
    <2> QED BY <1>1, <2>1, <2>2, <2>3 DEF DefinitionsInv
  <1>3. CASE AskDelete(Call("delete", NoInstance, 0, {}))
    <2> DEFINE d == Call("delete", NoInstance, 0, {})
    <2>1. d.op = "delete"
      BY DEF Call
    <2> HIDE DEF d
    <2>2. /\ calls' = calls \cup {d} /\ Live = {} /\ definitionData > 0
          /\ UNCHANGED << definitionData, definitionXml, Engine >>
          /\ ~ crossed /\ \A c \in calls : c.op \notin {"deploy", "start"}
      BY <1>3 DEF AskDelete, Enters, Overlaps, InUse, d
    <2>3. Live' = Live
      BY <2>2 DEF Live, Engine
    <2> QED BY <1>1, <2>1, <2>2, <2>3 DEF DefinitionsInv
  <1>4. ASSUME NEW i \in Instances, AskStart(Call("start", i, 0, {}))
        PROVE  DefinitionsInv'
    <2> DEFINE d == Call("start", i, 0, {})
    <2>1. d.op = "start"
      BY DEF Call
    <2> HIDE DEF d
    <2>2. /\ calls' = calls \cup {d} /\ definitionData > 0
          /\ UNCHANGED << definitionData, definitionXml, Engine >>
          /\ ~ crossed /\ \A c \in calls : c.op # "delete"
      BY <1>4 DEF AskStart, Enters, Overlaps, d
    <2>3. Live' = Live
      BY <2>2 DEF Live, Engine
    <2> QED BY <1>1, <2>1, <2>2, <2>3 DEF DefinitionsInv
  <1>5. ASSUME NEW c \in calls, SaveDefinitionXml(c)
        PROVE  DefinitionsInv'
    <2>1. /\ calls' = calls \ {c} /\ c.op = "deploy" /\ UNCHANGED << definitionData, crossed, Engine >>
          /\ definitionXml' = IF definitionData = 0 THEN 0 ELSE CHOOSE n \in c.list : TRUE
      BY <1>5 DEF SaveDefinitionXml, Leaves
    <2>2. c.list = {definitionData}
      BY <2>1 DEF DefinitionsInv
    <2>3. definitionXml' = definitionData /\ Live' = Live
      BY <2>1, <2>2 DEF Live, Engine
    <2> QED BY <2>1, <2>3 DEF DefinitionsInv
  <1>6. ASSUME NEW c \in calls, DeleteDefinition(c)
        PROVE  DefinitionsInv'
    <2>1. /\ calls' = calls \ {c} /\ c.op = "delete" /\ UNCHANGED << crossed, Engine >>
          /\ definitionData' = 0 /\ definitionXml' = 0
      BY <1>6 DEF DeleteDefinition, Leaves
    <2>2. Live' = {} /\ \A d \in calls : d.op \notin {"start", "deploy"}
      BY <2>1 DEF DefinitionsInv, Live, Engine
    <2> QED BY <2>1, <2>2 DEF DefinitionsInv
  <1>7. ASSUME NEW c \in calls, CallLost(c)
        PROVE  DefinitionsInv'
    <2>1. /\ calls' = calls \ {c} /\ ~ crossed /\ c.op # "deploy" /\ UNCHANGED << definitionData, definitionXml, Engine >>
      BY <1>7 DEF CallLost, Leaves
    <2>2. Live' = Live
      BY <2>1 DEF Live, Engine
    <2> QED BY <2>1, <2>2 DEF DefinitionsInv
  <1> QED BY <1>2, <1>3, <1>4, <1>5, <1>6, <1>7

\* Everything else.
LEMMA InstanceRequests ==
    ASSUME TasksInv, DefinitionsInv,
           \/ \E i \in Instances :
                \/ Background(i) \/ \E to \in {"active", "suspended"} : SuspendOrResume(i, to)
                \/ AskCancel(Call("cancel", i, 0, {t \in WaitingTokens : waitingToken[t].of = i /\ record[t] = "open"}))
           \/ \E t \in WaitingTokens, op \in {"complete", "claim", "release"} : ReadTask(Call(op, NoInstance, t, {}))
           \/ \E s \in WaitingTokens : DeliverMessage(s) \/ ForceStep(s)
           \/ \E c \in calls : StartInstance(c) \/ CancelInstance(c) \/ WriteTask(c) \/ CompleteTask(c)
    PROVE  DefinitionsInv'
  <1>1. TokensOK
    BY DEF TasksInv
  <1>2. ASSUME NEW i \in Instances, NEW cs, cs \subseteq calls, \A c \in calls : c.op = "deploy" => c \in cs
        PROVE  Outdates(i, cs) \subseteq calls /\ \A c \in calls : c.op = "deploy" => c \in Outdates(i, cs)
    BY <1>2 DEF Outdates
  <1>3. ASSUME NEW c, Enters(c), c.op \notin {"start", "delete", "deploy"}, UNCHANGED Definitions, UNCHANGED Engine
        PROVE  DefinitionsInv'
    <2>1. calls' = calls \cup {c} /\ Live' = Live
      BY <1>3 DEF Enters, Live, Engine
    <2> QED BY <1>3, <2>1 DEF DefinitionsInv, Definitions
  <1>4. ASSUME NEW i \in Instances, Background(i)
        PROVE  DefinitionsInv'
    <2>1. PICK gone \in SUBSET Waiting(i), new \in NewWaits(1) :
            \E status \in Outcomes(i, gone, new) : BackgroundCycle(i, gone, new, status)
      BY <1>4 DEF Background
    <2>2. PICK status \in Outcomes(i, gone, new) : BackgroundCycle(i, gone, new, status)
      BY <2>1
    <2>3. Live' \subseteq Live
      BY <1>1, <2>2, OutcomeEnds DEF BackgroundCycle
    <2>4. calls' = Outdates(i, calls) /\ UNCHANGED Definitions
      BY <1>4 DEF Background
    <2> QED BY <1>2, <2>3, <2>4, DefinitionsLeftAlone
  <1>5. ASSUME NEW i \in Instances, NEW to \in {"active", "suspended"}, SuspendOrResume(i, to)
        PROVE  DefinitionsInv'
    <2>1. i \in Live /\ Moves(i, {}, << >>, to) /\ calls' = Outdates(i, calls) /\ UNCHANGED Definitions
      BY <1>5 DEF SuspendOrResume, RouteCycle, Live
    <2>2. Live' \subseteq Live
      BY <1>1, <2>1, MovedInstances
    <2> QED BY <1>2, <2>1, <2>2, DefinitionsLeftAlone
  <1>6. ASSUME NEW i \in Instances,
               AskCancel(Call("cancel", i, 0, {t \in WaitingTokens : waitingToken[t].of = i /\ record[t] = "open"}))
        PROVE  DefinitionsInv'
    <2>1. PICK c : c = Call("cancel", i, 0, {t \in WaitingTokens : waitingToken[t].of = i /\ record[t] = "open"})
      OBVIOUS
    <2>2. c.op = "cancel"
      BY <2>1 DEF Call
    <2>3. Enters(c) /\ UNCHANGED Definitions /\ UNCHANGED Engine
      BY <1>6, <2>1 DEF AskCancel
    <2> QED BY <1>3, <2>2, <2>3
  <1>7. ASSUME NEW t \in WaitingTokens, NEW op \in {"complete", "claim", "release"}, ReadTask(Call(op, NoInstance, t, {}))
        PROVE  DefinitionsInv'
    <2>1. PICK c : c = Call(op, NoInstance, t, {})
      OBVIOUS
    <2>2. c.op \notin {"start", "delete", "deploy"}
      BY <2>1 DEF Call
    <2>3. Enters(c) /\ UNCHANGED Definitions /\ UNCHANGED Engine
      BY <1>7, <2>1 DEF ReadTask
    <2> QED BY <1>3, <2>2, <2>3
  <1>8. ASSUME NEW s \in WaitingTokens, DeliverMessage(s)
        PROVE  DefinitionsInv'
    <2> DEFINE i == waitingToken[s].of
    <2>1. PICK t \in Waiting(i), new \in NewWaits(1), others \in SUBSET Waiting(i) :
            \E status \in Outcomes(i, others \cup {t}, new) : RouteCycle(i, {t}, others, new, status, << >>)
      BY <1>8 DEF DeliverMessage
    <2>2. PICK status \in Outcomes(i, others \cup {t}, new) : Moves(i, {t} \cup others, new, status)
      BY <2>1 DEF RouteCycle
    <2>3. i \in Instances /\ {t} \cup others = others \cup {t}
      BY <1>1, <2>1 DEF Waiting, TokensOK, Born, WaitKinds
    <2>4. calls' = Outdates(i, calls) /\ UNCHANGED Definitions
      BY <1>8 DEF DeliverMessage
    <2> HIDE DEF i
    <2>5. Live' \subseteq Live
      BY <1>1, <2>2, <2>3, OutcomeEnds
    <2> QED BY <1>2, <2>3, <2>4, <2>5, DefinitionsLeftAlone
  <1>13. ASSUME NEW s \in WaitingTokens, ForceStep(s)
        PROVE  DefinitionsInv'
    <2> DEFINE i == waitingToken[s].of
    <2>1. PICK new \in NewWaits(1), others \in SUBSET Waiting(i) :
            \E status \in Outcomes(i, others \cup {s}, new) : Moves(i, {s} \cup others, new, status)
      BY <1>13 DEF ForceStep, RouteCycle
    <2>2. PICK status \in Outcomes(i, others \cup {s}, new) : Moves(i, {s} \cup others, new, status)
      BY <2>1
    <2>3. i \in Instances /\ {s} \cup others = others \cup {s}
      BY <1>1, <1>13 DEF ForceStep, TokensOK, Born, WaitKinds
    <2>4. calls' = Outdates(i, calls) /\ UNCHANGED Definitions
      BY <1>13 DEF ForceStep
    <2> HIDE DEF i
    <2>5. Live' \subseteq Live
      BY <1>1, <2>2, <2>3, OutcomeEnds
    <2> QED BY <1>2, <2>3, <2>4, <2>5, DefinitionsLeftAlone
  <1>9. ASSUME NEW c \in calls, StartInstance(c)
        PROVE  DefinitionsInv'
    <2>1. c.op = "start" /\ c.of \in Instances /\ calls' = calls \ {c} /\ UNCHANGED Definitions
      BY <1>9 DEF TasksInv, CallsFit, CallFits, StartInstance, Leaves
    <2>2. crossed \/ (definitionData > 0 /\ \A d \in calls : d.op # "delete")
      BY <2>1 DEF DefinitionsInv
    <2> QED BY <2>1, <2>2 DEF DefinitionsInv, Definitions
  <1>10. ASSUME NEW c \in calls, CancelInstance(c)
         PROVE  DefinitionsInv'
    <2>0. (Waiting(c.of) \cap c.list) \cup (Waiting(c.of) \ c.list) = Waiting(c.of)
      OBVIOUS
    <2>1. c.of \in Instances /\ calls' = Outdates(c.of, calls) /\ UNCHANGED Definitions
          /\ Moves(c.of, Waiting(c.of), << >>, "terminated")
      BY <1>10, <2>0 DEF TasksInv, CallsFit, CallFits, CancelInstance, RouteCycle
    <2>2. Live' \subseteq Live
      BY <1>1, <2>1, MovedInstances
    <2> QED BY <1>2, <2>1, <2>2, DefinitionsLeftAlone
  <1>11. ASSUME NEW c \in calls, WriteTask(c)
         PROVE  DefinitionsInv'
    <2>1. c.op # "deploy" /\ calls' = calls \ {c} /\ UNCHANGED Definitions /\ instance' = instance
      BY <1>11 DEF WriteTask, Leaves
    <2>2. Live' = Live
      BY <2>1 DEF Live
    <2> QED BY <2>1, <2>2, DefinitionsLeftAlone
  <1>12. ASSUME NEW c \in calls, CompleteTask(c)
         PROVE  DefinitionsInv'
    <2> DEFINE i == waitingToken[c.token].of
    <2>1. c.op = "complete" /\ c.token \in WaitingTokens /\ Born(c.token) /\ UNCHANGED Definitions
      BY <1>12 DEF TasksInv, CallsFit, CallFits, CompleteTask
    <2>2. CASE waitingToken[c.token].waits # "user"
      <3>1. calls' = calls \ {c} /\ instance' = instance
        BY <1>12, <2>2 DEF CompleteTask, Leaves, Engine
      <3>2. Live' = Live
        BY <3>1 DEF Live
      <3> QED BY <2>1, <3>1, <3>2, DefinitionsLeftAlone
    <2>3. CASE waitingToken[c.token].waits = "user"
      <3>1. i \in Instances
        BY <1>1, <2>1 DEF TokensOK
      <3>2. PICK others \in SUBSET (Waiting(i) \ {c.token}), new \in NewWaits(1) :
              \E status \in Outcomes(i, others \cup {c.token}, new) :
                  RouteCycle(i, {c.token}, others, new, status, [t \in {c.token} |-> "completed"])
        BY <1>12, <2>3 DEF CompleteTask
      <3>0. {c.token} \cup others = others \cup {c.token}
        OBVIOUS
      <3>3. PICK status \in Outcomes(i, others \cup {c.token}, new) : Moves(i, others \cup {c.token}, new, status)
        BY <3>0, <3>2 DEF RouteCycle
      <3>4. calls' = Outdates(i, calls \ {c})
        BY <1>12, <2>3 DEF CompleteTask
      <3> HIDE DEF i
      <3>5. Live' \subseteq Live
        BY <1>1, <3>1, <3>3, OutcomeEnds
      <3>6. calls \ {c} \subseteq calls /\ \A d \in calls : d.op = "deploy" => d \in calls \ {c}
        BY <2>1
      <3> QED BY <1>2, <2>1, <3>1, <3>4, <3>5, <3>6, DefinitionsLeftAlone
    <2> QED BY <2>2, <2>3
  <1> QED BY <1>4, <1>5, <1>6, <1>7, <1>8, <1>9, <1>10, <1>11, <1>12, <1>13

\* At the start there is no definition.
LEMMA DefinitionsStart == UserTasksInit => DefinitionsInv
  BY DEF UserTasksInit, DefinitionsInv, Live

\* So requests that overlap no other on the definition, and all others, keep it.
LEMMA DefinitionsKept == TasksInv /\ DefinitionsInv /\ [UserTasksNext]_userTaskVars => DefinitionsInv'
<1> SUFFICES ASSUME TasksInv, DefinitionsInv, [UserTasksNext]_userTaskVars
             PROVE  DefinitionsInv'
  OBVIOUS
<1>1. CASE UNCHANGED userTaskVars
  BY <1>1 DEF userTaskVars, DefinitionsInv, Live
<1> QED BY <1>1, DefinitionRequests, InstanceRequests DEF UserTasksNext

\* DefinitionsStay (definitions.ts, countInstances): a definition stays as long as instances of it run, and its source is
\* the one it was parsed from, unless a deployment, a start and a deletion overlapped.
THEOREM DefinitionsInvariance == UserTasksSpec => []DefinitionsStay
<1>1. DefinitionsInv => DefinitionsStay
  BY DEF DefinitionsInv, DefinitionsStay
<1>2. UserTasksInit => TasksInv /\ DefinitionsInv
  BY TasksStart, DefinitionsStart
<1>3. TasksInv /\ DefinitionsInv /\ [UserTasksNext]_userTaskVars => (TasksInv /\ DefinitionsInv)'
  BY TasksKept, DefinitionsKept
<1> QED
  BY <1>1, <1>2, <1>3, PTL DEF UserTasksSpec

-----------------------------------------------------------------------------
(* The least and the greatest of some elements or flows                     *)

\* StartOf takes the first start event of those there are.
LEMMA FirstOfSome ==
    ASSUME NEW S \in SUBSET Ids, S # {}
    PROVE  Min(S) \in S
<1>1. S \in SUBSET Nat
  BY DrawingAssumption, FS_CardinalityType
<1>2. PICK n \in S : \A m \in S : n <= m
  BY <1>1, LeastNumber
<1> QED BY <1>2 DEF Min

\* Selects takes the last flow of those left for last.
LEMMA LastOfSome ==
    ASSUME NEW S \in SUBSET FlowIds, S # {}
    PROVE  Max(S) \in S
<1> DEFINE n == Cardinality(FlowIds)
           T == {n - m : m \in S}
<1>1. n \in Nat /\ S \subseteq 1..n
  BY DrawingAssumption, FS_CardinalityType
<1> HIDE DEF n
<1>2. T \in SUBSET Nat /\ T # {}
  BY <1>1
<1> HIDE DEF T
<1>3. PICK k \in T : \A m \in T : k <= m
  BY <1>2, LeastNumber
<1>4. PICK x \in S : k = n - x
  BY <1>3 DEF T
<1>5. \A y \in S : n - y \in T
  BY DEF T
<1>6. \A y \in S : x >= y
  BY <1>1, <1>3, <1>4, <1>5
<1> QED BY <1>6 DEF Max

-----------------------------------------------------------------------------
(* What the parser returns                                                  *)

\* Of the documents an author can write here: sub-processes stand in the process.
WellDrawn(d) == d \in Documents /\ \A i \in Ids : d.tag[i] \in Nesting => d.in[i] = Root

\* Elements and flows are numbered from 1; Root is none of them.
LEMMA RootIsNothing == Root \notin Ids /\ Root \notin FlowIds
BY DrawingAssumption, FS_CardinalityType DEF Root

\* What is drawn refers to what there is.
LEMMA DocumentFields ==
    ASSUME NEW d, WellDrawn(d)
    PROVE  /\ \A i \in Ids : /\ d.tag[i] \in Tags /\ d.in[i] \in Ids \cup {Root} /\ d.lists[i] \subseteq FlowIds
                             /\ d.default[i] \in FlowIds \cup {Root} /\ d.event[i] \subseteq EventTags
                             /\ d.host[i] \in Ids \cup {Root}
                             /\ d.tag[i] \in Nesting => d.in[i] = Root
           /\ \A f \in FlowIds : /\ d.flow[f].in \in Ids \cup {Root} /\ d.flow[f].from \in Ids /\ d.flow[f].to \in Ids
                                 /\ d.flow[f].guarded \in BOOLEAN /\ d.flow[f].drawn \in BOOLEAN
<1>1. \A i \in Ids : /\ d.tag[i] \in Tags /\ d.in[i] \in Ids \cup {Root} /\ d.lists[i] \subseteq FlowIds
                     /\ d.default[i] \in FlowIds \cup {Root} /\ d.event[i] \subseteq EventTags
                     /\ d.host[i] \in Ids \cup {Root}
  BY DEF WellDrawn, Documents
<1>2. \A f \in FlowIds : d.flow[f] \in [in : Ids \cup {Root}, from : Ids, to : Ids, guarded : BOOLEAN, drawn : BOOLEAN]
  BY DEF WellDrawn, Documents
<1> QED BY <1>1, <1>2 DEF WellDrawn

\* The event of an element is the first of those the parser looks for.
LEMMA EventOfTags ==
    ASSUME NEW tags
    PROVE  EventOf(tags) \in EventTags \cup {"none"}
BY DEF EventOf, EventTags

\* What is parsed of an element.
LEMMA ParsedElement ==
    ASSUME NEW d, NEW i
    PROVE  LET e == ParseElement(d, i) IN
           /\ e.type = d.tag[i] /\ e.out = d.lists[i] /\ e.in = d.in[i]
           /\ e.event = EventOf(d.event[i]) /\ e.default = Default(d, i) /\ e.host = Host(d, i)
           /\ e.start = IF d.tag[i] \in Nesting THEN StartOf(d, i) ELSE Root
BY DEF ParseElement, Base

\* The levels of a document: a sub-process is in the process, and what is parsed of it is in the sub-process.
LEMMA Levels ==
    ASSUME NEW d, WellDrawn(d)
    PROVE  /\ Subs(d) \subseteq Level(d, Root) /\ Level(d, Root) \subseteq Parsed(d) /\ Parsed(d) \subseteq Ids
           /\ \A i \in Subs(d) : i \in Ids /\ Level(d, i) \subseteq Parsed(d)
           /\ \A i \in Parsed(d) : /\ d.tag[i] \in Known
                                   /\ d.in[i] = Root \/ d.in[i] \in Subs(d)
                                   /\ d.tag[i] \in Nesting => i \in Subs(d)
           /\ \A f \in ParsedFlows(d) : f \in FlowIds /\ (d.flow[f].in = Root => f \in LevelFlows(d, Root))
<1>1. Subs(d) \subseteq Level(d, Root) /\ Level(d, Root) \subseteq Parsed(d)
  BY DEF Subs, Parsed
<1>2. \A i \in Subs(d) : i \in Ids /\ Level(d, i) \subseteq Parsed(d)
  BY DEF Subs, Level, Parsed
<1>3. \A i \in Parsed(d) : i \in Ids /\ d.tag[i] \in Known /\ (d.in[i] = Root \/ d.in[i] \in Subs(d))
  BY DEF Parsed, Level
<1>4. \A i \in Parsed(d) : d.tag[i] \in Nesting => i \in Subs(d)
  BY <1>3, DocumentFields DEF Subs, Level
<1>5. \A f \in ParsedFlows(d) : f \in FlowIds /\ (d.flow[f].in = Root => f \in LevelFlows(d, Root))
  BY <1>2, RootIsNothing DEF ParsedFlows, LevelFlows
<1> QED BY <1>1, <1>2, <1>3, <1>4, <1>5

\* A level that starts somewhere starts at one of its own elements.
LEMMA StartIsThere ==
    ASSUME NEW d, NEW l, StartOf(d, l) # Root
    PROVE  StartOf(d, l) \in Level(d, l)
<1> DEFINE starts == {i \in Level(d, l) : d.tag[i] = "startEvent"}
<1>1. starts # {} /\ StartOf(d, l) = Min(starts)
  BY DEF StartOf
<1>2. starts \in SUBSET Ids /\ starts \subseteq Level(d, l)
  BY DEF Level
<1> HIDE DEF starts
<1>3. Min(starts) \in starts
  BY <1>1, <1>2, FirstOfSome
<1> QED BY <1>1, <1>2, <1>3

-----------------------------------------------------------------------------
(* The author                                                               *)

\* A document that differs in one field.
LEMMA FieldEdited ==
    ASSUME NEW d, WellDrawn(d)
    PROVE  /\ \A x \in [Ids -> Tags] : (\A i \in Ids : x[i] \in Nesting => d.in[i] = Root) => WellDrawn([d EXCEPT !.tag = x])
           /\ \A x \in [Ids -> Ids \cup {Root}] :
                 (\A i \in Ids : d.tag[i] \in Nesting => x[i] = Root) => WellDrawn([d EXCEPT !.in = x])
           /\ \A x \in [Ids -> SUBSET FlowIds] : WellDrawn([d EXCEPT !.lists = x])
           /\ \A x \in [Ids -> FlowIds \cup {Root}] : WellDrawn([d EXCEPT !.default = x])
           /\ \A x \in [Ids -> SUBSET EventTags] : WellDrawn([d EXCEPT !.event = x])
           /\ \A x \in [Ids -> Ids \cup {Root}] : WellDrawn([d EXCEPT !.host = x])
           /\ \A x \in [FlowIds -> [in : Ids \cup {Root}, from : Ids, to : Ids, guarded : BOOLEAN, drawn : BOOLEAN]] :
                 WellDrawn([d EXCEPT !.flow = x])
<1> DEFINE F == [in : Ids \cup {Root}, from : Ids, to : Ids, guarded : BOOLEAN, drawn : BOOLEAN]
<1>1. PICK tag \in [Ids -> Tags], in \in [Ids -> Ids \cup {Root}], lists \in [Ids -> SUBSET FlowIds],
           default \in [Ids -> FlowIds \cup {Root}], event \in [Ids -> SUBSET EventTags],
           host \in [Ids -> Ids \cup {Root}], flow \in [FlowIds -> F] :
         d = [tag |-> tag, in |-> in, lists |-> lists, default |-> default, event |-> event, host |-> host, flow |-> flow]
  BY DEF WellDrawn, Documents
<1>2. \A i \in Ids : tag[i] \in Nesting => in[i] = Root
  BY <1>1 DEF WellDrawn
<1>3. Documents = [tag : [Ids -> Tags], in : [Ids -> Ids \cup {Root}], lists : [Ids -> SUBSET FlowIds],
                   default : [Ids -> FlowIds \cup {Root}], event : [Ids -> SUBSET EventTags],
                   host : [Ids -> Ids \cup {Root}], flow : [FlowIds -> F]]
  BY DEF Documents
<1> HIDE DEF F
<1> USE DEF WellDrawn
<1>4. \A x \in [Ids -> Tags] : (\A i \in Ids : x[i] \in Nesting => d.in[i] = Root) => WellDrawn([d EXCEPT !.tag = x])
  BY <1>1, <1>3
<1>5. \A x \in [Ids -> Ids \cup {Root}] :
         (\A i \in Ids : d.tag[i] \in Nesting => x[i] = Root) => WellDrawn([d EXCEPT !.in = x])
  BY <1>1, <1>3
<1>6. \A x \in [Ids -> SUBSET FlowIds] : WellDrawn([d EXCEPT !.lists = x])
  BY <1>1, <1>2, <1>3
<1>7. \A x \in [Ids -> FlowIds \cup {Root}] : WellDrawn([d EXCEPT !.default = x])
  BY <1>1, <1>2, <1>3
<1>8. \A x \in [Ids -> SUBSET EventTags] : WellDrawn([d EXCEPT !.event = x])
  BY <1>1, <1>2, <1>3
<1>9. \A x \in [Ids -> Ids \cup {Root}] : WellDrawn([d EXCEPT !.host = x])
  BY <1>1, <1>2, <1>3
<1>10. \A x \in [FlowIds -> F] : WellDrawn([d EXCEPT !.flow = x])
  BY <1>1, <1>2, <1>3
<1> HIDE DEF WellDrawn
<1> QED BY <1>4, <1>5, <1>6, <1>7, <1>8, <1>9, <1>10 DEF F

\* An edit of an element leaves a document that is well drawn.
LEMMA ElementEdited ==
    ASSUME WellDrawn(document), NEW i \in Ids, EditsElement(i)
    PROVE  WellDrawn(document')
<1> DEFINE d == document
<1>1. /\ d.tag \in [Ids -> Tags] /\ d.in \in [Ids -> Ids \cup {Root}] /\ d.lists \in [Ids -> SUBSET FlowIds]
      /\ d.default \in [Ids -> FlowIds \cup {Root}] /\ d.event \in [Ids -> SUBSET EventTags]
      /\ d.host \in [Ids -> Ids \cup {Root}]
      /\ \A j \in Ids : d.tag[j] \in Nesting => d.in[j] = Root
  BY DEF WellDrawn, Documents
<1>2. CASE \E t \in Tags : (t \in Nesting => d.in[i] = Root) /\ Edited([d EXCEPT !.tag[i] = t])
  <2>1. PICK t \in Tags : (t \in Nesting => d.in[i] = Root) /\ document' = [d EXCEPT !.tag[i] = t]
    BY <1>2 DEF Edited
  <2> DEFINE x == [d.tag EXCEPT ![i] = t]
  <2>2. x \in [Ids -> Tags] /\ \A j \in Ids : x[j] \in Nesting => d.in[j] = Root
    BY <1>1, <2>1
  <2>3. document' = [d EXCEPT !.tag = x]
    BY <2>1
  <2> HIDE DEF x, d
  <2> QED BY <2>2, <2>3, FieldEdited DEF d
<1>3. CASE \E l \in Subs(d) \cup {Root} : i \notin Subs(d) /\ Edited([d EXCEPT !.in[i] = l])
  <2>1. PICK l \in Subs(d) \cup {Root} : i \notin Subs(d) /\ document' = [d EXCEPT !.in[i] = l]
    BY <1>3 DEF Edited
  <2> DEFINE x == [d.in EXCEPT ![i] = l]
  <2>2. l \in Ids \cup {Root} /\ d.tag[i] \notin Nesting
    BY <1>1, <2>1 DEF Subs, Level, Known
  <2>3. x \in [Ids -> Ids \cup {Root}] /\ \A j \in Ids : d.tag[j] \in Nesting => x[j] = Root
    BY <1>1, <2>2
  <2>4. document' = [d EXCEPT !.in = x]
    BY <2>1
  <2> HIDE DEF x, d
  <2> QED BY <2>3, <2>4, FieldEdited DEF d
<1>4. CASE \E k \in EventTags : Edited([d EXCEPT !.event[i] = (@ \ {k}) \cup ({k} \ @)])
  <2>1. PICK k \in EventTags : document' = [d EXCEPT !.event[i] = (@ \ {k}) \cup ({k} \ @)]
    BY <1>4 DEF Edited
  <2> DEFINE x == [d.event EXCEPT ![i] = (@ \ {k}) \cup ({k} \ @)]
  <2>2. x \in [Ids -> SUBSET EventTags]
    BY <1>1
  <2>3. document' = [d EXCEPT !.event = x]
    BY <2>1
  <2> HIDE DEF x, d
  <2> QED BY <2>2, <2>3, FieldEdited DEF d
<1>5. CASE \E f \in FlowIds : Edited([d EXCEPT !.lists[i] = (@ \ {f}) \cup ({f} \ @)])
  <2>1. PICK f \in FlowIds : document' = [d EXCEPT !.lists[i] = (@ \ {f}) \cup ({f} \ @)]
    BY <1>5 DEF Edited
  <2> DEFINE x == [d.lists EXCEPT ![i] = (@ \ {f}) \cup ({f} \ @)]
  <2>2. x \in [Ids -> SUBSET FlowIds]
    BY <1>1
  <2>3. document' = [d EXCEPT !.lists = x]
    BY <2>1
  <2> HIDE DEF x, d
  <2> QED BY <2>2, <2>3, FieldEdited DEF d
<1>6. CASE \E f \in FlowIds : Edited([d EXCEPT !.default[i] = f])
  <2>1. PICK f \in FlowIds : document' = [d EXCEPT !.default[i] = f]
    BY <1>6 DEF Edited
  <2> DEFINE x == [d.default EXCEPT ![i] = f]
  <2>2. x \in [Ids -> FlowIds \cup {Root}]
    BY <1>1
  <2>3. document' = [d EXCEPT !.default = x]
    BY <2>1
  <2> HIDE DEF x, d
  <2> QED BY <2>2, <2>3, FieldEdited DEF d
<1>7. CASE \E h \in Ids : Edited([d EXCEPT !.host[i] = h])
  <2>1. PICK h \in Ids : document' = [d EXCEPT !.host[i] = h]
    BY <1>7 DEF Edited
  <2> DEFINE x == [d.host EXCEPT ![i] = h]
  <2>2. x \in [Ids -> Ids \cup {Root}]
    BY <1>1
  <2>3. document' = [d EXCEPT !.host = x]
    BY <2>1
  <2> HIDE DEF x, d
  <2> QED BY <2>2, <2>3, FieldEdited DEF d
<1> QED BY <1>2, <1>3, <1>4, <1>5, <1>6, <1>7 DEF EditsElement

\* So does one of a flow.
LEMMA FlowEdited ==
    ASSUME WellDrawn(document), NEW f \in FlowIds, EditsFlow(f)
    PROVE  WellDrawn(document')
<1> DEFINE d == document
           F == [in : Ids \cup {Root}, from : Ids, to : Ids, guarded : BOOLEAN, drawn : BOOLEAN]
<1>1. d.flow \in [FlowIds -> F] /\ d.lists \in [Ids -> SUBSET FlowIds] /\ d.flow[f] \in F /\ d.flow[f].from \in Ids
  BY DEF WellDrawn, Documents
<1>2. CASE \E i \in Ids : Edited([d EXCEPT !.flow[f].from = i, !.lists[d.flow[f].from] = @ \ {f}])
  <2>1. PICK i \in Ids : document' = [d EXCEPT !.flow[f].from = i, !.lists[d.flow[f].from] = @ \ {f}]
    BY <1>2 DEF Edited
  <2> DEFINE x == [d.flow EXCEPT ![f] = [d.flow[f] EXCEPT !.from = i]]
             y == [d.lists EXCEPT ![d.flow[f].from] = @ \ {f}]
             e == [d EXCEPT !.flow = x]
  <2>2. [d.flow[f] EXCEPT !.from = i] \in F
    BY <1>1
  <2>3. x \in [FlowIds -> F] /\ y \in [Ids -> SUBSET FlowIds]
    <3> HIDE DEF F
    <3> QED BY <1>1, <2>2
  <2>4. document' = [e EXCEPT !.lists = y]
    BY <2>1
  <2> HIDE DEF x, y
  <2>5. WellDrawn(e)
    BY <2>3, FieldEdited
  <2> HIDE DEF e
  <2> QED BY <2>3, <2>4, <2>5, FieldEdited
<1>3. ASSUME NEW r \in F, document' = [d EXCEPT !.flow[f] = r]
      PROVE  WellDrawn(document')
  <2> DEFINE x == [d.flow EXCEPT ![f] = r]
  <2>1. x \in [FlowIds -> F]
    <3> HIDE DEF F
    <3> QED BY <1>1
  <2>2. document' = [d EXCEPT !.flow = x]
    BY <1>3
  <2> HIDE DEF x
  <2> QED BY <2>1, <2>2, FieldEdited
<1>4. CASE \E i \in Ids : Edited([d EXCEPT !.flow[f].to = i])
  <2>1. PICK i \in Ids : document' = [d EXCEPT !.flow[f].to = i]
    BY <1>4 DEF Edited
  <2>2. [d.flow[f] EXCEPT !.to = i] \in F /\ document' = [d EXCEPT !.flow[f] = [d.flow[f] EXCEPT !.to = i]]
    BY <1>1, <2>1
  <2> HIDE DEF F, d
  <2> QED BY <1>3, <2>2
<1>5. CASE \E l \in Subs(d) \cup {Root} : Edited([d EXCEPT !.flow[f].in = l])
  <2>1. PICK l \in Subs(d) \cup {Root} : document' = [d EXCEPT !.flow[f].in = l]
    BY <1>5 DEF Edited
  <2>2. l \in Ids \cup {Root}
    BY DEF Subs, Level
  <2>3. [d.flow[f] EXCEPT !.in = l] \in F /\ document' = [d EXCEPT !.flow[f] = [d.flow[f] EXCEPT !.in = l]]
    BY <1>1, <2>1, <2>2
  <2> HIDE DEF F, d
  <2> QED BY <1>3, <2>3
<1>6. CASE Edited([d EXCEPT !.flow[f].guarded = ~ @])
  <2>1. document' = [d EXCEPT !.flow[f].guarded = ~ @]
    BY <1>6 DEF Edited
  <2>2. PICK r : r = [d.flow[f] EXCEPT !.guarded = ~ @]
    OBVIOUS
  <2>3. r \in F
    BY <1>1, <2>2
  <2>4. document' = [d EXCEPT !.flow[f] = r]
    BY <2>1, <2>2
  <2> HIDE DEF F, d
  <2> QED BY <1>3, <2>3, <2>4
<1>7. CASE Edited([d EXCEPT !.flow[f].drawn = ~ @])
  <2>1. document' = [d EXCEPT !.flow[f].drawn = ~ @]
    BY <1>7 DEF Edited
  <2>2. PICK r : r = [d.flow[f] EXCEPT !.drawn = ~ @]
    OBVIOUS
  <2>3. r \in F
    BY <1>1, <2>2
  <2>4. document' = [d EXCEPT !.flow[f] = r]
    BY <2>1, <2>2
  <2> HIDE DEF F, d
  <2> QED BY <1>3, <2>3, <2>4
<1> HIDE DEF F
<1> QED BY <1>2, <1>4, <1>5, <1>6, <1>7 DEF EditsFlow

-----------------------------------------------------------------------------
(* The token                                                                *)

\* The definition in the store is what the parser made of such a document.
ParsedFrom(d, n) == WellDrawn(d) /\ deployed = Parse(d, n)

Places == [at : Ids \cup {Root}, left : BOOLEAN, state : {"none", "walks", "lost"}]

\* A token that walks is at an element of the definition, unless that was replaced.
ParserInv ==
    /\ WellDrawn(document)
    /\ deployed = NoDefinition \/ \E d, n : ParsedFrom(d, n)
    /\ token \in Places
    /\ token.state # "none" => \E d, n : ParsedFrom(d, n)
    /\ token.state = "walks" => replaced \/ Found(token.at)
    /\ WalksResolve

\* What the engine finds in the definition.
LEMMA DefinitionParsed ==
    ASSUME NEW d, NEW n, ParsedFrom(d, n)
    PROVE  /\ DOMAIN deployed.elements = Parsed(d) /\ \A i \in Parsed(d) : deployed.elements[i] = ParseElement(d, i)
           /\ DOMAIN deployed.flows = ParsedFlows(d) /\ \A f \in ParsedFlows(d) : deployed.flows[f] = ParseFlow(d, f)
           /\ deployed.start = StartOf(d, Root) /\ deployed.source = d
           /\ deployed.isDeployable <=> Errors(d) = {}
BY DEF ParsedFrom, Parse

\* A definition without errors starts at an element; where its flows lead is known in the process, ...
LEMMA NoErrors ==
    ASSUME NEW d, Errors(d) = {}
    PROVE  StartOf(d, Root) # Root /\ \A f \in LevelFlows(d, Root) : d.flow[f].to \in Level(d, Root)
<1>1. StartOf(d, Root) # Root
  <2>1. "MISSING_START_EVENT" \notin Errors(d)
    OBVIOUS
  <2> QED BY <2>1 DEF Errors
<1>2. \A f \in LevelFlows(d, Root) : d.flow[f].to \in Level(d, Root)
  <2>1. "UNRESOLVED_FLOW_TARGET" \notin Errors(d)
    OBVIOUS
  <2> QED BY <2>1 DEF Errors
<1> QED BY <1>1, <1>2

\* ... so that an instance starts there ...
LEMMA StartFound ==
    ASSUME NEW d, NEW n, ParsedFrom(d, n), deployed.isDeployable
    PROVE  Found(deployed.start)
<1>1. WellDrawn(d)
  BY DEF ParsedFrom
<1>2. DOMAIN deployed.elements = Parsed(d) /\ deployed.start = StartOf(d, Root) /\ Errors(d) = {}
  BY DefinitionParsed
<1>3. StartOf(d, Root) \in Level(d, Root) /\ Level(d, Root) \subseteq Parsed(d)
  BY <1>1, <1>2, NoErrors, StartIsThere, Levels
<1> QED BY <1>2, <1>3 DEF Found

\* ... and below, if the author saw to it.
LEMMA TargetFound ==
    ASSUME NEW d, NEW n, ParsedFrom(d, n), deployed.isDeployable, Trusted, NEW f, FoundFlow(f)
    PROVE  Found(deployed.flows[f].to)
<1>1. WellDrawn(d)
  BY DEF ParsedFrom
<1>2. /\ DOMAIN deployed.elements = Parsed(d) /\ DOMAIN deployed.flows = ParsedFlows(d) /\ Errors(d) = {}
      /\ f \in ParsedFlows(d) /\ deployed.flows[f] = ParseFlow(d, f)
  BY DefinitionParsed DEF FoundFlow
<1>3. deployed.flows[f].in = d.flow[f].in /\ deployed.flows[f].to = d.flow[f].to
  BY <1>2 DEF ParseFlow
<1>4. CASE d.flow[f].in = Root
  <2>1. f \in LevelFlows(d, Root)
    BY <1>1, <1>2, <1>4, Levels
  <2>2. d.flow[f].to \in Level(d, Root) /\ Level(d, Root) \subseteq Parsed(d)
    BY <1>1, <1>2, <2>1, NoErrors, Levels
  <2> QED BY <1>2, <1>3, <2>2 DEF Found
<1>5. CASE d.flow[f].in # Root
  BY <1>2, <1>3, <1>5 DEF Trusted
<1> QED BY <1>4, <1>5

\* A sub-process that starts somewhere starts at an element the engine finds; where it ends, it is found.
LEMMA NestingFound ==
    ASSUME NEW d, NEW n, ParsedFrom(d, n), NEW i, Found(i)
    PROVE  /\ Element(i).type \in Nesting /\ Element(i).start # Root => Found(Element(i).start)
           /\ Element(i).in # Root => Found(Element(i).in)
<1>1. WellDrawn(d)
  BY DEF ParsedFrom
<1>2. DOMAIN deployed.elements = Parsed(d) /\ i \in Parsed(d) /\ Element(i) = ParseElement(d, i)
  BY DefinitionParsed DEF Found, Element
<1>3. Element(i).type = d.tag[i] /\ Element(i).in = d.in[i]
      /\ (d.tag[i] \in Nesting => Element(i).start = StartOf(d, i))
  BY <1>2, ParsedElement
<1>4. ASSUME d.tag[i] \in Nesting, StartOf(d, i) # Root
      PROVE  StartOf(d, i) \in Parsed(d)
  <2>1. i \in Subs(d)
    BY <1>1, <1>2, <1>4, Levels
  <2>2. Level(d, i) \subseteq Parsed(d)
    BY <1>1, <2>1, Levels
  <2>3. StartOf(d, i) \in Level(d, i)
    BY <1>4, StartIsThere
  <2> QED BY <2>2, <2>3
<1>5. d.in[i] # Root => d.in[i] \in Parsed(d)
  <2>1. d.in[i] = Root \/ d.in[i] \in Subs(d)
    BY <1>1, <1>2, Levels
  <2>2. Subs(d) \subseteq Parsed(d)
    BY <1>1, Levels
  <2> QED BY <2>1, <2>2
<1> QED BY <1>2, <1>3, <1>4, <1>5 DEF Found

\* What a gateway selects is a flow.
LEMMA SelectedFound ==
    ASSUME NEW d, NEW n, ParsedFrom(d, n), NEW g
    PROVE  \A f \in Selects(g) : FoundFlow(f)
<1>1. DOMAIN deployed.flows = ParsedFlows(d) /\ ParsedFlows(d) \subseteq FlowIds
  BY DefinitionParsed, Levels DEF ParsedFrom
<1>2. FlowsFrom(g) \subseteq DOMAIN deployed.flows /\ LastResort(g) \subseteq FlowsFrom(g)
  BY DEF FlowsFrom, LastResort
<1>3. LastResort(g) # {} => Max(LastResort(g)) \in LastResort(g)
  BY <1>1, <1>2, LastOfSome
<1>4. \A f \in Selects(g) : f \in FlowsFrom(g)
  BY <1>2, <1>3 DEF Selects
<1> QED BY <1>2, <1>4 DEF FoundFlow

\* A token that goes to an element or a flow is there, or lost.
Walked == token' \in Places /\ (token'.state = "walks" => Found(token'.at))

\* A token stays in its places, and walks on if the engine finds where it comes to.
LEMMA WalksOn ==
    ASSUME NEW d, NEW n, ParsedFrom(d, n), token \in Places
    PROVE  /\ \A i : Comes(i) => Walked /\ (Found(i) => token'.state = "walks")
           /\ \A f : Takes(f) => Walked /\ (FoundFlow(f) /\ Found(deployed.flows[f].to) => token'.state = "walks")
           /\ token' = Away => Walked /\ token'.state = "none"
           /\ token' = [token EXCEPT !.state = "lost"] => Walked
<1>1. token' = [token EXCEPT !.state = "lost"] => Walked
  BY DEF Walked, Places
<1>2. ASSUME NEW i, Comes(i)
      PROVE  Walked /\ (Found(i) => token'.state = "walks")
  <2>1. CASE Found(i)
    <3>1. i \in Ids
      BY <2>1, DefinitionParsed, Levels DEF Found, ParsedFrom
    <3>2. token' = [at |-> i, left |-> FALSE, state |-> "walks"]
      BY <1>2, <2>1 DEF Comes
    <3> QED BY <2>1, <3>1, <3>2 DEF Walked, Places
  <2>2. CASE ~ Found(i)
    BY <1>1, <1>2, <2>2 DEF Comes
  <2> QED BY <2>1, <2>2
<1>3. \A f : Takes(f) => Walked /\ (FoundFlow(f) /\ Found(deployed.flows[f].to) => token'.state = "walks")
  BY <1>1, <1>2 DEF Takes
<1>4. token' = Away => Walked /\ token'.state = "none"
  BY DEF Away, Walked, Places
<1> QED BY <1>1, <1>2, <1>3, <1>4

\* Where a token goes that passes an element: along a flow it lists, or it is done.
LEMMA PassesOn ==
    ASSUME NEW d, NEW n, ParsedFrom(d, n), token \in Places, NEW i, Found(i), Passes(i)
    PROVE  /\ Walked
           /\ deployed.isDeployable /\ Trusted /\ Element(i).type # "gateway" => token'.state # "lost"
<1>1. CASE Element(i).out = {}
  BY <1>1, WalksOn DEF Passes
<1>2. CASE Element(i).out # {}
  <2>1. PICK f \in Element(i).out : Takes(f)
    BY <1>2 DEF Passes
  <2>2. Walked /\ (FoundFlow(f) /\ Found(deployed.flows[f].to) => token'.state = "walks")
    BY <2>1, WalksOn
  <2>3. Trusted /\ Element(i).type # "gateway" => FoundFlow(f)
    BY DEF Trusted, Found
  <2>4. deployed.isDeployable /\ Trusted /\ FoundFlow(f) => Found(deployed.flows[f].to)
    BY TargetFound
  <2> QED BY <2>2, <2>3, <2>4
<1> QED BY <1>1, <1>2

\* A step of a token that is where the engine finds it.
LEMMA WalkResolves ==
    ASSUME NEW d, NEW n, ParsedFrom(d, n), token \in Places, token.state = "walks", Found(token.at), Walks
    PROVE  Walked /\ (deployed.isDeployable /\ Trusted => token'.state # "lost")
<1> DEFINE i == token.at
           Good == deployed.isDeployable /\ Trusted
<1>1. \/ /\ Element(i).type = "gateway"
         /\ IF Selects(i) = {} THEN token' = [token EXCEPT !.state = "lost"] ELSE \E f \in Selects(i) : Takes(f)
      \/ /\ Element(i).type \in Nesting
         /\ IF token.left THEN Passes(i) ELSE Comes(Element(i).start)
      \/ /\ Element(i).type = "endEvent"
         /\ token' = IF Element(i).in = Root \/ Element(i).event = "terminate" THEN Away
                     ELSE [at |-> Element(i).in, left |-> TRUE, state |-> "walks"]
      \/ /\ Element(i).type \in {"startEvent", "event", "boundaryEvent", "task"}
         /\ Passes(i)
      \/ \E b \in DOMAIN deployed.elements : Comes(b)
  BY DEF Walks
<1>2. CASE Element(i).type = "gateway"
            /\ IF Selects(i) = {} THEN token' = [token EXCEPT !.state = "lost"] ELSE \E f \in Selects(i) : Takes(f)
  <2>1. CASE Selects(i) = {}
    <3>1. ~ Trusted
      BY <1>2, <2>1 DEF Trusted, Found
    <3> QED BY <1>2, <2>1, <3>1, WalksOn
  <2>2. CASE Selects(i) # {}
    <3>1. PICK f \in Selects(i) : Takes(f)
      BY <1>2, <2>2
    <3>2. FoundFlow(f)
      BY SelectedFound
    <3>3. Good => Found(deployed.flows[f].to)
      BY <3>2, TargetFound
    <3> QED BY <3>1, <3>2, <3>3, WalksOn
  <2> QED BY <2>1, <2>2
<1>3. CASE Element(i).type \in Nesting /\ IF token.left THEN Passes(i) ELSE Comes(Element(i).start)
  <2>1. CASE token.left
    <3>1. Passes(i) /\ Element(i).type # "gateway"
      BY <1>3, <2>1 DEF Nesting
    <3> QED BY <3>1, PassesOn
  <2>2. CASE ~ token.left
    <3>1. Comes(Element(i).start)
      BY <1>3, <2>2
    <3>2. Good => Element(i).start # Root
      BY <1>3 DEF Trusted, Found
    <3>3. Good => Found(Element(i).start)
      BY <1>3, <3>2, NestingFound
    <3> QED BY <3>1, <3>3, WalksOn
  <2> QED BY <2>1, <2>2
<1>4. CASE Element(i).type = "endEvent"
            /\ token' = IF Element(i).in = Root \/ Element(i).event = "terminate" THEN Away
                        ELSE [at |-> Element(i).in, left |-> TRUE, state |-> "walks"]
  <2>1. CASE token' = Away
    BY <2>1, WalksOn
  <2>2. CASE token' = [at |-> Element(i).in, left |-> TRUE, state |-> "walks"] /\ Element(i).in # Root
    <3>1. Found(Element(i).in)
      BY <2>2, NestingFound
    <3>2. Element(i).in \in Ids
      BY <3>1, DefinitionParsed, Levels DEF Found, ParsedFrom
    <3> QED BY <2>2, <3>1, <3>2 DEF Walked, Places
  <2> QED BY <1>4, <2>1, <2>2
<1>5. CASE Element(i).type \in {"startEvent", "event", "boundaryEvent", "task"} /\ Passes(i)
  BY <1>5, PassesOn
<1>6. CASE \E b \in DOMAIN deployed.elements : Comes(b)
  BY <1>6, WalksOn DEF Found
<1> QED BY <1>1, <1>2, <1>3, <1>4, <1>5, <1>6

-----------------------------------------------------------------------------
(* The specification                                                        *)

\* Nothing is deployed at first, and the first document is well drawn.
LEMMA ParserStart == ParserInit => ParserInv
BY DrawingAssumption DEF ParserInit, ParserInv, WellDrawn, Places, Away, Root, WalksResolve

\* The definition that the parser made of the document stays what the engine walks, until the next one.
LEMMA ParserStep == ParserInv /\ [ParserNext]_parserVars => ParserInv'
<1> SUFFICES ASSUME ParserInv, [ParserNext]_parserVars
             PROVE  ParserInv'
  OBVIOUS
<1>1. CASE UNCHANGED parserVars
  <2>1. UNCHANGED << document, deployed, token, replaced, edits >>
    BY <1>1 DEF parserVars
  <2>2. Trusted' <=> Trusted
    BY <2>1 DEF Trusted, Element, FoundFlow, Found, Selects, FlowsFrom, LastResort
  <2> QED BY <2>1, <2>2 DEF ParserInv, ParsedFrom, Found, WalksResolve
<1>2. CASE WellDrawn(document') /\ token.state = "none" /\ UNCHANGED << deployed, token, replaced >>
  BY <1>2 DEF ParserInv, ParsedFrom, WalksResolve
<1>3. ASSUME NEW i \in Ids, EditsElement(i)
      PROVE  ParserInv'
  <2>1. WellDrawn(document')
    BY <1>3, ElementEdited DEF ParserInv
  <2>2. token.state = "none" /\ UNCHANGED << deployed, token, replaced >>
    BY <1>3 DEF EditsElement, Edited
  <2> QED BY <1>2, <2>1, <2>2
<1>4. ASSUME NEW f \in FlowIds, EditsFlow(f)
      PROVE  ParserInv'
  <2>1. WellDrawn(document')
    BY <1>4, FlowEdited DEF ParserInv
  <2>2. token.state = "none" /\ UNCHANGED << deployed, token, replaced >>
    BY <1>4 DEF EditsFlow, Edited
  <2> QED BY <1>2, <2>1, <2>2
<1>5. CASE Deploys
  <2>1. /\ deployed' = Parse(document, deployed.deploys + 1) /\ replaced' = (token.state # "none")
        /\ UNCHANGED << document, token >>
    BY <1>5 DEF Deploys
  <2>2. (\E d, n : ParsedFrom(d, n))'
    <3>1. WellDrawn(document)
      BY DEF ParserInv
    <3>2. PICK d, n : d = document /\ n = deployed.deploys + 1
      OBVIOUS
    <3>3. ParsedFrom(d, n)'
      BY <2>1, <3>1, <3>2 DEF ParsedFrom
    <3> QED BY <3>3
  <2>3. WalksResolve'
    BY <2>1 DEF WalksResolve
  <2>4. WellDrawn(document)' /\ token' \in Places /\ (token.state = "walks" => replaced')
    BY <2>1 DEF ParserInv, WellDrawn
  <2> QED BY <2>1, <2>2, <2>3, <2>4 DEF ParserInv
<1>6. ASSUME UNCHANGED << document, deployed >>, Walked,
             \E d, n : ParsedFrom(d, n),
             token'.state = "lost" => ~ deployed.isDeployable \/ ~ Trusted \/ replaced'
      PROVE  ParserInv'
  <2>1. Trusted' <=> Trusted
    BY <1>6 DEF Trusted, Element, FoundFlow, Found, Selects, FlowsFrom, LastResort
  <2>2. WalksResolve'
    BY <1>6, <2>1 DEF WalksResolve
  <2>3. \A d, n : ParsedFrom(d, n) => ParsedFrom(d, n)'
    BY <1>6 DEF ParsedFrom
  <2>4. token'.state = "walks" => Found(token.at)'
    BY <1>6 DEF Walked, Found
  <2> QED BY <1>6, <2>2, <2>3, <2>4 DEF ParserInv, Walked
<1>7. CASE Begins
  <2>1. /\ token.state = "none" /\ deployed.deploys > 0 /\ replaced' = FALSE /\ Comes(deployed.start)
        /\ UNCHANGED << document, deployed, edits >> /\ token \in Places
    BY <1>7 DEF Begins, ParserInv
  <2>2. PICK d, n : ParsedFrom(d, n)
    BY <2>1 DEF ParserInv, NoDefinition
  <2>3. deployed.isDeployable => Found(deployed.start)
    BY <2>2, StartFound
  <2>4. Walked /\ (Found(deployed.start) => token'.state = "walks")
    BY <2>1, <2>2, WalksOn
  <2> QED BY <1>6, <2>1, <2>2, <2>3, <2>4
<1>8. CASE Walks
  <2>1. token.state = "walks" /\ UNCHANGED << document, deployed, replaced, edits >> /\ token \in Places
    BY <1>8 DEF Walks, ParserInv
  <2>2. PICK d, n : ParsedFrom(d, n)
    BY <2>1 DEF ParserInv
  <2>3. CASE Found(token.at)
    <3>1. Walked /\ (deployed.isDeployable /\ Trusted => token'.state # "lost")
      BY <1>8, <2>1, <2>2, <2>3, WalkResolves
    <3> QED BY <1>6, <2>1, <2>2, <3>1
  <2>4. CASE ~ Found(token.at)
    <3>1. token' = [token EXCEPT !.state = "lost"] /\ replaced
      BY <1>8, <2>1, <2>4 DEF Walks, ParserInv
    <3>2. Walked
      BY <2>1, <2>2, <3>1, WalksOn
    <3> QED BY <1>6, <2>1, <2>2, <3>1, <3>2
  <2> QED BY <2>3, <2>4
<1> QED BY <1>1, <1>3, <1>4, <1>5, <1>7, <1>8 DEF ParserNext

\* The types of what was parsed.
LEMMA ParsedTypes == ParserInv => ParserTypeOK
<1> SUFFICES ASSUME ParserInv
             PROVE  ParserTypeOK
  OBVIOUS
<1>1. CASE deployed = NoDefinition
  <2>1. DOMAIN deployed.elements = {} /\ deployed.start = Root
    BY <1>1 DEF NoDefinition
  <2> QED BY <2>1 DEF ParserTypeOK
<1>2. ASSUME NEW d, NEW n, ParsedFrom(d, n)
      PROVE  ParserTypeOK
  <2>1. WellDrawn(d)
    BY <1>2 DEF ParsedFrom
  <2>2. DOMAIN deployed.elements = Parsed(d) /\ (\A i \in Parsed(d) : Element(i) = ParseElement(d, i))
        /\ deployed.start = StartOf(d, Root)
    BY <1>2, DefinitionParsed DEF Element
  <2>3. ASSUME NEW i \in Parsed(d)
        PROVE  /\ Element(i).type \in Known /\ Element(i).event \in EventTags \cup {"none"}
               /\ Element(i).default \in FlowIds \cup {Root} /\ Element(i).host \in Ids \cup {Root}
               /\ Element(i).start # Root => Element(Element(i).start).in = i
    <3>1. /\ Element(i).type = d.tag[i] /\ Element(i).event = EventOf(d.event[i])
          /\ Element(i).default = Default(d, i) /\ Element(i).host = Host(d, i)
          /\ Element(i).start = IF d.tag[i] \in Nesting THEN StartOf(d, i) ELSE Root
      BY <2>2, ParsedElement
    <3>2. i \in Ids /\ d.tag[i] \in Known
      BY <2>1, Levels
    <3>3. Default(d, i) \in FlowIds \cup {Root} /\ Host(d, i) \in Ids \cup {Root}
      BY <2>1, <3>2, DocumentFields DEF Default, Host
    <3>4. Element(i).start # Root => Element(Element(i).start).in = i
      <4> SUFFICES ASSUME Element(i).start # Root
                   PROVE  Element(StartOf(d, i)).in = i
        BY <3>1
      <4>1. d.tag[i] \in Nesting /\ StartOf(d, i) # Root
        BY <3>1
      <4>2. i \in Subs(d) /\ StartOf(d, i) \in Level(d, i)
        BY <2>1, <4>1, Levels, StartIsThere
      <4>3. StartOf(d, i) \in Parsed(d) /\ d.in[StartOf(d, i)] = i
        BY <2>1, <4>2, Levels DEF Level
      <4> QED BY <2>2, <4>3, ParsedElement
    <3> QED BY <3>1, <3>2, <3>3, <3>4, EventOfTags
  <2>4. deployed.start # Root => Element(deployed.start).in = Root
    <3> SUFFICES ASSUME StartOf(d, Root) # Root
                 PROVE  Element(StartOf(d, Root)).in = Root
      BY <2>2
    <3>1. StartOf(d, Root) \in Level(d, Root)
      BY StartIsThere
    <3>2. StartOf(d, Root) \in Parsed(d) /\ d.in[StartOf(d, Root)] = Root
      BY <2>1, <3>1, Levels DEF Level
    <3> QED BY <2>2, <3>2, ParsedElement
  <2> QED BY <2>2, <2>3, <2>4 DEF ParserTypeOK
<1> QED BY <1>1, <1>2 DEF ParserInv

\* A gateway knows the flow it names, marked or not.
LEMMA DefaultsKnown == ParserInv => DefaultsServe
<1> SUFFICES ASSUME ParserInv
             PROVE  DefaultsServe
  OBVIOUS
<1>1. CASE deployed = NoDefinition
  <2>1. DOMAIN deployed.elements = {}
    BY <1>1 DEF NoDefinition
  <2> QED BY <2>1 DEF DefaultsServe
<1>2. ASSUME NEW d, NEW n, ParsedFrom(d, n)
      PROVE  DefaultsServe
  <2> SUFFICES ASSUME NEW g \in Parsed(d), Element(g).type = "gateway", d.default[g] \in FlowsFrom(g)
               PROVE  d.default[g] \in LastResort(g)
    BY <1>2, DefinitionParsed DEF DefaultsServe
  <2>1. Element(g) = ParseElement(d, g)
    BY <1>2, DefinitionParsed DEF Element
  <2>2. Element(g).default = d.default[g]
    BY <2>1, ParsedElement DEF Default
  <2> QED BY <2>2 DEF LastResort
<1> QED BY <1>1, <1>2 DEF ParserInv

\* WalksResolve and DefaultsServe (BpmnXmlParser.ts, evaluateExclusiveSplit), for every document and any number of edits:
\* a token finds its way in a definition without errors that the author kept in order, and gateways their default flows.
THEOREM ParserServes == ParserSpec => [](WalksResolve /\ DefaultsServe)
<1>1. ParserInv => WalksResolve /\ DefaultsServe
  BY DefaultsKnown DEF ParserInv
<1> QED
  BY <1>1, ParserStart, ParserStep, PTL DEF ParserSpec

-----------------------------------------------------------------------------
(* The parts side by side: what is proved of each holds of the stores.      *)

StoresInv == Inv /\ TasksInv /\ DefinitionsInv /\ PostgresInv /\ ParserInv

\* One part moves; the others stay as they are.
LEMMA StoresStep == StoresInv /\ [StoresNext]_storesVars => StoresInv'
<1> SUFFICES ASSUME StoresInv, [StoresNext]_storesVars
             PROVE  StoresInv'
  OBVIOUS
<1>1. [Next]_vars /\ [UserTasksNext]_userTaskVars /\ [PostgresNext]_postgresVars /\ [ParserNext]_parserVars
  BY DEF StoresNext, storesVars
<1>2. Inv'
  BY <1>1, NextInv DEF StoresInv
<1>3. TasksInv'
  BY <1>1, TasksKept DEF StoresInv
<1>4. DefinitionsInv'
  BY <1>1, DefinitionsKept DEF StoresInv
<1>5. PostgresInv'
  BY <1>1, PostgresSteps DEF StoresInv
<1>6. ParserInv'
  BY <1>1, ParserStep DEF StoresInv
<1> QED
  BY <1>2, <1>3, <1>4, <1>5, <1>6 DEF StoresInv

\* Every part keeps its invariant beside the others.
THEOREM StoresInvariance == StoresSpec => []StoresInv
<1>1. StoresInit => StoresInv
  BY InitInv, TasksStart, DefinitionsStart, PostgresInitially, ParserStart DEF StoresInit, StoresInv
<1> QED
  BY <1>1, StoresStep, PTL DEF StoresSpec

\* StoresTypeOK: the records beside the rows of an instance, the tables and the parsed definition have their types.
THEOREM StoresTypes == StoresSpec => []StoresTypeOK
<1>1. StoresInv => StoresTypeOK
  BY InvTypes, PostgresInvTypes, ParsedTypes DEF StoresInv, Inv, StoresTypeOK
<1> QED
  BY <1>1, StoresInvariance, PTL

\* DefinitionsServe: a definition in use stays with its source, and one that the parser passes can be walked.
THEOREM DefinitionsAreServed == StoresSpec => []DefinitionsServe
<1>1. StoresInv => DefinitionsServe
  BY DefaultsKnown DEF StoresInv, DefinitionsInv, DefinitionsStay, ParserInv, DefinitionsServe
<1> QED
  BY <1>1, StoresInvariance, PTL
=============================================================================
