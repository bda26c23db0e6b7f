------------------------- MODULE TokenEngineProofs -------------------------
(***************************************************************************)
(* Theorems about the execution engine, for every set of process           *)
(* definitions.                                                            *)
(*                                                                         *)
(* The argument rests on one relation between the tokens and the pending   *)
(* queue, Good: every token that is 'active' is queued.  Each handler takes*)
(* the head of the queue, gives that token another status (HeadGood) and   *)
(* queues the tokens it creates (PutGood); when runLoop ends the queue is  *)
(* empty, and nothing is left running.                                     *)
(*                                                                         *)
(* Race adds what the branches of event-based gateways keep to (Decided)   *)
(* and where parent tokens come from (Lineage); each handler is shown to   *)
(* keep it along the same lines (MarkFine, HeadFine, PutFine).             *)
(***************************************************************************)
EXTENDS TokenEngineProperties, TLAPS, SequenceTheorems, FiniteSetTheorems

\* The tokens tk are well formed and those still to be processed are in the queue q.
Good(tk, q) ==
    /\ tk \in Seq(Token)
    /\ q \in Seq(Nat)
    /\ \A k \in DOMAIN q : q[k] \in DOMAIN tk
    /\ \A i \in DOMAIN tk : tk[i].parent \in 0..Len(tk)
    /\ \A i \in DOMAIN tk : tk[i].status = "active" => \E k \in DOMAIN q : q[k] = i

\* Tokens that may be put after n others.
NewTokens(n) == {new \in Seq(Token) : \A i \in DOMAIN new : new[i].parent \in 0..n}

----------------------------------------------------------------------------
(* The operators the handlers are built from                                *)

LEMMA FunctionIsSeq ==
    ASSUME NEW S, NEW n \in Nat, NEW f \in [1..n -> S]
    PROVE  /\ f \in Seq(S)
           /\ Len(f) = n
<1>1. f \in Seq(S)
  BY SeqDef
<1> QED
  BY <1>1, LenProperties

\* The fields of an element have the types ElementRecord gives them.
LEMMA ElementFacts ==
    ASSUME NEW e \in Elements
    PROVE  /\ El[e].out \in Seq(Flows)
           /\ El[e].bound \in Seq(Elements)
           /\ El[e].undo \in Elements \cup {None}
           /\ El[e].default \in Flows \cup {None}
           /\ El[e].type = "subProcess" => El[e].start \in Elements
<1>1. El[e] \in ElementRecord
  BY DefinitionAssumption
<1> QED
  BY <1>1, DefinitionAssumption DEF ElementRecord

\* Tokens created along a list of flows have no parent.
LEMMA MovedType ==
    ASSUME NEW t \in Token, NEW flows \in Seq(Flows), NEW n \in Nat
    PROVE  Moved(t, flows) \in NewTokens(n)
<1>1. /\ Len(flows) \in Nat
      /\ DOMAIN flows = 1..Len(flows)
      /\ \A i \in 1..Len(flows) : flows[i] \in Flows
  BY LenProperties, ElementOfSeq
<1>2. t.sub \in Elements \cup {None}
  BY DEF Token
<1>3. ASSUME NEW i \in 1..Len(flows)
      PROVE  /\ Fresh(Target[flows[i]], flows[i], t.sub, 0) \in Token
             /\ Fresh(Target[flows[i]], flows[i], t.sub, 0).parent = 0
  <2>1. flows[i] \in Flows /\ Target[flows[i]] \in Elements
    BY <1>1, DefinitionAssumption
  <2> QED
    BY <1>2, <2>1 DEF Fresh, Token, Statuses, Lost
<1>4. Moved(t, flows) \in [1..Len(flows) -> Token]
  BY <1>1, <1>3 DEF Moved
<1>5. Moved(t, flows) \in Seq(Token) /\ DOMAIN Moved(t, flows) = 1..Len(flows)
  BY <1>1, <1>4, FunctionIsSeq
<1>6. \A i \in 1..Len(flows) : Moved(t, flows)[i].parent = 0
  BY <1>1, <1>3 DEF Moved
<1> QED
  BY <1>5, <1>6 DEF NewTokens

\* The tokens of boundary events and of loop children are well formed.
LEMMA BoundarySpawnsType ==
    ASSUME tok \in Seq(Token), NEW t \in DOMAIN tok, NEW n \in Nat
    PROVE  BoundarySpawns(t) \in NewTokens(n)
<1> DEFINE bound == El[tok[t].el].bound
<1>1. tok[t] \in Token
  BY LenProperties, ElementOfSeq
<1>2. tok[t].el \in Elements /\ tok[t].sub \in Elements \cup {None}
  BY <1>1 DEF Token
<1>3. bound \in Seq(Elements)
  BY <1>2, ElementFacts
<1> HIDE DEF bound
<1>4. /\ Len(bound) \in Nat
      /\ DOMAIN bound = 1..Len(bound)
      /\ \A i \in 1..Len(bound) : bound[i] \in Elements
  BY <1>3, LenProperties, ElementOfSeq
<1>5. ASSUME NEW i \in 1..Len(bound)
      PROVE  /\ Fresh(bound[i], None, tok[t].sub, 0) \in Token
             /\ Fresh(bound[i], None, tok[t].sub, 0).parent = 0
  BY <1>2, <1>4 DEF Fresh, Token, Statuses, Lost
<1>6. BoundarySpawns(t) = [i \in 1..Len(bound) |-> Fresh(bound[i], None, tok[t].sub, 0)]
  BY <1>4 DEF BoundarySpawns, bound
<1>7. BoundarySpawns(t) \in [1..Len(bound) -> Token]
  BY <1>5, <1>6
<1>8. BoundarySpawns(t) \in Seq(Token) /\ DOMAIN BoundarySpawns(t) = 1..Len(bound)
  BY <1>4, <1>7, FunctionIsSeq
<1> QED
  BY <1>5, <1>6, <1>8 DEF NewTokens

LEMMA LoopChildrenType ==
    ASSUME tok \in Seq(Token), NEW t \in DOMAIN tok, NEW n \in Nat
    PROVE  LoopChildren(t, n) \in NewTokens(Len(tok))
<1>1. tok[t] \in Token /\ Len(tok) \in Nat /\ t \in 1..Len(tok)
  BY LenProperties, ElementOfSeq
<1>2. tok[t].el \in Elements
  BY <1>1 DEF Token
<1>3. Fresh(tok[t].el, None, None, t) \in Token /\ Fresh(tok[t].el, None, None, t).parent = t
  BY <1>1, <1>2 DEF Fresh, Token, Statuses, Lost
<1>4. LoopChildren(t, n) \in [1..n -> Token]
  BY <1>3 DEF LoopChildren
<1>5. LoopChildren(t, n) \in Seq(Token)
  BY <1>4, FunctionIsSeq
<1> QED
  BY <1>1, <1>3, <1>5 DEF NewTokens, LoopChildren

\* A list of one new token.
LEMMA OneToken ==
    ASSUME NEW t \in Token, NEW n \in Nat, t.parent \in 0..n
    PROVE  << t >> \in NewTokens(n)
  BY DEF NewTokens

LEMMA NoTokens == ASSUME NEW n \in Nat PROVE << >> \in NewTokens(n)
  BY DEF NewTokens

\* Lists of new tokens are put one after the other.
LEMMA ConcatNew ==
    ASSUME NEW n \in Nat, NEW a \in NewTokens(n), NEW b \in NewTokens(n)
    PROVE  a \o b \in NewTokens(n)
<1>1. /\ a \in Seq(Token) /\ b \in Seq(Token) /\ Len(a) \in Nat /\ Len(b) \in Nat
      /\ DOMAIN a = 1..Len(a) /\ DOMAIN b = 1..Len(b)
  BY LenProperties DEF NewTokens
<1> DEFINE c == a \o b
<1>2. /\ c \in Seq(Token) /\ DOMAIN c = 1..(Len(a) + Len(b))
      /\ \A i \in 1..(Len(a) + Len(b)) : c[i] = IF i <= Len(a) THEN a[i] ELSE b[i - Len(a)]
  BY <1>1, ConcatProperties, LenProperties
<1> HIDE DEF c
<1>3. \A i \in DOMAIN c : c[i].parent \in 0..n
  <2> TAKE i \in DOMAIN c
  <2>1. CASE i <= Len(a)
    BY <1>1, <1>2, <2>1 DEF NewTokens
  <2>2. CASE ~(i <= Len(a))
    <3>1. i - Len(a) \in DOMAIN b
      BY <1>1, <1>2, <2>2
    <3> QED
      BY <1>2, <2>2, <3>1 DEF NewTokens
  <2> QED
    BY <2>1, <2>2
<1> QED
  BY <1>2, <1>3 DEF NewTokens, c

\* A set of positions of a sequence is finite.
LEMMA PositionsCount ==
    ASSUME NEW S, NEW seq \in Seq(S), NEW I \in SUBSET DOMAIN seq
    PROVE  Cardinality(I) \in Nat
<1>1. IsFiniteSet(DOMAIN seq)
  BY LenProperties, FS_Interval
<1> QED
  BY <1>1, FS_Subset, FS_CardinalityType

LEMMA HandlerTokensType ==
    ASSUME comp \in Seq(CompensationRecord), NEW I \in SUBSET DOMAIN comp,
           NEW p \in CompensationOrders(I),
           NEW n \in Nat, NEW t \in 1..n, NEW sub \in Elements \cup {None}
    PROVE  HandlerTokens(p, t, sub) \in NewTokens(n)
<1> DEFINE m == Cardinality(I)
<1>1. m \in Nat
  BY PositionsCount
<1>2. p \in [1..m -> I]
  BY DEF CompensationOrders
<1> HIDE DEF m
<1>3. \A i \in DOMAIN comp : comp[i] \in CompensationRecord
  BY LenProperties, ElementOfSeq
<1>4. ASSUME NEW i \in 1..m
      PROVE  /\ Fresh(comp[p[i]].handler, None, sub, t) \in Token
             /\ Fresh(comp[p[i]].handler, None, sub, t).parent = t
  <2>1. comp[p[i]].handler \in Elements
    BY <1>2, <1>3 DEF CompensationRecord
  <2> QED
    BY <2>1 DEF Fresh, Token, Statuses, Lost
<1>5. HandlerTokens(p, t, sub) = [i \in 1..m |-> Fresh(comp[p[i]].handler, None, sub, t)]
  BY <1>2 DEF HandlerTokens
<1>6. HandlerTokens(p, t, sub) \in [1..m -> Token]
  BY <1>4, <1>5
<1>7. HandlerTokens(p, t, sub) \in Seq(Token)
  BY <1>1, <1>6, FunctionIsSeq
<1> QED
  BY <1>4, <1>5, <1>7 DEF NewTokens

\* Mark changes the status of the tokens of S and nothing else.
LEMMA MarkFacts ==
    ASSUME NEW tk \in Seq(Token), NEW S, NEW st \in Statuses
    PROVE  /\ Mark(tk, S, st) \in Seq(Token)
           /\ DOMAIN Mark(tk, S, st) = DOMAIN tk
           /\ Len(Mark(tk, S, st)) = Len(tk)
           /\ \A i \in DOMAIN tk :
                 /\ Mark(tk, S, st)[i].parent = tk[i].parent
                 /\ Mark(tk, S, st)[i].rest = tk[i].rest
                 /\ Mark(tk, S, st)[i].el = tk[i].el
                 /\ Mark(tk, S, st)[i].sub = tk[i].sub
                 /\ Mark(tk, S, st)[i].status = IF i \in S THEN st ELSE tk[i].status
<1> DEFINE n == Len(tk)
<1>1. n \in Nat /\ DOMAIN tk = 1..n
  BY LenProperties
<1>2. \A i \in 1..n : tk[i] \in Token
  BY ElementOfSeq
<1> HIDE DEF n
<1>3. \A i \in 1..n : [tk[i] EXCEPT !.status = st] \in Token
  BY <1>2 DEF Token
<1>4. Mark(tk, S, st)
        = [i \in 1..n |-> IF i \in S THEN [tk[i] EXCEPT !.status = st] ELSE tk[i]]
  BY <1>1 DEF Mark
<1>5. Mark(tk, S, st) \in [1..n -> Token]
  BY <1>2, <1>3, <1>4
<1>6. /\ Mark(tk, S, st) \in Seq(Token)
      /\ Len(Mark(tk, S, st)) = n
      /\ DOMAIN Mark(tk, S, st) = 1..n
  BY <1>1, <1>5, FunctionIsSeq
<1>7. \A i \in 1..n : /\ Mark(tk, S, st)[i].parent = tk[i].parent
                     /\ Mark(tk, S, st)[i].rest = tk[i].rest
                     /\ Mark(tk, S, st)[i].el = tk[i].el
                     /\ Mark(tk, S, st)[i].sub = tk[i].sub
                     /\ Mark(tk, S, st)[i].status = IF i \in S THEN st ELSE tk[i].status
  BY <1>2, <1>4 DEF Token
<1> QED
  BY <1>1, <1>6, <1>7 DEF n

\* Tokens that get another status than 'active' may leave the queue or not.
LEMMA MarkGood ==
    ASSUME NEW tk, NEW q, Good(tk, q), NEW S, NEW st \in Statuses, st # "active"
    PROVE  /\ Good(Mark(tk, S, st), q)
           /\ Len(Mark(tk, S, st)) = Len(tk)
           /\ DOMAIN Mark(tk, S, st) = DOMAIN tk
<1> DEFINE mk == Mark(tk, S, st)
<1>1. tk \in Seq(Token)
  BY DEF Good
<1>2. /\ mk \in Seq(Token) /\ DOMAIN mk = DOMAIN tk /\ Len(mk) = Len(tk)
      /\ \A i \in DOMAIN tk : /\ mk[i].parent = tk[i].parent
                              /\ mk[i].status = IF i \in S THEN st ELSE tk[i].status
  BY <1>1, MarkFacts
<1> HIDE DEF mk
<1>3. Good(mk, q)
  BY <1>2 DEF Good
<1> QED
  BY <1>2, <1>3 DEF mk

\* The head of the queue may leave it once it is no longer 'active'.
LEMMA HeadGood ==
    ASSUME Good(tok, queue), queue # << >>,
           NEW S, Head(queue) \in S, NEW st \in Statuses, st # "active"
    PROVE  /\ Good(Mark(tok, S, st), Tail(queue))
           /\ Len(Mark(tok, S, st)) = Len(tok)
           /\ DOMAIN Mark(tok, S, st) = DOMAIN tok
<1> DEFINE q == Tail(queue)
           tk == Mark(tok, S, st)
<1>1. /\ tk \in Seq(Token)
      /\ DOMAIN tk = DOMAIN tok
      /\ Len(tk) = Len(tok)
      /\ \A i \in DOMAIN tok : /\ tk[i].parent = tok[i].parent
                               /\ tk[i].status = IF i \in S THEN st ELSE tok[i].status
  BY MarkFacts DEF Good
<1>2. /\ Len(queue) \in Nat /\ DOMAIN queue = 1..Len(queue) /\ Len(queue) # 0
      /\ Head(queue) = queue[1]
  BY LenProperties, EmptySeq DEF Good
<1>3. /\ q \in Seq(Nat) /\ Len(q) = Len(queue) - 1 /\ DOMAIN q = 1..Len(q)
      /\ \A k \in 1..Len(q) : q[k] = queue[k + 1]
  BY HeadTailProperties, LenProperties DEF Good
<1> HIDE DEF q, tk
<1>4. \A k \in DOMAIN q : q[k] \in DOMAIN tok
  <2> TAKE k \in DOMAIN q
  <2>1. k + 1 \in DOMAIN queue /\ q[k] = queue[k + 1]
    BY <1>2, <1>3
  <2> QED
    BY <2>1 DEF Good
<1>5. ASSUME NEW i \in DOMAIN tok, tk[i].status = "active"
      PROVE  \E k \in DOMAIN q : q[k] = i
  <2>1. i \notin S /\ tok[i].status = "active"
    BY <1>1, <1>5
  <2>2. PICK k \in DOMAIN queue : queue[k] = i
    BY <2>1 DEF Good
  <2>3. k # 1
    BY <1>2, <2>1, <2>2
  <2>4. k - 1 \in 1..Len(q) /\ (k - 1) + 1 = k
    BY <1>2, <1>3, <2>2, <2>3
  <2>5. q[k - 1] = i
    BY <1>3, <2>2, <2>4
  <2> QED
    BY <1>3, <2>4, <2>5
<1>6. \A i \in DOMAIN tok : tk[i].parent \in 0..Len(tk)
  BY <1>1 DEF Good
<1>7. Good(tk, q)
  BY <1>1, <1>3, <1>4, <1>5, <1>6 DEF Good
<1> QED
  BY <1>1, <1>7 DEF tk, q

\* New tokens are queued as they are created.
LEMMA PutGood ==
    ASSUME NEW tk, NEW q, Good(tk, q), NEW new \in NewTokens(Len(tk)), Put(tk, new, q)
    PROVE  Good(tok', queue')
<1> DEFINE n == Len(tk)
           m == Len(new)
           num == [i \in DOMAIN new |-> n + i]
<1>1. /\ n \in Nat /\ DOMAIN tk = 1..n /\ m \in Nat /\ DOMAIN new = 1..m
      /\ new \in Seq(Token) /\ tk \in Seq(Token) /\ q \in Seq(Nat)
      /\ Len(q) \in Nat /\ DOMAIN q = 1..Len(q)
  BY LenProperties DEF NewTokens, Good
<1> HIDE DEF n, m
<1>2. num \in [1..m -> Nat]
  BY <1>1
<1>3. num \in Seq(Nat) /\ Len(num) = m
  BY <1>1, <1>2, FunctionIsSeq
<1>4. /\ tok' \in Seq(Token) /\ Len(tok') = n + m /\ DOMAIN tok' = 1..(n + m)
      /\ \A i \in 1..(n + m) : tok'[i] = IF i <= n THEN tk[i] ELSE new[i - n]
  <2>1. tok' = tk \o new
    BY DEF Put
  <2> QED
    BY <1>1, <2>1, ConcatProperties, LenProperties DEF n, m
<1> DEFINE l == Len(q)
<1>5. /\ queue' \in Seq(Nat) /\ Len(queue') = l + m /\ DOMAIN queue' = 1..(l + m)
      /\ \A k \in 1..(l + m) : queue'[k] = IF k <= l THEN q[k] ELSE num[k - l]
  <2>1. queue' = q \o num
    BY DEF Put, n
  <2> QED
    BY <1>1, <1>3, <2>1, ConcatProperties, LenProperties
<1>9. l \in Nat /\ DOMAIN q = 1..l /\ \A i \in 1..m : num[i] = n + i
  BY <1>1
<1> HIDE DEF l, num
<1>6. \A k \in DOMAIN queue' : queue'[k] \in DOMAIN tok'
  <2> TAKE k \in DOMAIN queue'
  <2>1. CASE k <= l
    <3>1. k \in DOMAIN q /\ queue'[k] = q[k]
      BY <1>1, <1>5, <1>9, <2>1
    <3>2. q[k] \in 1..n
      BY <1>1, <3>1 DEF Good
    <3> QED
      BY <1>1, <1>4, <3>1, <3>2
  <2>2. CASE ~(k <= l)
    <3>1. k \in 1..(l + m)
      BY <1>5
    <3>2. k - l \in 1..m /\ queue'[k] = n + (k - l)
      <4>1. k - l \in 1..m
        BY <1>1, <1>9, <2>2, <3>1
      <4>2. queue'[k] = num[k - l]
        BY <1>5, <2>2, <3>1
      <4> QED
        BY <1>9, <4>1, <4>2
    <3> QED
      <4>1. n + (k - l) \in 1..(n + m)
        BY <1>1, <1>9, <3>1, <3>2
      <4> QED
        BY <1>4, <3>2, <4>1
  <2> QED
    BY <2>1, <2>2
<1>7. \A i \in DOMAIN tok' : tok'[i].parent \in 0..Len(tok')
  <2> TAKE i \in DOMAIN tok'
  <2>1. CASE i <= n
    BY <1>1, <1>4, <2>1 DEF Good, n
  <2>2. CASE ~(i <= n)
    <3>1. new[i - n].parent \in 0..n
      BY <1>1, <1>4, <2>2 DEF NewTokens, n
    <3> QED
      BY <1>1, <1>4, <2>2, <3>1
  <2> QED
    BY <2>1, <2>2
<1>8. ASSUME NEW i \in DOMAIN tok', tok'[i].status = "active"
      PROVE  \E k \in DOMAIN queue' : queue'[k] = i
  <2>1. CASE i <= n
    <3>1. PICK k \in DOMAIN q : q[k] = i
      BY <1>1, <1>4, <1>8, <2>1 DEF Good
    <3>2. k \in 1..(l + m) /\ k <= l
      BY <1>1, <1>9, <3>1
    <3>3. queue'[k] = i
      BY <1>5, <3>1, <3>2
    <3> QED
      BY <1>5, <3>2, <3>3
  <2>2. CASE ~(i <= n)
    <3>1. i - n \in 1..m /\ num[i - n] = i
      BY <1>1, <1>4, <1>9, <2>2
    <3> DEFINE k == l + (i - n)
    <3>2. k \in 1..(l + m) /\ ~(k <= l) /\ k - l = i - n
      BY <1>1, <1>9, <3>1
    <3> HIDE DEF k
    <3> QED
      BY <1>5, <3>1, <3>2
  <2> QED
    BY <2>1, <2>2
<1> QED
  BY <1>4, <1>5, <1>6, <1>7, <1>8 DEF Good

\* A token of a good list, and the element it is at.
LEMMA TokenFacts ==
    ASSUME NEW tk, NEW q, Good(tk, q), NEW t \in DOMAIN tk
    PROVE  /\ t \in 1..Len(tk) /\ Len(tk) \in Nat /\ DOMAIN tk = 1..Len(tk)
           /\ tk[t] \in Token /\ tk[t].el \in Elements /\ tk[t].sub \in Elements \cup {None}
           /\ tk[t].parent # 0 => tk[t].parent \in DOMAIN tk
<1>1. tk \in Seq(Token) /\ tk[t].parent \in 0..Len(tk)
  BY DEF Good
<1>2. t \in 1..Len(tk) /\ Len(tk) \in Nat /\ DOMAIN tk = 1..Len(tk) /\ tk[t] \in Token
  BY <1>1, LenProperties, ElementOfSeq
<1> QED
  BY <1>1, <1>2 DEF Token

\* The counter of a multi-instance activity has no part in what is good.
LEMMA RestGood ==
    ASSUME NEW tk, NEW q, Good(tk, q), NEW p \in DOMAIN tk, NEW r \in Nat
    PROVE  /\ Good([tk EXCEPT ![p].rest = r], q)
           /\ Len([tk EXCEPT ![p].rest = r]) = Len(tk)
<1> DEFINE e == [tk[p] EXCEPT !.rest = r]
           tr == [tk EXCEPT ![p] = e]
<1>1. tk[p] \in Token /\ p \in 1..Len(tk) /\ tk \in Seq(Token) /\ DOMAIN tk = 1..Len(tk)
  BY TokenFacts DEF Good
<1>2. e \in Token /\ e.parent = tk[p].parent /\ e.status = tk[p].status
  BY <1>1 DEF Token
<1>3. [tk EXCEPT ![p].rest = r] = tr
  OBVIOUS
<1> HIDE DEF e
<1>4. /\ tr \in Seq(Token) /\ Len(tr) = Len(tk)
      /\ \A j \in 1..Len(tk) : tr[j] = IF j = p THEN e ELSE tk[j]
  BY <1>1, <1>2, ExceptSeq
<1>5. DOMAIN tr = DOMAIN tk
  BY <1>1, <1>4, LenProperties
<1> HIDE DEF tr
<1>6. \A j \in DOMAIN tk : tr[j].parent = tk[j].parent /\ tr[j].status = tk[j].status
  BY <1>1, <1>2, <1>4
<1>7. Good(tr, q)
  BY <1>4, <1>5, <1>6 DEF Good
<1> QED
  BY <1>3, <1>4, <1>7

\* Tokens move on from t along the flows of an element.
LEMMA MovedGood ==
    ASSUME NEW tk, NEW q, Good(tk, q), NEW t \in Token, NEW flows \in Seq(Flows),
           Put(tk, Moved(t, flows), q)
    PROVE  Good(tok', queue')
<1>1. Len(tk) \in Nat
  BY LenProperties DEF Good
<1>2. Moved(t, flows) \in NewTokens(Len(tk))
  BY <1>1, MovedType
<1> QED
  BY <1>2, PutGood

LEMMA NothingPutGood ==
    ASSUME NEW tk, NEW q, Good(tk, q), Put(tk, << >>, q)
    PROVE  Good(tok', queue')
<1>1. Len(tk) \in Nat
  BY LenProperties DEF Good
<1>2. << >> \in NewTokens(Len(tk))
  BY <1>1, NoTokens
<1> QED
  BY <1>2, PutGood

LEMMA AdvanceGood ==
    ASSUME NEW t, tok[t] \in Token, NEW tk, NEW q, Good(Mark(tk, {t}, "completed"), q),
           Advance(t, tk, q)
    PROVE  Good(tok', queue')
<1>1. El[tok[t].el].out \in Seq(Flows)
  BY ElementFacts DEF Token
<1> QED
  BY <1>1, MovedGood DEF Advance

LEMMA FireCancelBoundaryGood ==
    ASSUME NEW tk, NEW q, Good(tk, q), NEW o, FireCancelBoundary(o, tk, q)
    PROVE  Good(tok', queue')
<1> DEFINE fired == Least({i \in BoundaryTokens(tk, tk[o].el) : El[tk[i].el].event = "cancel"})
<1>1. CASE fired = {}
  BY <1>1, NothingPutGood DEF FireCancelBoundary
<1>2. CASE fired # {}
  <2>1. PICK b \in fired : Put(Mark(Mark(tk, {b}, "completed"), {o}, "cancelled"),
                               Moved(tk[b], El[tk[b].el].out), q)
    BY <1>2 DEF FireCancelBoundary
  <2>2. b \in DOMAIN tk
    BY DEF Least, BoundaryTokens, Waiting
  <2>3. tk[b] \in Token /\ El[tk[b].el].out \in Seq(Flows)
    BY <2>2, TokenFacts, ElementFacts
  <2>4. Good(Mark(tk, {b}, "completed"), q)
    BY MarkGood DEF Statuses
  <2>5. Good(Mark(Mark(tk, {b}, "completed"), {o}, "cancelled"), q)
    BY <2>4, MarkGood DEF Statuses
  <2> QED
    BY <2>1, <2>3, <2>5, MovedGood
<1> QED
  BY <1>1, <1>2

LEMMA CompleteLoopGood ==
    ASSUME NEW tk, NEW q, Good(tk, q), NEW p, tok[p] \in Token, CompleteLoop(p, tk, q)
    PROVE  Good(tok', queue')
<1>1. El[tok[p].el].out \in Seq(Flows)
  BY ElementFacts DEF Token
<1>2. Good(Mark(tk, {p}, "completed"), q)
  BY MarkGood DEF Statuses
<1>3. Good(Mark(Mark(tk, {p}, "completed"), BoundaryTokens(tk, tok[p].el), "cancelled"), q)
  BY <1>2, MarkGood DEF Statuses
<1> QED
  BY <1>1, <1>3, MovedGood DEF CompleteLoop

\* The four ways to go on after a child of a multi-instance activity.
LEMMA CompleteLoopChildGood ==
    ASSUME NEW q0, Good(tok, q0), NEW t \in DOMAIN tok, tok[t].parent # 0,
           NEW q, Good(Mark(tok, {t}, "completed"), q), CompleteLoopChild(t, q)
    PROVE  Good(tok', queue')
<1> DEFINE p == tok[t].parent
           tk == Mark(tok, {t}, "completed")
           siblings == Waiting(tk) \cap ChildrenOf(tk, p)
<1>1. p \in DOMAIN tok /\ tok[p] \in Token
  BY TokenFacts
<1>2. /\ Len(tk) = Len(tok) /\ DOMAIN tk = DOMAIN tok
      /\ tk[p].rest = tok[p].rest
  BY <1>1, MarkFacts DEF Good, Statuses
<1>3. Good(tk, q)
  OBVIOUS
<1>4. Len(tk) \in Nat /\ p \in DOMAIN tk
  BY <1>1, <1>2, <1>3, TokenFacts
<1> HIDE DEF tk, p
<1>5. CASE CompleteLoop(p, tk, q)
  BY <1>1, <1>3, <1>5, CompleteLoopGood
<1>6. CASE Put(tk, << >>, q)
  BY <1>3, <1>6, NothingPutGood
<1>7. CASE CompleteLoop(p, Mark(tk, siblings, "cancelled"), q)
  <2>1. Good(Mark(tk, siblings, "cancelled"), q)
    BY <1>3, MarkGood DEF Statuses
  <2> QED
    BY <1>1, <1>7, <2>1, CompleteLoopGood
<1>8. CASE /\ tok[p].rest # Lost /\ tok[p].rest # 0
           /\ Put([tk EXCEPT ![p].rest = @ - 1], LoopChildren(p, 1), q)
  <2> DEFINE r == tk[p].rest - 1
             tr == [tk EXCEPT ![p].rest = r]
  <2>1. tok[p].rest \in Nat \cup {Lost}
    BY <1>1 DEF Token
  <2>2. r \in Nat
    BY <1>2, <1>8, <2>1
  <2> HIDE DEF r
  <2>3. Good(tr, q) /\ Len(tr) = Len(tk)
    BY <1>3, <1>4, <2>2, RestGood
  <2>4. LoopChildren(p, 1) \in NewTokens(Len(tr))
    BY <1>1, <1>2, <2>3, LoopChildrenType DEF Good
  <2>5. Put(tr, LoopChildren(p, 1), q)
    BY <1>8 DEF r
  <2> QED
    BY <2>3, <2>4, <2>5, PutGood
<1> QED
  BY <1>5, <1>6, <1>7, <1>8 DEF CompleteLoopChild, tk, p

----------------------------------------------------------------------------
(* Every handler processes the head of the queue                            *)

\* What a handler finds when it is called with the token t and the rest q of the queue.
Called(t, q) ==
    /\ Good(tok, queue)
    /\ comp \in Seq(CompensationRecord)
    /\ queue # << >>
    /\ t = Head(queue)
    /\ q = Tail(queue)

LEMMA CalledFacts ==
    ASSUME NEW t, NEW q, Called(t, q)
    PROVE  /\ t \in DOMAIN tok /\ t \in 1..Len(tok) /\ Len(tok) \in Nat
           /\ tok[t] \in Token /\ tok[t].el \in Elements
           /\ tok[t].sub \in Elements \cup {None}
           /\ tok \in Seq(Token)
           /\ Good(Mark(tok, {t}, "completed"), q)
           /\ Good(Mark(tok, {t}, "waiting"), q)
           /\ Len(Mark(tok, {t}, "completed")) = Len(tok)
           /\ Len(Mark(tok, {t}, "waiting")) = Len(tok)
<1>1. /\ Len(queue) \in Nat /\ DOMAIN queue = 1..Len(queue) /\ Len(queue) # 0
      /\ Head(queue) = queue[1]
  BY LenProperties, EmptySeq DEF Good, Called
<1>2. t \in DOMAIN tok
  BY <1>1 DEF Good, Called
<1>3. /\ Good(Mark(tok, {t}, "completed"), q)
      /\ Len(Mark(tok, {t}, "completed")) = Len(tok)
  BY HeadGood DEF Called, Statuses
<1>4. /\ Good(Mark(tok, {t}, "waiting"), q)
      /\ Len(Mark(tok, {t}, "waiting")) = Len(tok)
  BY HeadGood DEF Called, Statuses
<1>5. Good(tok, queue)
  BY DEF Called
<1>6. tok \in Seq(Token)
  BY <1>5 DEF Good
<1> QED
  BY <1>2, <1>3, <1>4, <1>5, <1>6, TokenFacts

LEMMA PassThroughGood ==
    ASSUME NEW t, NEW q, Called(t, q), PassThrough(t, q) \/ ParallelSplit(t, q)
    PROVE  Good(tok', queue')
<1>1. Advance(t, tok, q)
  BY DEF PassThrough, ParallelSplit
<1> QED
  BY <1>1, CalledFacts, AdvanceGood

LEMMA SuspendGood ==
    ASSUME NEW t, NEW q, Called(t, q), Suspend(t, q)
    PROVE  Good(tok', queue')
<1> DEFINE tk == Mark(tok, {t}, "waiting")
<1>1. Good(tk, q) /\ Len(tk) \in Nat /\ t \in DOMAIN tok /\ tok \in Seq(Token)
  BY CalledFacts
<1> HIDE DEF tk
<1>2. BoundarySpawns(t) \in NewTokens(Len(tk)) /\ << >> \in NewTokens(Len(tk))
  BY <1>1, BoundarySpawnsType, NoTokens
<1> QED
  BY <1>1, <1>2, PutGood DEF Suspend, tk

LEMMA EnterSubProcessGood ==
    ASSUME NEW t, NEW q, Called(t, q), EnterSubProcess(t, q)
    PROVE  Good(tok', queue')
<1> DEFINE tk == Mark(tok, {t}, "waiting")
           e == tok[t].el
           spawns == IF El[e].tx THEN BoundarySpawns(t) ELSE << >>
           inner == << Fresh(El[e].start, None, e, 0) >>
<1>1. /\ Good(tk, q) /\ Len(tk) \in Nat /\ t \in DOMAIN tok /\ tok \in Seq(Token)
      /\ e \in Elements
  BY CalledFacts
<1>2. El[e].start \in Elements
  BY <1>1, ElementFacts DEF EnterSubProcess, Type
<1>3. Fresh(El[e].start, None, e, 0) \in Token /\ Fresh(El[e].start, None, e, 0).parent = 0
  BY <1>1, <1>2 DEF Fresh, Token, Statuses, Lost
<1>4. inner \in NewTokens(Len(tk))
  BY <1>1, <1>3, OneToken
<1>5. spawns \in NewTokens(Len(tk))
  BY <1>1, BoundarySpawnsType, NoTokens
<1>6. Put(tk, spawns \o inner, q)
  BY DEF EnterSubProcess
<1> HIDE DEF tk, spawns, inner
<1>7. spawns \o inner \in NewTokens(Len(tk))
  BY <1>1, <1>4, <1>5, ConcatNew
<1> QED
  BY <1>1, <1>6, <1>7, PutGood

LEMMA EndGood ==
    ASSUME NEW t, NEW q, Called(t, q), EndProcess(t, q) \/ EndSubProcess(t, q) \/ Terminate(t, q)
    PROVE  Good(tok', queue')
<1> DEFINE tk == Mark(tok, {t}, "completed")
<1>1. Good(tk, q) /\ tok \in Seq(Token)
  BY CalledFacts
<1> HIDE DEF tk
<1>2. CASE EndProcess(t, q)
  BY <1>1, <1>2 DEF EndProcess, tk
<1>3. CASE EndSubProcess(t, q)
  <2> DEFINE outer == Least(WaitingAt(tk, tok[t].sub))
  <2>1. CASE Put(tk, << >>, q)
    BY <1>1, <2>1, NothingPutGood
  <2>2. CASE \E o \in outer : Advance(o, tk, q)
    <3>1. PICK o \in outer : Advance(o, tk, q)
      BY <2>2
    <3>2. o \in DOMAIN tok
      BY <1>1, MarkFacts DEF Least, WaitingAt, Waiting, tk, Statuses
    <3>3. tok[o] \in Token
      BY <3>2, TokenFacts DEF Called
    <3>4. Good(Mark(tk, {o}, "completed"), q)
      BY <1>1, MarkGood DEF Statuses
    <3> QED
      BY <3>1, <3>3, <3>4, AdvanceGood
  <2> QED
    BY <1>3, <2>1, <2>2 DEF EndSubProcess, tk
<1>4. CASE Terminate(t, q)
  <2>1. Good(Mark(tk, Live(tok) \ {t}, "cancelled"), q)
    BY <1>1, MarkGood DEF Statuses
  <2> QED
    BY <1>4, <2>1 DEF Terminate, tk
<1> QED
  BY <1>2, <1>3, <1>4

LEMMA CancelTransactionGood ==
    ASSUME NEW t, NEW q, Called(t, q), CancelTransaction(t, q)
    PROVE  Good(tok', queue')
<1> DEFINE sp == tok[t].sub
           done == Mark(tok, {t}, "completed")
           inner == (Live(tok) \cap InScope(tok, sp)) \ {t}
           tk == Mark(done, inner, "cancelled")
           outer == Least(WaitingAt(tk, sp))
<1>1. /\ Good(done, q) /\ Len(done) = Len(tok) /\ t \in 1..Len(tok) /\ Len(tok) \in Nat
      /\ sp \in Elements \cup {None}
  BY CalledFacts
<1> HIDE DEF done, sp, inner
<1>2. Good(tk, q) /\ Len(tk) = Len(tok)
  BY <1>1, MarkGood DEF Statuses
<1> HIDE DEF tk
<1>3. CASE Put(done, << >>, q) \/ Put(tk, << >>, q)
  BY <1>1, <1>2, <1>3, NothingPutGood
<1>4. CASE \E p \in CompensationOrders(DOMAIN comp) : Put(tk, HandlerTokens(p, t, sp), q)
  <2>1. PICK p \in CompensationOrders(DOMAIN comp) : Put(tk, HandlerTokens(p, t, sp), q)
    BY <1>4
  <2>2. HandlerTokens(p, t, sp) \in NewTokens(Len(tok))
    BY <1>1, HandlerTokensType DEF Called
  <2> QED
    BY <1>2, <2>1, <2>2, PutGood
<1>5. CASE \E o \in outer : FireCancelBoundary(o, tk, q)
  BY <1>2, <1>5, FireCancelBoundaryGood
<1> QED
  BY <1>3, <1>4, <1>5 DEF CancelTransaction, tk, inner, done, sp

\* What an exclusive gateway selects is one of the flows.
LEMMA ExclusiveChoicesType ==
    ASSUME NEW g \in Elements, NEW f \in ExclusiveChoices(g)
    PROVE  << f >> \in Seq(Flows)
<1>1. El[g].out \in Seq(Flows) /\ El[g].default \in Flows \cup {None}
  BY ElementFacts
<1>2. \A i \in DOMAIN El[g].out : El[g].out[i] \in Flows
  BY <1>1, LenProperties, ElementOfSeq
<1>3. f \in Flows
  BY <1>1, <1>2 DEF ExclusiveChoices
<1> QED
  BY <1>3

LEMMA ExclusiveGood ==
    ASSUME NEW t, NEW q, Called(t, q), Exclusive(t, q)
    PROVE  Good(tok', queue')
<1>1. PICK f \in ExclusiveChoices(tok[t].el) :
          Put(Mark(tok, {t}, "completed"), Moved(tok[t], << f >>), q)
  BY DEF Exclusive
<1>2. tok[t] \in Token /\ tok[t].el \in Elements /\ Good(Mark(tok, {t}, "completed"), q)
  BY CalledFacts
<1>3. << f >> \in Seq(Flows)
  BY <1>2, ExclusiveChoicesType
<1> QED
  BY <1>1, <1>2, <1>3, MovedGood

LEMMA JoinGood ==
    ASSUME NEW t, NEW q, Called(t, q), NEW js, Arrive(t, q, js)
    PROVE  Good(tok', queue')
<1>1. tok[t] \in Token /\ Good(Mark(tok, {t}, "completed"), q)
  BY CalledFacts
<1>2. CASE Advance(t, tok, q)
  BY <1>1, <1>2, AdvanceGood
<1>3. CASE Put(Mark(tok, {t}, "completed"), << >>, q)
  BY <1>1, <1>3, NothingPutGood
<1> QED
  BY <1>2, <1>3 DEF Arrive

\* Any enumeration of positions of a list of flows gives a list of flows.
LEMMA SelectedFlows ==
    ASSUME NEW out \in Seq(Flows), NEW I \in SUBSET DOMAIN out, NEW p \in Ascending(I)
    PROVE  [i \in DOMAIN p |-> out[p[i]]] \in Seq(Flows)
<1> DEFINE m == Cardinality(I)
<1>1. m \in Nat
  BY PositionsCount
<1>2. p \in [1..m -> I]
  BY DEF Ascending
<1> HIDE DEF m
<1>3. \A i \in DOMAIN out : out[i] \in Flows
  BY LenProperties, ElementOfSeq
<1>4. [i \in DOMAIN p |-> out[p[i]]] \in [1..m -> Flows]
  BY <1>2, <1>3
<1> QED
  BY <1>1, <1>4, FunctionIsSeq

LEMMA InclusiveSplitGood ==
    ASSUME NEW t, NEW q, Called(t, q), InclusiveSplit(t, q)
    PROVE  Good(tok', queue')
<1> DEFINE out == El[tok[t].el].out
<1>1. PICK I \in SUBSET DOMAIN out : \E p \in Ascending(I) :
          Put(Mark(tok, {t}, "completed"), Moved(tok[t], [i \in DOMAIN p |-> out[p[i]]]), q)
  BY DEF InclusiveSplit
<1>2. tok[t] \in Token /\ tok[t].el \in Elements /\ Good(Mark(tok, {t}, "completed"), q)
  BY CalledFacts
<1>3. out \in Seq(Flows)
  BY <1>2, ElementFacts
<1>4. PICK p \in Ascending(I) :
          Put(Mark(tok, {t}, "completed"), Moved(tok[t], [i \in DOMAIN p |-> out[p[i]]]), q)
  BY <1>1
<1> HIDE DEF out
<1>5. [i \in DOMAIN p |-> out[p[i]]] \in Seq(Flows)
  BY <1>3, SelectedFlows
<1> QED
  BY <1>2, <1>4, <1>5, MovedGood

LEMMA EventGatewayGood ==
    ASSUME NEW t, NEW q, Called(t, q), EventGateway(t, q)
    PROVE  Good(tok', queue')
<1> DEFINE out == El[tok[t].el].out
           children == [i \in DOMAIN out |-> Fresh(Target[out[i]], out[i], None, t)]
           tk == Mark(tok, {t}, "completed")
<1>1. /\ tok[t].el \in Elements /\ Good(tk, q) /\ Len(tk) = Len(tok)
      /\ t \in 1..Len(tok) /\ Len(tok) \in Nat
  BY CalledFacts
<1>2. out \in Seq(Flows)
  BY <1>1, ElementFacts
<1>3. Put(tk, children, q)
  BY DEF EventGateway
<1> HIDE DEF out, tk
<1>4. /\ Len(out) \in Nat /\ DOMAIN out = 1..Len(out)
      /\ \A i \in 1..Len(out) : out[i] \in Flows
  BY <1>2, LenProperties, ElementOfSeq
<1>5. ASSUME NEW i \in 1..Len(out)
      PROVE  /\ Fresh(Target[out[i]], out[i], None, t) \in Token
             /\ Fresh(Target[out[i]], out[i], None, t).parent = t
  <2>1. out[i] \in Flows /\ Target[out[i]] \in Elements
    BY <1>4, DefinitionAssumption
  <2> QED
    BY <1>1, <2>1 DEF Fresh, Token, Statuses, Lost
<1>6. children \in [1..Len(out) -> Token]
  BY <1>4, <1>5
<1>7. children \in Seq(Token) /\ \A i \in DOMAIN children : children[i].parent = t
  BY <1>4, <1>5, <1>6, FunctionIsSeq
<1> HIDE DEF children
<1>8. children \in NewTokens(Len(tk))
  BY <1>1, <1>7 DEF NewTokens
<1> QED
  BY <1>1, <1>3, <1>8, PutGood

LEMMA ThrowCompensationGood ==
    ASSUME NEW t, NEW q, Called(t, q), ThrowCompensation(t, q)
    PROVE  Good(tok', queue')
<1> DEFINE hit == {i \in DOMAIN comp : El[tok[t].el].ref \in {None, comp[i].activity}}
           found == {i \in hit : El[comp[i].handler].within = None}
           tk == Mark(tok, {t}, "waiting")
<1>1. /\ tok[t] \in Token /\ t \in 1..Len(tok) /\ Len(tok) \in Nat
      /\ Good(Mark(tok, {t}, "completed"), q) /\ Good(tk, q) /\ Len(tk) = Len(tok)
  BY CalledFacts
<1>2. CASE Advance(t, tok, q)
  BY <1>1, <1>2, AdvanceGood
<1>3. CASE \E p \in CompensationOrders(found) : Put(tk, HandlerTokens(p, t, None), q)
  <2>1. PICK p \in CompensationOrders(found) : Put(tk, HandlerTokens(p, t, None), q)
    BY <1>3
  <2>2. found \in SUBSET DOMAIN comp
    OBVIOUS
  <2> HIDE DEF found, tk
  <2>3. HandlerTokens(p, t, None) \in NewTokens(Len(tk))
    BY <1>1, <2>2, HandlerTokensType DEF Called
  <2> QED
    BY <1>1, <2>1, <2>3, PutGood
<1> QED
  BY <1>2, <1>3 DEF ThrowCompensation

LEMMA StartLoopGood ==
    ASSUME NEW t, NEW q, Called(t, q), StartLoop(t, q)
    PROVE  Good(tok', queue')
<1> DEFINE tk == Mark(tok, {t}, "waiting")
<1>1. /\ tok[t] \in Token /\ t \in DOMAIN tok /\ tok \in Seq(Token)
      /\ Good(Mark(tok, {t}, "completed"), q) /\ Good(tk, q) /\ Len(tk) = Len(tok)
  BY CalledFacts
<1>2. t \in DOMAIN tk /\ Len(tk) \in Nat
  BY <1>1, MarkFacts, LenProperties DEF Statuses
<1>3. PICK n \in Collections \ {None} :
          IF n = 0
          THEN Advance(t, tok, q)
          ELSE IF El[tok[t].el].loop = "seq"
               THEN Put([tk EXCEPT ![t].rest = n - 1], LoopChildren(t, 1), q)
               ELSE Put(tk, LoopChildren(t, n), q)
  BY DEF StartLoop
<1>4. n \in Nat
  BY BoundsAssumption
<1> HIDE DEF tk
<1>5. CASE Advance(t, tok, q)
  BY <1>1, <1>5, AdvanceGood
<1>6. CASE n # 0 /\ Put([tk EXCEPT ![t].rest = n - 1], LoopChildren(t, 1), q)
  <2> DEFINE r == n - 1
             tr == [tk EXCEPT ![t].rest = r]
  <2>1. r \in Nat
    BY <1>4, <1>6
  <2> HIDE DEF r
  <2>2. Good(tr, q) /\ Len(tr) = Len(tk)
    BY <1>1, <1>2, <2>1, RestGood
  <2>3. LoopChildren(t, 1) \in NewTokens(Len(tr))
    BY <1>1, <2>2, LoopChildrenType
  <2>4. Put(tr, LoopChildren(t, 1), q)
    BY <1>6 DEF r
  <2> QED
    BY <2>2, <2>3, <2>4, PutGood
<1>7. CASE Put(tk, LoopChildren(t, n), q)
  <2>1. LoopChildren(t, n) \in NewTokens(Len(tk))
    BY <1>1, <1>4, LoopChildrenType
  <2> QED
    BY <1>1, <1>7, <2>1, PutGood
<1> QED
  BY <1>3, <1>5, <1>6, <1>7

LEMMA ManualLoopChildGood ==
    ASSUME NEW t, NEW q, Called(t, q), ManualLoopChild(t, q)
    PROVE  Good(tok', queue')
<1>1. Good(tok, queue) /\ t \in DOMAIN tok /\ Good(Mark(tok, {t}, "completed"), q)
  BY CalledFacts DEF Called
<1>2. tok[t].parent # 0 /\ CompleteLoopChild(t, q)
  BY DEF ManualLoopChild
<1> QED
  BY <1>1, <1>2, CompleteLoopChildGood

\* Together: runLoop keeps the tokens and the queue in step.
LEMMA ProcessTokenGood ==
    ASSUME Good(tok, queue), comp \in Seq(CompensationRecord), ProcessToken
    PROVE  Good(tok', queue')
<1> DEFINE t == Head(queue)
           q == Tail(queue)
<1>1. Called(t, q)
  BY DEF ProcessToken, Called
<1>2. \/ PassThrough(t, q) \/ ParallelSplit(t, q)
      \/ Suspend(t, q) \/ EnterSubProcess(t, q)
      \/ EndProcess(t, q) \/ EndSubProcess(t, q) \/ Terminate(t, q)
      \/ CancelTransaction(t, q) \/ Exclusive(t, q)
      \/ ParallelJoin(t, q) \/ InclusiveJoin(t, q)
      \/ InclusiveSplit(t, q) \/ EventGateway(t, q)
      \/ ThrowCompensation(t, q) \/ StartLoop(t, q) \/ ManualLoopChild(t, q)
  BY DEF ProcessToken
<1> HIDE DEF t, q
<1>3. CASE ParallelJoin(t, q) \/ InclusiveJoin(t, q)
  <2>1. PICK js : Arrive(t, q, js)
    BY <1>3 DEF ParallelJoin, InclusiveJoin
  <2> QED
    BY <1>1, <2>1, JoinGood
<1> QED
  BY <1>1, <1>2, <1>3, PassThroughGood, SuspendGood, EnterSubProcessGood, EndGood,
     CancelTransactionGood, ExclusiveGood, InclusiveSplitGood, EventGatewayGood,
     ThrowCompensationGood, StartLoopGood, ManualLoopChildGood

----------------------------------------------------------------------------
(* What the handlers leave well formed besides the tokens                   *)

LEMMA ConsumeType ==
    ASSUME comp \in Seq(CompensationRecord), NEW I, Consume(I)
    PROVE  comp' \in Seq(CompensationRecord)
<1> DEFINE D == DOMAIN comp \ I
           m == Cardinality(D)
<1>1. PICK p \in Ascending(D) : comp' = [i \in DOMAIN p |-> comp[p[i]]]
  BY DEF Consume
<1>2. m \in Nat
  BY PositionsCount
<1>3. p \in [1..m -> D]
  BY <1>1 DEF Ascending
<1>4. \A i \in DOMAIN comp : comp[i] \in CompensationRecord
  BY LenProperties, ElementOfSeq
<1> HIDE DEF m
<1>5. comp' \in [1..m -> CompensationRecord]
  BY <1>1, <1>3, <1>4
<1> QED
  BY <1>2, <1>5, FunctionIsSeq

LEMMA RecordedType ==
    ASSUME comp \in Seq(CompensationRecord), tok \in Seq(Token), NEW t \in DOMAIN tok, Recorded(t)
    PROVE  comp' \in Seq(CompensationRecord)
<1> DEFINE last == IF comp = << >> THEN 0 ELSE comp[Len(comp)].at
           e == tok[t].el
<1>1. t \in Nat /\ e \in Elements
  <2>1. DOMAIN tok = 1..Len(tok) /\ Len(tok) \in Nat
    BY LenProperties
  <2>2. tok[t] \in Token
    BY <2>1, ElementOfSeq
  <2> QED
    BY <2>1, <2>2 DEF Token
<1>2. last \in Nat
  <2>1. CASE comp # << >>
    <3>1. comp[Len(comp)] \in CompensationRecord
      BY <2>1, EmptySeq, LenProperties, ElementOfSeq
    <3> QED
      BY <2>1, <3>1 DEF CompensationRecord
  <2> QED
    BY <2>1
<1>3. El[e].undo \in Elements \cup {None}
  BY <1>1, ElementFacts
<1> HIDE DEF last, e
<1>4. CASE comp' = comp
  BY <1>4
<1>5. CASE El[e].undo # None /\ \E at \in {last, last + 1} :
              comp' = Append(comp, [activity |-> e, handler |-> El[e].undo, token |-> t, at |-> at])
  <2>1. PICK at \in {last, last + 1} :
           comp' = Append(comp, [activity |-> e, handler |-> El[e].undo, token |-> t, at |-> at])
    BY <1>5
  <2>2. [activity |-> e, handler |-> El[e].undo, token |-> t, at |-> at] \in CompensationRecord
    BY <1>1, <1>2, <1>3, <1>5 DEF CompensationRecord
  <2> QED
    BY <2>1, <2>2, AppendProperties
<1> QED
  BY <1>4, <1>5 DEF Recorded, last, e

LEMMA NoJoinType == NoJoin \in JoinState
  BY DEF NoJoin, JoinState

LEMMA ArriveType ==
    ASSUME joins \in [Elements -> JoinState], NEW t, tok[t] \in Token, NEW q,
           NEW js \in JoinState, Arrive(t, q, js)
    PROVE  joins' \in [Elements -> JoinState]
<1>1. PICK f \in Arrivals(t) :
          \/ joins' = [joins EXCEPT ![tok[t].el] = NoJoin]
          \/ joins' = [joins EXCEPT ![tok[t].el] = [js EXCEPT !.arrived = @ \cup {f}]]
  BY DEF Arrive
<1>2. tok[t].el \in Elements /\ tok[t].via \in Flows \cup {None}
  BY DEF Token
<1>3. f \in Flows
  BY <1>2 DEF Arrivals, Incoming, IncomingFlows
<1>4. [js EXCEPT !.arrived = @ \cup {f}] \in JoinState
  BY <1>3 DEF JoinState
<1> QED
  BY <1>1, <1>4, NoJoinType

\* What a token processed by runLoop does to the join states, the compensation records and
\* the instance.
LEMMA ProcessTokenType ==
    ASSUME Good(tok, queue), comp \in Seq(CompensationRecord),
           joins \in [Elements -> JoinState], inst \in InstanceStatuses, ProcessToken
    PROVE  /\ comp' \in Seq(CompensationRecord)
           /\ joins' \in [Elements -> JoinState]
           /\ inst' \in InstanceStatuses
<1> DEFINE t == Head(queue)
           q == Tail(queue)
<1>1. Called(t, q)
  BY DEF ProcessToken, Called
<1>2. tok[t] \in Token /\ tok[t].el \in Elements
  BY <1>1, CalledFacts
<1>3. inst' \in InstanceStatuses
  BY DEF ProcessToken, PassThrough, Suspend, EnterSubProcess, EndProcess, EndSubProcess,
     Terminate, CancelTransaction, Exclusive, ParallelSplit, ParallelJoin, InclusiveSplit,
     InclusiveJoin, EventGateway, ThrowCompensation, StartLoop, ManualLoopChild, InstanceStatuses
<1>4. comp' = comp \/ \E I : Consume(I)
  BY DEF ProcessToken, PassThrough, Suspend, EnterSubProcess, EndProcess, EndSubProcess,
     Terminate, CancelTransaction, Exclusive, ParallelSplit, ParallelJoin, InclusiveSplit,
     InclusiveJoin, EventGateway, ThrowCompensation, StartLoop, ManualLoopChild
<1>5. comp' \in Seq(CompensationRecord)
  BY <1>4, ConsumeType
<1>6. \/ joins' = joins
      \/ ParallelJoin(t, q) \/ InclusiveJoin(t, q) \/ InclusiveSplit(t, q)
  BY DEF ProcessToken, PassThrough, Suspend, EnterSubProcess, EndProcess, EndSubProcess,
     Terminate, CancelTransaction, Exclusive, ParallelSplit, EventGateway, ThrowCompensation,
     StartLoop, ManualLoopChild
<1> HIDE DEF t, q
<1>7. joins' \in [Elements -> JoinState]
  <2>1. CASE ParallelJoin(t, q) \/ InclusiveJoin(t, q)
    <3>1. Incoming(tok[t].el) \in SUBSET Flows /\ joins[tok[t].el] \in JoinState
      BY <1>2 DEF Incoming, IncomingFlows
    <3>2. [arrived |-> {}, expected |-> Incoming(tok[t].el)] \in JoinState
      BY <3>1 DEF JoinState
    <3>3. PICK js \in JoinState : Arrive(t, q, js)
      BY <2>1, <3>1, <3>2 DEF ParallelJoin, InclusiveJoin
    <3> QED
      BY <1>2, <3>3, ArriveType
  <2>2. CASE InclusiveSplit(t, q)
    <3>1. PICK active : \/ joins' = joins
                        \/ \E j \in InclusiveJoins(active) :
                              joins' = [joins EXCEPT ![j] =
                                          [arrived |-> {}, expected |-> Expected(active, j)]]
      BY <2>2 DEF InclusiveSplit
    <3>2. \A j \in Elements : [arrived |-> {}, expected |-> Expected(active, j)] \in JoinState
      BY DEF Expected, Incoming, IncomingFlows, JoinState
    <3>3. InclusiveJoins(active) \subseteq Elements
      BY DEF InclusiveJoins
    <3>4. CASE joins' # joins
      <4>1. PICK j \in InclusiveJoins(active) :
               joins' = [joins EXCEPT ![j] = [arrived |-> {}, expected |-> Expected(active, j)]]
        BY <3>1, <3>4
      <4>2. [arrived |-> {}, expected |-> Expected(active, j)] \in JoinState
        BY <3>2, <3>3
      <4> QED
        BY <4>1, <4>2
    <3> QED
      BY <3>4
  <2> QED
    BY <1>6, <2>1, <2>2
<1> QED
  BY <1>3, <1>5, <1>7

----------------------------------------------------------------------------
(* Commands                                                                 *)

LEMMA CompleteHandlerGood ==
    ASSUME Good(tok, queue), NEW t \in DOMAIN tok, tok[t].parent # 0, CompleteHandler(t)
    PROVE  Good(tok', queue')
<1> DEFINE p == tok[t].parent
           tk == Mark(tok, {t}, "completed")
<1>1. tok[p] \in Token
  BY TokenFacts
<1>2. Good(tk, queue)
  BY MarkGood DEF Statuses
<1>3. Good(Mark(tk, {p}, "completed"), queue)
  BY <1>2, MarkGood DEF Statuses
<1> HIDE DEF tk, p
<1>4. CASE Put(tk, << >>, queue)
  BY <1>2, <1>4, NothingPutGood
<1>5. CASE Advance(p, tk, queue)
  BY <1>1, <1>3, <1>5, AdvanceGood
<1>6. CASE \E o : FireCancelBoundary(o, tk, queue)
  BY <1>2, <1>6, FireCancelBoundaryGood
<1> QED
  BY <1>4, <1>5, <1>6 DEF CompleteHandler, tk, p

LEMMA CompleteOrdinaryGood ==
    ASSUME Good(tok, queue), comp \in Seq(CompensationRecord), NEW t \in DOMAIN tok,
           NEW tk, Good(tk, queue), CompleteOrdinary(t, tk)
    PROVE  Good(tok', queue') /\ comp' \in Seq(CompensationRecord)
<1> DEFINE tb == Mark(tk, BoundaryTokens(tk, tok[t].el), "cancelled")
<1>1. tok[t] \in Token /\ tok \in Seq(Token)
  BY TokenFacts DEF Good
<1>2. Good(tb, queue)
  BY MarkGood DEF Statuses
<1>3. Good(Mark(tb, {t}, "completed"), queue)
  BY <1>2, MarkGood DEF Statuses
<1>4. Advance(t, tb, queue) /\ Recorded(t)
  BY DEF CompleteOrdinary
<1> HIDE DEF tb
<1>5. Good(tok', queue')
  BY <1>1, <1>3, <1>4, AdvanceGood
<1>6. comp' \in Seq(CompensationRecord)
  BY <1>1, <1>4, RecordedType
<1> QED
  BY <1>5, <1>6

LEMMA CompleteTaskGood ==
    ASSUME Good(tok, queue), comp \in Seq(CompensationRecord), NEW t \in DOMAIN tok,
           CompleteTask(t)
    PROVE  Good(tok', queue') /\ comp' \in Seq(CompensationRecord)
<1>1. CASE IsLoopChild(t) /\ CompleteLoopChild(t, queue) /\ comp' = comp
  <2>1. tok[t].parent # 0 /\ Good(Mark(tok, {t}, "completed"), queue)
    BY <1>1, MarkGood DEF IsLoopChild, Statuses
  <2> QED
    BY <1>1, <2>1, CompleteLoopChildGood
<1>2. CASE IsHandler(t) /\ CompleteHandler(t) /\ comp' = comp
  BY <1>2, CompleteHandlerGood DEF IsHandler
<1>3. CASE CompleteOrdinary(t, tok)
  BY <1>3, CompleteOrdinaryGood
<1> QED
  BY <1>1, <1>2, <1>3 DEF CompleteTask

LEMMA FailServiceTaskGood ==
    ASSUME Good(tok, queue), NEW t \in DOMAIN tok, NEW code \in Names, FailServiceTask(t, code)
    PROVE  Good(tok', queue')
<1>1. CASE tok' = tok /\ queue' = queue
  BY <1>1
<1>2. CASE \E b \in ErrorBoundary(tok[t].el, code) :
              Put(Mark(tok, {t} \cup HostAndBoundaries(tok, tok[t].el), "cancelled"),
                  Moved(tok[t], El[b].out), queue)
  <2>1. PICK b \in ErrorBoundary(tok[t].el, code) :
              Put(Mark(tok, {t} \cup HostAndBoundaries(tok, tok[t].el), "cancelled"),
                  Moved(tok[t], El[b].out), queue)
    BY <1>2
  <2>2. tok[t] \in Token /\ tok[t].el \in Elements
    BY TokenFacts
  <2>3. PICK i \in DOMAIN El[tok[t].el].bound : b = El[tok[t].el].bound[i]
    BY <2>1 DEF ErrorBoundary
  <2>4. b \in Elements
    BY <2>2, <2>3, ElementFacts, LenProperties, ElementOfSeq
  <2>5. El[b].out \in Seq(Flows)
    BY <2>4, ElementFacts
  <2>6. Good(Mark(tok, {t} \cup HostAndBoundaries(tok, tok[t].el), "cancelled"), queue)
    BY MarkGood DEF Statuses
  <2> QED
    BY <2>1, <2>2, <2>5, <2>6, MovedGood
<1> QED
  BY <1>1, <1>2 DEF FailServiceTask

LEMMA FireBoundaryTimerGood ==
    ASSUME Good(tok, queue), NEW t \in DOMAIN tok, FireBoundaryTimer(t)
    PROVE  Good(tok', queue')
<1> DEFINE e == El[tok[t].el]
           hit == IF e.cancels THEN HostAndBoundaries(tok, e.host) \ {t} ELSE {}
<1>1. Good(Mark(tok, {t}, "completed"), queue)
  BY MarkGood DEF Statuses
<1>2. Good(Mark(Mark(tok, {t}, "completed"), hit, "cancelled"), queue)
  BY <1>1, MarkGood DEF Statuses
<1>3. tok[t] \in Token /\ e.out \in Seq(Flows)
  BY TokenFacts, ElementFacts
<1>4. Put(Mark(Mark(tok, {t}, "completed"), hit, "cancelled"), Moved(tok[t], e.out), queue)
  BY DEF FireBoundaryTimer
<1> QED
  BY <1>2, <1>3, <1>4, MovedGood

LEMMA FireTimerGood ==
    ASSUME Good(tok, queue), comp \in Seq(CompensationRecord), NEW t \in DOMAIN tok, FireTimer(t)
    PROVE  Good(tok', queue') /\ comp' \in Seq(CompensationRecord)
<1>1. Good(Mark(tok, RaceSiblings(tok, t), "cancelled"), queue)
  BY MarkGood DEF Statuses
<1>2. CompleteOrdinary(t, Mark(tok, RaceSiblings(tok, t), "cancelled"))
  BY DEF FireTimer
<1> QED
  BY <1>1, <1>2, CompleteOrdinaryGood

LEMMA DeliverNextGood ==
    ASSUME Good(tok, queue), targets \subseteq DOMAIN tok, DeliverNext
    PROVE  Good(tok', queue') /\ targets' \subseteq DOMAIN tok'
<1>1. PICK t \in Least(targets) :
        /\ targets' = targets \ {t}
        /\ \/ Put(Mark(Mark(tok, {t}, "completed"), RaceSiblings(tok, t), "cancelled"),
                  Moved(tok[t], El[tok[t].el].out), queue)
           \/ tok' = tok /\ queue' = queue
  BY DEF DeliverNext
<1>2. t \in DOMAIN tok
  BY DEF Least
<1>3. CASE tok' = tok /\ queue' = queue
  BY <1>1, <1>3
<1>4. CASE Put(Mark(Mark(tok, {t}, "completed"), RaceSiblings(tok, t), "cancelled"),
               Moved(tok[t], El[tok[t].el].out), queue)
  <2> DEFINE tk == Mark(Mark(tok, {t}, "completed"), RaceSiblings(tok, t), "cancelled")
             new == Moved(tok[t], El[tok[t].el].out)
  <2>1. /\ Good(Mark(tok, {t}, "completed"), queue)
        /\ DOMAIN Mark(tok, {t}, "completed") = DOMAIN tok
    BY MarkGood DEF Statuses
  <2>2. Good(tk, queue) /\ DOMAIN tk = DOMAIN tok
    BY <2>1, MarkGood DEF Statuses
  <2>3. tok[t] \in Token /\ El[tok[t].el].out \in Seq(Flows)
    BY <1>2, TokenFacts, ElementFacts
  <2>4. Good(tok', queue')
    BY <1>4, <2>2, <2>3, MovedGood
  <2>5. tk \in Seq(Token) /\ Len(tk) \in Nat /\ DOMAIN tk = 1..Len(tk)
    BY <2>2, LenProperties DEF Good
  <2>6. new \in Seq(Token) /\ Len(new) \in Nat
    BY <2>3, <2>5, MovedType, LenProperties DEF NewTokens
  <2>7. tok' = tk \o new
    BY <1>4 DEF Put
  <2> HIDE DEF tk, new
  <2>8. DOMAIN tok' = 1..(Len(tk) + Len(new))
    BY <2>5, <2>6, <2>7, ConcatProperties, LenProperties
  <2>9. DOMAIN tok \subseteq DOMAIN tok'
    BY <2>2, <2>5, <2>6, <2>8
  <2> QED
    BY <1>1, <2>4, <2>9
<1> QED
  BY <1>1, <1>3, <1>4

\* A command leaves everything well formed; it only finds targets when it delivers.
LEMMA CommandGood ==
    ASSUME TypeOK, Good(tok, queue), targets = {}, Command
    PROVE  /\ Good(tok', queue')
           /\ inst' \in InstanceStatuses
           /\ targets' \subseteq DOMAIN tok'
           /\ joins' = joins
           /\ comp' \in Seq(CompensationRecord)
           /\ cycle' = TRUE
           /\ store' = store
<1>1. comp \in Seq(CompensationRecord) /\ inst \in InstanceStatuses
  BY DEF TypeOK
<1>2. joins' = joins /\ cycle' = TRUE /\ store' = store
  BY DEF Command, Begin, StartProcess, CompleteTask, FailServiceTask, FireBoundaryTimer,
     FireTimer, Deliver, SuspendInstance, ResumeInstance, CancelInstance
<1>3. inst' \in InstanceStatuses
  BY <1>1 DEF Command, StartProcess, CompleteTask, FailServiceTask, FireBoundaryTimer,
     FireTimer, Deliver, SuspendInstance, ResumeInstance, CancelInstance, Resumed,
     InstanceStatuses
<1>4. targets' \subseteq DOMAIN tok'
  <2>1. CASE \E kind \in {"message", "signal"}, name \in Names : Deliver(kind, name)
    BY <2>1 DEF Deliver, Waiting
  <2>2. CASE targets' = targets
    BY <2>2
  <2> QED
    BY <2>1, <2>2 DEF Command, StartProcess, CompleteTask, FailServiceTask, FireBoundaryTimer,
       FireTimer, SuspendInstance, ResumeInstance, CancelInstance
<1>5. Good(tok', queue') /\ comp' \in Seq(CompensationRecord)
  <2>1. CASE StartProcess
    <3>1. PICK start \in StartEvents : Put(tok, << Fresh(start, None, None, 0) >>, queue)
      BY <2>1 DEF StartProcess
    <3>2. Fresh(start, None, None, 0) \in Token /\ Fresh(start, None, None, 0).parent = 0
      BY <3>1, DefinitionAssumption DEF Fresh, Token, Statuses, Lost
    <3>3. Len(tok) \in Nat
      BY LenProperties DEF Good
    <3>4. << Fresh(start, None, None, 0) >> \in NewTokens(Len(tok))
      BY <3>2, <3>3, OneToken
    <3>5. comp' = comp
      BY <2>1 DEF StartProcess
    <3> QED
      BY <1>1, <3>1, <3>4, <3>5, PutGood
  <2>2. CASE \E t \in DOMAIN tok : CompleteTask(t)
    BY <1>1, <2>2, CompleteTaskGood
  <2>3. CASE \E t \in DOMAIN tok, code \in Names : FailServiceTask(t, code)
    <3>1. PICK t \in DOMAIN tok, code \in Names : FailServiceTask(t, code)
      BY <2>3
    <3>2. comp' = comp
      BY <3>1 DEF FailServiceTask
    <3> QED
      BY <1>1, <3>1, <3>2, FailServiceTaskGood
  <2>4. CASE \E t \in DOMAIN tok : FireBoundaryTimer(t)
    <3>1. PICK t \in DOMAIN tok : FireBoundaryTimer(t)
      BY <2>4
    <3>2. comp' = comp
      BY <3>1 DEF FireBoundaryTimer
    <3> QED
      BY <1>1, <3>1, <3>2, FireBoundaryTimerGood
  <2>5. CASE \E t \in DOMAIN tok : FireTimer(t)
    BY <1>1, <2>5, FireTimerGood
  <2>6. CASE CancelInstance
    <3>1. Good(Mark(tok, Live(tok), "cancelled"), queue)
      BY MarkGood DEF Statuses
    <3> QED
      BY <1>1, <2>6, <3>1 DEF CancelInstance
  <2>7. CASE tok' = tok /\ queue' = queue /\ comp' = comp
    BY <1>1, <2>7
  <2> QED
    BY <2>1, <2>2, <2>3, <2>4, <2>5, <2>6, <2>7
       DEF Command, Deliver, SuspendInstance, ResumeInstance
<1> QED
  BY <1>2, <1>3, <1>4, <1>5

----------------------------------------------------------------------------
(* The invariant                                                            *)

\* What is stored never has a token to process, and neither has an instance at rest.
Inv ==
    /\ TypeOK
    /\ Good(tok, queue)
    /\ ~cycle => queue = << >> /\ targets = {}
    /\ Good(store.tok, << >>)

LEMMA EmptyGood == Good(<< >>, << >>)
  BY DEF Good

\* The store gives tokens back with or without their loop counters.
LEMMA RevivedGood ==
    ASSUME NEW tk, Good(tk, << >>)
    PROVE  Good(Revived(tk), << >>) /\ DOMAIN Revived(tk) = DOMAIN tk
<1> DEFINE rv == [i \in DOMAIN tk |-> [tk[i] EXCEPT !.rest = Lost]]
           n == Len(tk)
<1>1. tk \in Seq(Token) /\ n \in Nat /\ DOMAIN tk = 1..n
  BY LenProperties DEF Good
<1>2. \A i \in 1..n : tk[i] \in Token
  BY <1>1, ElementOfSeq
<1> HIDE DEF n
<1>3. \A i \in 1..n : /\ [tk[i] EXCEPT !.rest = Lost] \in Token
                     /\ [tk[i] EXCEPT !.rest = Lost].status = tk[i].status
                     /\ [tk[i] EXCEPT !.rest = Lost].parent = tk[i].parent
  BY <1>2 DEF Token
<1>4. rv \in [1..n -> Token]
  BY <1>1, <1>3
<1>5. rv \in Seq(Token) /\ Len(rv) = n /\ DOMAIN rv = 1..n
  BY <1>1, <1>4, FunctionIsSeq
<1>6. \A i \in 1..n : rv[i].status = tk[i].status /\ rv[i].parent = tk[i].parent
  BY <1>1, <1>3
<1> HIDE DEF rv
<1>7. Good(rv, << >>)
  BY <1>1, <1>5, <1>6 DEF Good, n
<1>8. Revived(tk) = tk \/ Revived(tk) = rv
  BY DEF Revived, rv
<1> QED
  BY <1>1, <1>5, <1>7, <1>8

LEMMA InitInv == Init => Inv
<1> SUFFICES ASSUME Init PROVE Inv
  OBVIOUS
<1>1. joins \in [Elements -> JoinState]
  BY NoJoinType DEF Init
<1>2. store \in EngineState
  <2>1. store = [inst |-> "none", tok |-> << >>, joins |-> joins, comp |-> << >>]
    BY DEF Init
  <2>2. "none" \in InstanceStatuses
    BY DEF InstanceStatuses
  <2>3. << >> \in Seq(Token) /\ << >> \in Seq(CompensationRecord)
    BY EmptySeq
  <2> QED
    BY <1>1, <2>1, <2>2, <2>3 DEF EngineState
<1>3. Good(tok, queue) /\ Good(store.tok, << >>)
  BY EmptyGood DEF Init
<1>4. /\ inst \in InstanceStatuses /\ targets \subseteq DOMAIN tok /\ cycle \in BOOLEAN
      /\ comp \in Seq(CompensationRecord)
  BY EmptySeq DEF Init, InstanceStatuses
<1>5. TypeOK
  BY <1>1, <1>2, <1>3, <1>4 DEF TypeOK, Good
<1> QED
  BY <1>3, <1>5 DEF Inv, Init

LEMMA NextInv == Inv /\ [Next]_vars => Inv'
<1> SUFFICES ASSUME Inv, [Next]_vars PROVE Inv'
  OBVIOUS
<1>1. /\ TypeOK /\ Good(tok, queue) /\ Good(store.tok, << >>)
      /\ ~cycle => queue = << >> /\ targets = {}
  BY DEF Inv
<1>2. /\ inst \in InstanceStatuses /\ targets \subseteq DOMAIN tok
      /\ joins \in [Elements -> JoinState] /\ comp \in Seq(CompensationRecord)
      /\ cycle \in BOOLEAN /\ store \in EngineState
  BY <1>1 DEF TypeOK
<1>3. CASE Command
  <2>1. targets = {}
    BY <1>1, <1>3 DEF Command
  <2>2. /\ Good(tok', queue') /\ inst' \in InstanceStatuses /\ targets' \subseteq DOMAIN tok'
        /\ joins' = joins /\ comp' \in Seq(CompensationRecord)
        /\ cycle' = TRUE /\ store' = store
    BY <1>1, <1>3, <2>1, CommandGood
  <2>3. TypeOK'
    BY <1>2, <2>2 DEF TypeOK, Good
  <2> QED
    BY <1>1, <2>2, <2>3 DEF Inv
<1>4. CASE DeliverNext
  <2>1. Good(tok', queue') /\ targets' \subseteq DOMAIN tok'
    BY <1>1, <1>2, <1>4, DeliverNextGood
  <2>2. /\ inst' = inst /\ joins' = joins /\ comp' = comp /\ cycle' = cycle /\ store' = store
        /\ cycle
    BY <1>4 DEF DeliverNext
  <2>3. TypeOK'
    BY <1>2, <2>1, <2>2 DEF TypeOK, Good
  <2> QED
    BY <1>1, <2>1, <2>2, <2>3 DEF Inv
<1>5. CASE ProcessToken
  <2>1. Good(tok', queue')
    BY <1>1, <1>2, <1>5, ProcessTokenGood
  <2>2. /\ comp' \in Seq(CompensationRecord) /\ joins' \in [Elements -> JoinState]
        /\ inst' \in InstanceStatuses
    BY <1>1, <1>2, <1>5, ProcessTokenType
  <2>3. targets' = {} /\ cycle' = cycle /\ store' = store /\ cycle
    BY <1>5 DEF ProcessToken
  <2>4. TypeOK'
    BY <1>2, <2>1, <2>2, <2>3 DEF TypeOK, Good
  <2> QED
    BY <1>1, <2>1, <2>3, <2>4 DEF Inv
<1>6. CASE Throw
  <2>1. /\ tok' = store.tok /\ queue' = << >> /\ inst' = store.inst /\ joins' = store.joins
        /\ comp' = store.comp /\ targets' = {} /\ store' = store /\ cycle' = FALSE
    BY <1>6 DEF Throw
  <2>2. Good(tok', queue') /\ Good(store'.tok, << >>)
    BY <1>1, <2>1
  <2>3. TypeOK'
    BY <1>2, <2>1, <2>2 DEF TypeOK, Good, EngineState
  <2> QED
    BY <2>1, <2>2, <2>3 DEF Inv
<1>7. CASE Commit
  <2>1. /\ tok' = Revived(tok) /\ queue = << >> /\ queue' = << >> /\ targets' = {}
        /\ inst' = inst /\ joins' = joins /\ comp' = comp /\ cycle' = FALSE
        /\ store' = [inst |-> inst, tok |-> Revived(tok), joins |-> joins, comp |-> comp]
    BY <1>7 DEF Commit
  <2>2. Good(Revived(tok), << >>)
    BY <1>1, <2>1, RevivedGood
  <2>3. Good(tok', queue') /\ Good(store'.tok, << >>)
    BY <2>1, <2>2
  <2>4. store' \in EngineState
    BY <1>2, <2>1, <2>2 DEF EngineState, Good
  <2>5. TypeOK'
    BY <1>2, <2>1, <2>3, <2>4 DEF TypeOK, Good
  <2> QED
    BY <2>1, <2>3, <2>5 DEF Inv
<1>8. CASE UNCHANGED vars
  BY <1>1, <1>8 DEF Inv, TypeOK, Good, vars
<1> QED
  BY <1>3, <1>4, <1>5, <1>6, <1>7, <1>8 DEF Next

THEOREM Invariance == Spec => []Inv
  BY InitInv, NextInv, PTL DEF Spec

\* The state of an instance is well formed in every cycle, whatever is deployed: tokens are
\* at elements of a definition, the queue names existing tokens, and join states,
\* compensation records and what is stored keep their shape (ExecutionEngine.execute).
THEOREM TypeCorrectness == Spec => []TypeOK
<1>1. Inv => TypeOK
  BY DEF Inv
<1> QED
  BY <1>1, Invariance, PTL

\* runLoop drains the queue and every handler disposes of the token it was given, so no
\* cycle, command or throw leaves a token to process in the state that is stored.
THEOREM CyclesRunDry == Spec => []NothingLeftRunning
<1>1. Inv => NothingLeftRunning
  <2> SUFFICES ASSUME Inv, ~cycle PROVE \A t \in DOMAIN tok : tok[t].status # "active"
    BY DEF NothingLeftRunning, AtRest
  <2>1. Good(tok, << >>)
    BY DEF Inv
  <2> QED
    BY <2>1 DEF Good
<1> QED
  BY <1>1, Invariance, PTL

----------------------------------------------------------------------------
(* Races: an event-based gateway has one winner                             *)

\* The types of the element a token was created by, and of its own, if it has a parent: the branches of an
\* event-based gateway, the handlers of a compensation, the children of a multi-instance activity.
Fosters(parent, child) ==
    /\ parent \in TaskTypes \cup {"eventBasedGateway", "intermediateThrowEvent", "endEvent"}
    /\ parent = "eventBasedGateway" => child = "intermediateCatchEvent"

TypeAt(tk, i) == El[tk[i].el].type
Lineage(tk) ==
    \A i \in DOMAIN tk :
        /\ tk[i].sub # None => El[tk[i].sub].type = "subProcess"
        /\ tk[i].parent # 0 => Fosters(TypeAt(tk, tk[i].parent), TypeAt(tk, i))

Queued(q) == {q[k] : k \in DOMAIN q}
Increasing(q) == \A j, k \in DOMAIN q : j < k => q[j] < q[k]

\* i is a branch of an event-based gateway; the others are its rivals.
InRace(tk, i) == tk[i].parent # 0 /\ TypeAt(tk, tk[i].parent) = "eventBasedGateway"
Rivals(tk, i) == {j \in DOMAIN tk \ {i} : tk[j].parent = tk[i].parent}

\* A gateway with branches is not processed again, and a race is decided for good: once a branch is
\* completed, none is waiting, queued or completed besides.
Decided(tk, q) ==
    \A i \in DOMAIN tk : InRace(tk, i) =>
        /\ tk[i].parent \notin Queued(q)
        /\ tk[i].status = "completed" =>
              i \notin Queued(q) /\ \A j \in Rivals(tk, i) : j \notin Queued(q) /\ tk[j].status \notin {"waiting", "completed"}

Race(tk, q) == Lineage(tk) /\ Increasing(q) /\ Decided(tk, q)

\* While messages are delivered, only tokens that have just moved on are queued.
Arriving == targets # {} => \A k \in DOMAIN queue : tok[queue[k]].parent = 0

RaceInv == Race(tok, queue) /\ Race(store.tok, << >>) /\ Arriving

\* What the tokens and the queue keep to, races included.
Fine(tk, q) == Good(tk, q) /\ Race(tk, q)

LEMMA RaceFacts ==
    ASSUME NEW tk, NEW q, Fine(tk, q), NEW i \in DOMAIN tk
    PROVE  /\ tk[i].sub # None => El[tk[i].sub].type = "subProcess"
           /\ tk[i].parent # 0 => tk[i].parent \in DOMAIN tk /\ Fosters(TypeAt(tk, tk[i].parent), TypeAt(tk, i))
           /\ InRace(tk, i) => TypeAt(tk, i) = "intermediateCatchEvent"
<1>1. tk[i].parent # 0 => tk[i].parent \in DOMAIN tk
  BY TokenFacts DEF Fine
<1> QED
  BY <1>1 DEF Fine, Race, Lineage, InRace, Fosters

\* Tokens of other kinds may change as they like; the branches of a race only by giving up.
LEMMA MarkFine ==
    ASSUME NEW tk, NEW q, Fine(tk, q), NEW S, NEW st \in Statuses, st # "active",
           st = "cancelled" \/ \A i \in S \cap DOMAIN tk : ~InRace(tk, i)
    PROVE  /\ Fine(Mark(tk, S, st), q)
           /\ Len(Mark(tk, S, st)) = Len(tk) /\ DOMAIN Mark(tk, S, st) = DOMAIN tk
           /\ \A i \in DOMAIN tk : /\ Mark(tk, S, st)[i].el = tk[i].el /\ Mark(tk, S, st)[i].sub = tk[i].sub
                                   /\ Mark(tk, S, st)[i].parent = tk[i].parent /\ Mark(tk, S, st)[i].rest = tk[i].rest
                                   /\ Mark(tk, S, st)[i].status = IF i \in S THEN st ELSE tk[i].status
<1> DEFINE mk == Mark(tk, S, st)
<1>0. Good(tk, q) /\ tk \in Seq(Token)
  BY DEF Fine, Good
<1>1. /\ Good(mk, q) /\ Len(mk) = Len(tk) /\ DOMAIN mk = DOMAIN tk
      /\ \A i \in DOMAIN tk : /\ mk[i].el = tk[i].el /\ mk[i].sub = tk[i].sub
                              /\ mk[i].parent = tk[i].parent /\ mk[i].rest = tk[i].rest
                              /\ mk[i].status = IF i \in S THEN st ELSE tk[i].status
  BY <1>0, MarkGood, MarkFacts
<1> HIDE DEF mk
<1>2. \A i \in DOMAIN tk : tk[i].parent # 0 => tk[i].parent \in DOMAIN tk
  BY RaceFacts
<1>3. Lineage(mk)
  BY <1>1, <1>2 DEF Fine, Race, Lineage, TypeAt
<1>4. \A i \in DOMAIN tk : (InRace(mk, i) <=> InRace(tk, i)) /\ Rivals(mk, i) = Rivals(tk, i)
  BY <1>1, <1>2 DEF InRace, TypeAt, Rivals
<1>5. Decided(mk, q)
  <2> SUFFICES ASSUME NEW i \in DOMAIN tk, InRace(tk, i)
               PROVE  /\ mk[i].parent \notin Queued(q)
                      /\ mk[i].status = "completed" =>
                            i \notin Queued(q) /\ \A j \in Rivals(tk, i) : j \notin Queued(q) /\ mk[j].status \notin {"waiting", "completed"}
    BY <1>1, <1>4 DEF Decided
  <2>1. mk[i].status = "completed" => tk[i].status = "completed"
    BY <1>1
  <2>2. \A j \in Rivals(tk, i) : InRace(tk, j) /\ j \in DOMAIN tk
    BY DEF Rivals, InRace
  <2>3. \A j \in Rivals(tk, i) : mk[j].status \in {"waiting", "completed"} => mk[j].status = tk[j].status
    BY <1>1, <2>2
  <2> QED
    BY <1>1, <2>1, <2>3 DEF Fine, Race, Decided
<1>6. Fine(mk, q)
  BY <1>1, <1>3, <1>5 DEF Fine, Race
<1> QED
  BY <1>1, <1>6 DEF mk

\* Only where tokens are, what they belong to and their status matters.
LEMMA SameRace ==
    ASSUME NEW tk, NEW q, Fine(tk, q), NEW tr, DOMAIN tr = DOMAIN tk,
           \A i \in DOMAIN tk : /\ tr[i].el = tk[i].el /\ tr[i].sub = tk[i].sub
                                /\ tr[i].parent = tk[i].parent /\ tr[i].status = tk[i].status
    PROVE  Race(tr, q)
<1>1. \A i \in DOMAIN tk : tk[i].parent # 0 => tk[i].parent \in DOMAIN tk
  BY RaceFacts
<1>2. Lineage(tr)
  BY <1>1 DEF Fine, Race, Lineage, TypeAt
<1>3. \A i \in DOMAIN tk : (InRace(tr, i) <=> InRace(tk, i)) /\ Rivals(tr, i) = Rivals(tk, i)
  BY <1>1 DEF InRace, TypeAt, Rivals
<1>4. Decided(tr, q)
  BY <1>3 DEF Fine, Race, Decided, Rivals
<1> QED
  BY <1>2, <1>4 DEF Fine, Race

\* The counter of a multi-instance activity has no part in it.
LEMMA RestFine ==
    ASSUME NEW tk, NEW q, Fine(tk, q), NEW p \in DOMAIN tk, NEW r \in Nat
    PROVE  /\ Fine([tk EXCEPT ![p].rest = r], q)
           /\ Len([tk EXCEPT ![p].rest = r]) = Len(tk)
           /\ \A i \in DOMAIN tk : [tk EXCEPT ![p].rest = r][i].el = tk[i].el
<1> DEFINE e == [tk[p] EXCEPT !.rest = r]
           tr == [tk EXCEPT ![p] = e]
<1>1. [tk EXCEPT ![p].rest = r] = tr
  OBVIOUS
<1>2. Good(tr, q) /\ Len(tr) = Len(tk)
  BY <1>1, RestGood DEF Fine
<1>3. tk[p] \in Token
  BY TokenFacts DEF Fine
<1>4. e.el = tk[p].el /\ e.sub = tk[p].sub /\ e.parent = tk[p].parent /\ e.status = tk[p].status
  BY <1>3 DEF Token
<1> HIDE DEF e
<1>5. DOMAIN tr = DOMAIN tk /\ \A i \in DOMAIN tk : tr[i].el = tk[i].el /\ tr[i].sub = tk[i].sub
                                  /\ tr[i].parent = tk[i].parent /\ tr[i].status = tk[i].status
  BY <1>4
<1> HIDE DEF tr
<1>6. Race(tr, q)
  BY <1>5, SameRace
<1> QED
  BY <1>1, <1>2, <1>5, <1>6 DEF Fine

\* The first branch to complete wins, once no rival waits or is queued.
LEMMA WonFine ==
    ASSUME NEW tk, NEW q, Fine(tk, q), NEW t \in DOMAIN tk, InRace(tk, t), t \notin Queued(q),
           \A j \in Rivals(tk, t) : j \notin Queued(q) /\ tk[j].status \notin {"waiting", "completed"}
    PROVE  Fine(Mark(tk, {t}, "completed"), q)
<1> DEFINE mk == Mark(tk, {t}, "completed")
<1>0. Good(tk, q) /\ tk \in Seq(Token) /\ "completed" \in Statuses
  BY DEF Fine, Good, Statuses
<1>1. /\ Good(mk, q) /\ DOMAIN mk = DOMAIN tk
      /\ \A i \in DOMAIN tk : /\ mk[i].el = tk[i].el /\ mk[i].sub = tk[i].sub /\ mk[i].parent = tk[i].parent
                              /\ mk[i].status = IF i = t THEN "completed" ELSE tk[i].status
  BY <1>0, MarkGood, MarkFacts
<1> HIDE DEF mk
<1>2. \A i \in DOMAIN tk : tk[i].parent # 0 => tk[i].parent \in DOMAIN tk
  BY RaceFacts
<1>3. Lineage(mk)
  BY <1>1, <1>2 DEF Fine, Race, Lineage, TypeAt
<1>4. \A i \in DOMAIN tk : (InRace(mk, i) <=> InRace(tk, i)) /\ Rivals(mk, i) = Rivals(tk, i)
  BY <1>1, <1>2 DEF InRace, TypeAt, Rivals
<1>5. Decided(mk, q)
  <2> SUFFICES ASSUME NEW i \in DOMAIN tk, InRace(tk, i)
               PROVE  /\ mk[i].parent \notin Queued(q)
                      /\ mk[i].status = "completed" =>
                            i \notin Queued(q) /\ \A j \in Rivals(tk, i) : j \notin Queued(q) /\ mk[j].status \notin {"waiting", "completed"}
    BY <1>1, <1>4 DEF Decided
  <2>1. mk[i].parent \notin Queued(q)
    BY <1>1 DEF Fine, Race, Decided
  <2>2. CASE i = t
    BY <1>1, <2>1, <2>2 DEF Rivals
  <2>3. CASE i # t /\ tk[i].status = "completed"
    <3>1. i \notin Queued(q) /\ \A j \in Rivals(tk, i) : j \notin Queued(q) /\ tk[j].status \notin {"waiting", "completed"}
      BY <2>3 DEF Fine, Race, Decided
    <3>2. t \notin Rivals(tk, i)
      BY <2>3 DEF Rivals
    <3> QED
      BY <1>1, <2>1, <3>1, <3>2 DEF Rivals
  <2> QED
    BY <1>1, <2>1, <2>2, <2>3
<1> QED
  BY <1>1, <1>3, <1>5 DEF Fine, Race, mk

\* Taking the head off the queue.
LEMMA TailQueued ==
    ASSUME Good(tok, queue), queue # << >>
    PROVE  /\ Queued(Tail(queue)) \subseteq Queued(queue) /\ Head(queue) \in Queued(queue)
           /\ Increasing(queue) => Increasing(Tail(queue)) /\ Head(queue) \notin Queued(Tail(queue))
<1> DEFINE q == Tail(queue)
<1>1. /\ Len(queue) \in Nat /\ DOMAIN queue = 1..Len(queue) /\ Len(queue) # 0 /\ Head(queue) = queue[1]
      /\ \A k \in DOMAIN queue : queue[k] \in Nat
  BY LenProperties, EmptySeq, ElementOfSeq DEF Good
<1>2. /\ q \in Seq(Nat) /\ Len(q) = Len(queue) - 1 /\ DOMAIN q = 1..Len(q)
      /\ \A k \in 1..Len(q) : q[k] = queue[k + 1]
  BY HeadTailProperties, LenProperties DEF Good
<1> HIDE DEF q
<1>3. \A k \in DOMAIN q : k + 1 \in DOMAIN queue /\ q[k] = queue[k + 1] /\ 1 < k + 1
  BY <1>1, <1>2
<1>4. Queued(q) \subseteq Queued(queue) /\ Head(queue) \in Queued(queue)
  BY <1>1, <1>3 DEF Queued
<1>5. ASSUME Increasing(queue)
      PROVE  Increasing(q) /\ Head(queue) \notin Queued(q)
  <2>1. Increasing(q)
    <3> SUFFICES ASSUME NEW j \in DOMAIN q, NEW k \in DOMAIN q, j < k
                 PROVE  q[j] < q[k]
      BY DEF Increasing
    <3>1. j + 1 \in DOMAIN queue /\ k + 1 \in DOMAIN queue /\ j + 1 < k + 1
      BY <1>2, <1>3
    <3> QED
      BY <1>3, <1>5, <3>1 DEF Increasing
  <2>2. \A k \in DOMAIN q : q[k] > queue[1]
    <3> TAKE k \in DOMAIN q
    <3>1. queue[1] < queue[k + 1]
      BY <1>1, <1>3, <1>5 DEF Increasing
    <3> QED
      BY <1>1, <1>3, <3>1
  <2>3. Head(queue) \notin Queued(q)
    <3> SUFFICES ASSUME NEW k \in DOMAIN q, queue[1] = q[k]
                 PROVE  FALSE
      BY <1>1 DEF Queued
    <3>1. q[k] > q[k] /\ q[k] \in Nat
      BY <1>1, <1>3, <2>2
    <3> QED
      BY <3>1
  <2> QED
    BY <2>1, <2>3
<1> QED
  BY <1>4, <1>5 DEF q

\* A token that is taken off the queue waits or, if it is not in a race, is completed.
LEMMA HeadFine ==
    ASSUME Fine(tok, queue), queue # << >>, NEW st \in {"completed", "waiting"},
           st = "waiting" \/ ~InRace(tok, Head(queue))
    PROVE  Fine(Mark(tok, {Head(queue)}, st), Tail(queue))
<1> DEFINE t == Head(queue)
           q == Tail(queue)
           mk == Mark(tok, {t}, st)
<1>1. /\ Good(mk, q) /\ DOMAIN mk = DOMAIN tok
      /\ \A i \in DOMAIN tok : /\ mk[i].el = tok[i].el /\ mk[i].sub = tok[i].sub /\ mk[i].parent = tok[i].parent
                               /\ mk[i].status = IF i = t THEN st ELSE tok[i].status
  <2>1. Good(tok, queue) /\ tok \in Seq(Token) /\ st \in Statuses /\ st # "active" /\ Head(queue) \in {t}
    BY DEF Fine, Good, Statuses
  <2> HIDE DEF t
  <2>2. Good(mk, q)
    BY <2>1, HeadGood
  <2>3. /\ DOMAIN mk = DOMAIN tok
        /\ \A i \in DOMAIN tok : /\ mk[i].el = tok[i].el /\ mk[i].sub = tok[i].sub /\ mk[i].parent = tok[i].parent
                                 /\ mk[i].status = IF i \in {t} THEN st ELSE tok[i].status
    <3>1. tok \in Seq(Token) /\ st \in Statuses
      BY <2>1
    <3> QED
      BY <3>1, MarkFacts
  <2> QED
    BY <2>2, <2>3
<1>2. /\ Queued(q) \subseteq Queued(queue) /\ t \in Queued(queue) /\ Increasing(q) /\ t \notin Queued(q)
  BY TailQueued DEF Fine, Race
<1> HIDE DEF mk, t, q
<1>3. \A i \in DOMAIN tok : tok[i].parent # 0 => tok[i].parent \in DOMAIN tok
  BY RaceFacts
<1>4. Lineage(mk)
  BY <1>1, <1>3 DEF Fine, Race, Lineage, TypeAt
<1>5. \A i \in DOMAIN tok : (InRace(mk, i) <=> InRace(tok, i)) /\ Rivals(mk, i) = Rivals(tok, i)
  BY <1>1, <1>3 DEF InRace, TypeAt, Rivals
<1>6. Decided(mk, q)
  <2> SUFFICES ASSUME NEW i \in DOMAIN tok, InRace(tok, i)
               PROVE  /\ mk[i].parent \notin Queued(q)
                      /\ mk[i].status = "completed" =>
                            i \notin Queued(q) /\ \A j \in Rivals(tok, i) : j \notin Queued(q) /\ mk[j].status \notin {"waiting", "completed"}
    BY <1>1, <1>5 DEF Decided
  <2>1. mk[i].parent \notin Queued(q)
    BY <1>1, <1>2 DEF Fine, Race, Decided
  <2>2. ASSUME mk[i].status = "completed"
        PROVE  i \notin Queued(q) /\ \A j \in Rivals(tok, i) : j \notin Queued(q) /\ mk[j].status \notin {"waiting", "completed"}
    <3>1. tok[i].status = "completed"
      BY <1>1, <2>2 DEF t
    <3>2. i \notin Queued(queue) /\ \A j \in Rivals(tok, i) : j \notin Queued(queue) /\ tok[j].status \notin {"waiting", "completed"}
      BY <3>1 DEF Fine, Race, Decided
    <3>3. t \notin Rivals(tok, i)
      BY <1>2, <3>2
    <3> QED
      BY <1>1, <1>2, <3>2, <3>3 DEF Rivals
  <2> QED
    BY <2>1, <2>2
<1> QED
  BY <1>1, <1>2, <1>4, <1>6 DEF Fine, Race, mk, t, q

\* New tokens beside tk, with q still queued: their parents may have them, and a gateway has branches once only.
Newcomers(tk, q) ==
    {new \in NewTokens(Len(tk)) : \A i \in DOMAIN new :
        /\ new[i].status = "active"
        /\ new[i].sub # None => El[new[i].sub].type = "subProcess"
        /\ new[i].parent # 0 =>
              /\ Fosters(TypeAt(tk, new[i].parent), El[new[i].el].type)
              /\ TypeAt(tk, new[i].parent) = "eventBasedGateway" =>
                    new[i].parent \notin Queued(q) /\ \A j \in DOMAIN tk : tk[j].parent # new[i].parent}

LEMMA PutFine ==
    ASSUME NEW tk, NEW q, Fine(tk, q), NEW new \in Newcomers(tk, q), Put(tk, new, q)
    PROVE  Fine(tok', queue')
<1> DEFINE n == Len(tk)
           m == Len(new)
           l == Len(q)
           num == [i \in DOMAIN new |-> n + i]
<1>1. new \in NewTokens(Len(tk)) /\ Good(tk, q)
  BY DEF Newcomers, Fine
<1>2. Good(tok', queue')
  BY <1>1, PutGood
<1>3. /\ n \in Nat /\ DOMAIN tk = 1..n /\ m \in Nat /\ DOMAIN new = 1..m /\ l \in Nat /\ DOMAIN q = 1..l
      /\ new \in Seq(Token) /\ tk \in Seq(Token) /\ q \in Seq(Nat)
  BY <1>1, LenProperties DEF NewTokens, Good
<1>4. /\ DOMAIN tok' = 1..(n + m)
      /\ \A i \in 1..(n + m) : tok'[i] = IF i <= n THEN tk[i] ELSE new[i - n]
  <2>1. tok' = tk \o new
    BY DEF Put
  <2> QED
    BY <1>3, <2>1, ConcatProperties, LenProperties
<1>5. /\ DOMAIN queue' = 1..(l + m)
      /\ \A k \in 1..(l + m) : queue'[k] = IF k <= l THEN q[k] ELSE n + (k - l)
  <2>1. num \in [1..m -> Nat]
    BY <1>3
  <2>2. num \in Seq(Nat) /\ Len(num) = m /\ \A i \in 1..m : num[i] = n + i
    BY <1>3, <2>1, FunctionIsSeq
  <2>3. queue' = q \o num
    BY DEF Put
  <2> HIDE DEF n, m, num
  <2>4. DOMAIN queue' = 1..(l + m) /\ \A k \in 1..(l + m) : queue'[k] = IF k <= l THEN q[k] ELSE num[k - l]
    <3>1. q \in Seq(Nat) /\ num \in Seq(Nat) /\ queue' = q \o num /\ m \in Nat /\ l \in Nat
      BY <1>3, <2>2, <2>3
    <3>2. /\ queue' \in Seq(Nat) /\ Len(queue') = l + m
          /\ \A k \in 1..(l + m) : queue'[k] = IF k <= l THEN q[k] ELSE num[k - l]
      BY <2>2, <3>1, ConcatProperties
    <3> QED
      BY <3>1, <3>2, LenProperties
  <2>5. \A k \in 1..(l + m) : ~(k <= l) => k - l \in 1..m
    BY <1>3
  <2> QED
    BY <2>2, <2>4, <2>5
<1> HIDE DEF n, m, l, num
<1>6. \A k \in 1..l : q[k] \in 1..n
  BY <1>1, <1>3 DEF Good
<1>7. Increasing(queue')
  <2> SUFFICES ASSUME NEW j \in 1..(l + m), NEW k \in 1..(l + m), j < k
               PROVE  queue'[j] < queue'[k]
    BY <1>5 DEF Increasing
  <2>1. CASE k <= l
    <3>1. j \in 1..l /\ k \in 1..l
      BY <1>3, <2>1
    <3>2. q[j] < q[k]
      BY <1>3, <3>1 DEF Fine, Race, Increasing
    <3>3. queue'[j] = q[j] /\ queue'[k] = q[k]
      BY <1>5, <3>1
    <3> QED
      BY <3>2, <3>3
  <2>2. CASE ~(k <= l) /\ j <= l
    <3>1. j \in 1..l /\ queue'[j] = q[j] /\ queue'[k] = n + (k - l)
      BY <1>3, <1>5, <2>2
    <3>2. q[j] \in 1..n
      BY <1>6, <3>1
    <3> QED
      BY <1>3, <2>2, <3>1, <3>2
  <2>3. CASE ~(j <= l)
    <3>1. queue'[j] = n + (j - l) /\ queue'[k] = n + (k - l)
      BY <1>3, <1>5, <2>3
    <3> QED
      BY <1>3, <2>3, <3>1
  <2> QED
    BY <2>1, <2>2, <2>3
<1>8. \A i \in 1..n : i \in Queued(queue') <=> i \in Queued(q)
  <2> TAKE i \in 1..n
  <2>1. ASSUME i \in Queued(queue')
        PROVE  i \in Queued(q)
    <3>1. PICK k \in 1..(l + m) : queue'[k] = i
      BY <1>5, <2>1 DEF Queued
    <3>2. k <= l
      BY <1>3, <1>5, <3>1
    <3>3. k \in DOMAIN q /\ q[k] = i
      BY <1>3, <1>5, <3>1, <3>2
    <3> QED
      BY <3>3 DEF Queued
  <2>2. ASSUME i \in Queued(q)
        PROVE  i \in Queued(queue')
    <3>1. PICK k \in 1..l : q[k] = i
      BY <1>3, <2>2 DEF Queued
    <3>2. k \in 1..(l + m) /\ queue'[k] = i
      BY <1>3, <1>5, <3>1
    <3> QED
      BY <1>5, <3>2 DEF Queued
  <2> QED
    BY <2>1, <2>2
\* old tokens and new ones
<1>9. \A i \in 1..n : i \in DOMAIN tok' /\ tok'[i] = tk[i]
  BY <1>3, <1>4
<1>10. \A i \in 1..(n + m) : ~(i <= n) => \E j \in 1..m : tok'[i] = new[j]
  <2> TAKE i \in 1..(n + m)
  <2>1. ~(i <= n) => i - n \in 1..m
    BY <1>3
  <2> QED
    BY <1>4, <2>1
<1>11. \A i \in 1..m :
          /\ new[i].parent \in 0..n /\ new[i].status = "active"
          /\ new[i].sub # None => El[new[i].sub].type = "subProcess"
          /\ new[i].parent # 0 =>
                /\ Fosters(TypeAt(tk, new[i].parent), El[new[i].el].type)
                /\ TypeAt(tk, new[i].parent) = "eventBasedGateway" =>
                      new[i].parent \notin Queued(q) /\ \A j \in DOMAIN tk : tk[j].parent # new[i].parent
  BY <1>3 DEF Newcomers, NewTokens, n
<1>12. \A i \in 1..n : tk[i].parent \in 0..n
  BY <1>1, <1>3 DEF Good, n
<1>13. \A i \in 1..(n + m) : tok'[i].parent \in 0..n
  <2> TAKE i \in 1..(n + m)
  <2>1. CASE i <= n
    BY <1>3, <1>9, <1>12, <2>1
  <2>2. CASE ~(i <= n)
    <3>1. PICK j \in 1..m : tok'[i] = new[j]
      BY <1>10, <2>2
    <3>2. new[j].parent \in 0..n
      BY <1>11, <3>1
    <3> QED
      BY <3>1, <3>2
  <2> QED
    BY <2>1, <2>2
<1>14. \A p \in 1..n : TypeAt(tok', p) = TypeAt(tk, p)
  BY <1>9 DEF TypeAt
<1>15. Lineage(tok')
  <2> SUFFICES ASSUME NEW i \in 1..(n + m)
               PROVE  /\ tok'[i].sub # None => El[tok'[i].sub].type = "subProcess"
                      /\ tok'[i].parent # 0 => Fosters(TypeAt(tok', tok'[i].parent), TypeAt(tok', i))
    BY <1>4 DEF Lineage
  <2>1. CASE i <= n
    <3>1. i \in 1..n /\ tok'[i] = tk[i] /\ i \in DOMAIN tk
      BY <1>3, <1>9, <2>1
    <3>2. tk[i].parent # 0 => tk[i].parent \in 1..n
      BY <1>3, <1>12, <3>1
    <3>3. /\ tk[i].sub # None => El[tk[i].sub].type = "subProcess"
          /\ tk[i].parent # 0 => Fosters(TypeAt(tk, tk[i].parent), TypeAt(tk, i))
      BY <3>1, RaceFacts
    <3>4. TypeAt(tok', i) = TypeAt(tk, i)
      BY <1>14, <3>1
    <3> QED
      BY <1>14, <3>1, <3>2, <3>3, <3>4
  <2>2. CASE ~(i <= n)
    <3>1. PICK j \in 1..m : tok'[i] = new[j]
      BY <1>10, <2>2
    <3>2. tok'[i].parent # 0 => tok'[i].parent \in 1..n
      BY <1>3, <1>13
    <3>3. /\ new[j].sub # None => El[new[j].sub].type = "subProcess"
          /\ new[j].parent # 0 => Fosters(TypeAt(tk, new[j].parent), El[new[j].el].type)
      BY <1>11, <3>1
    <3>4. TypeAt(tok', i) = El[new[j].el].type
      BY <3>1 DEF TypeAt
    <3> QED
      BY <1>14, <3>1, <3>2, <3>3, <3>4
  <2> QED
    BY <2>1, <2>2
<1>16. Decided(tok', queue')
  <2> SUFFICES ASSUME NEW i \in 1..(n + m), InRace(tok', i)
               PROVE  /\ tok'[i].parent \notin Queued(queue')
                      /\ tok'[i].status = "completed" =>
                            i \notin Queued(queue') /\ \A j \in Rivals(tok', i) :
                                j \notin Queued(queue') /\ tok'[j].status \notin {"waiting", "completed"}
    BY <1>4 DEF Decided
  <2>1. tok'[i].parent \in 1..n /\ TypeAt(tk, tok'[i].parent) = "eventBasedGateway"
    BY <1>3, <1>13, <1>14 DEF InRace
  <2>2. CASE i <= n
    <3>1. i \in 1..n /\ tok'[i] = tk[i]
      BY <1>3, <1>9, <2>2
    <3>2. InRace(tk, i) /\ i \in DOMAIN tk
      BY <1>3, <2>1, <3>1 DEF InRace
    <3>3. /\ tk[i].parent \notin Queued(q)
          /\ tk[i].status = "completed" =>
                i \notin Queued(q) /\ \A j \in Rivals(tk, i) : j \notin Queued(q) /\ tk[j].status \notin {"waiting", "completed"}
      BY <3>2 DEF Fine, Race, Decided
    <3>4. Rivals(tok', i) \subseteq Rivals(tk, i)
      <4> SUFFICES ASSUME NEW j \in 1..(n + m), j # i, tok'[j].parent = tk[i].parent
                   PROVE  j \in Rivals(tk, i)
        BY <1>4, <3>1 DEF Rivals
      <4>1. CASE j <= n
        BY <1>3, <1>9, <4>1 DEF Rivals
      <4>2. CASE ~(j <= n)
        <5>1. PICK k \in 1..m : tok'[j] = new[k]
          BY <1>10, <4>2
        <5>2. /\ new[k].parent = tk[i].parent /\ new[k].parent # 0
              /\ TypeAt(tk, new[k].parent) = "eventBasedGateway"
          BY <3>2, <5>1 DEF InRace
        <5>3. \A h \in DOMAIN tk : tk[h].parent # new[k].parent
          BY <1>11, <5>1, <5>2
        <5> QED
          BY <3>2, <5>2, <5>3
      <4> QED
        BY <4>1, <4>2
    <3>5. \A j \in Rivals(tk, i) : j \in 1..n /\ tok'[j] = tk[j]
      BY <1>3, <1>9 DEF Rivals
    <3> QED
      BY <1>8, <2>1, <3>1, <3>3, <3>4, <3>5
  <2>3. CASE ~(i <= n)
    <3>1. PICK j \in 1..m : tok'[i] = new[j]
      BY <1>10, <2>3
    <3>2. /\ new[j].status = "active"
          /\ new[j].parent # 0 => (TypeAt(tk, new[j].parent) = "eventBasedGateway"
                                          => new[j].parent \notin Queued(q))
      BY <1>11, <3>1
    <3>3. new[j].parent # 0
      BY <1>3, <2>1, <3>1
    <3> QED
      BY <1>8, <2>1, <3>1, <3>2, <3>3
  <2> QED
    BY <2>2, <2>3
<1> QED
  BY <1>2, <1>7, <1>15, <1>16 DEF Fine, Race

\* The sub-process a token belongs to is one.
Rooted(t) == t.sub # None => El[t.sub].type = "subProcess"

\* Tokens move on from t.
LEMMA MovedFine ==
    ASSUME NEW tk, NEW q, Fine(tk, q), NEW t \in Token, Rooted(t), NEW flows \in Seq(Flows),
           Put(tk, Moved(t, flows), q)
    PROVE  Fine(tok', queue')
<1>1. Len(tk) \in Nat
  BY LenProperties DEF Fine, Good
<1>2. Moved(t, flows) \in NewTokens(Len(tk))
  BY <1>1, MovedType
<1>3. \A i \in DOMAIN Moved(t, flows) :
         /\ Moved(t, flows)[i].status = "active" /\ Moved(t, flows)[i].parent = 0
         /\ Moved(t, flows)[i].sub = t.sub
  BY DEF Moved, Fresh
<1>4. Moved(t, flows) \in Newcomers(tk, q)
  BY <1>2, <1>3 DEF Newcomers, Rooted
<1> QED
  BY <1>4, PutFine

LEMMA NothingPutFine ==
    ASSUME NEW tk, NEW q, Fine(tk, q), Put(tk, << >>, q)
    PROVE  Fine(tok', queue')
<1>1. << >> \in NewTokens(Len(tk))
  BY LenProperties, NoTokens DEF Fine, Good
<1>2. << >> \in Newcomers(tk, q)
  BY <1>1 DEF Newcomers
<1> QED
  BY <1>2, PutFine

LEMMA AdvanceFine ==
    ASSUME NEW t, tok[t] \in Token, Rooted(tok[t]), NEW tk, NEW q,
           Fine(Mark(tk, {t}, "completed"), q), Advance(t, tk, q)
    PROVE  Fine(tok', queue')
<1>1. El[tok[t].el].out \in Seq(Flows)
  BY ElementFacts DEF Token
<1> QED
  BY <1>1, MovedFine DEF Advance

\* A token that is no branch of a race may be completed.
LEMMA DoneFine ==
    ASSUME NEW tk, NEW q, Fine(tk, q), NEW t \in DOMAIN tk, TypeAt(tk, t) # "intermediateCatchEvent"
    PROVE  Fine(Mark(tk, {t}, "completed"), q)
<1>1. ~InRace(tk, t)
  BY RaceFacts
<1> QED
  BY <1>1, MarkFine DEF Statuses

LEMMA FireCancelBoundaryFine ==
    ASSUME NEW tk, NEW q, Fine(tk, q), NEW o, FireCancelBoundary(o, tk, q)
    PROVE  Fine(tok', queue')
<1> DEFINE fired == Least({i \in BoundaryTokens(tk, tk[o].el) : El[tk[i].el].event = "cancel"})
<1>1. CASE fired = {}
  BY <1>1, NothingPutFine DEF FireCancelBoundary
<1>2. CASE fired # {}
  <2>1. PICK b \in fired : Put(Mark(Mark(tk, {b}, "completed"), {o}, "cancelled"),
                               Moved(tk[b], El[tk[b].el].out), q)
    BY <1>2 DEF FireCancelBoundary
  <2>2. b \in DOMAIN tk /\ TypeAt(tk, b) = "boundaryEvent"
    BY DEF Least, BoundaryTokens, Waiting, TypeAt
  <2>3. tk[b] \in Token /\ El[tk[b].el].out \in Seq(Flows) /\ Rooted(tk[b])
    BY <2>2, TokenFacts, ElementFacts, RaceFacts DEF Fine, Rooted
  <2>4. Fine(Mark(tk, {b}, "completed"), q)
    BY <2>2, DoneFine
  <2>5. Fine(Mark(Mark(tk, {b}, "completed"), {o}, "cancelled"), q)
    BY <2>4, MarkFine DEF Statuses
  <2> QED
    BY <2>1, <2>3, <2>5, MovedFine
<1> QED
  BY <1>1, <1>2

LEMMA CompleteLoopFine ==
    ASSUME NEW tk, NEW q, Fine(tk, q), NEW p \in DOMAIN tk, TypeAt(tk, p) # "intermediateCatchEvent",
           tok[p] \in Token, Rooted(tok[p]), CompleteLoop(p, tk, q)
    PROVE  Fine(tok', queue')
<1>1. El[tok[p].el].out \in Seq(Flows)
  BY ElementFacts DEF Token
<1>2. Fine(Mark(tk, {p}, "completed"), q)
  BY DoneFine
<1>3. Fine(Mark(Mark(tk, {p}, "completed"), BoundaryTokens(tk, tok[p].el), "cancelled"), q)
  BY <1>2, MarkFine DEF Statuses
<1> QED
  BY <1>1, <1>3, MovedFine DEF CompleteLoop

\* Children of a multi-instance activity, created for the token p at it.
LEMMA LoopChildrenFine ==
    ASSUME tok \in Seq(Token), NEW p \in DOMAIN tok, NEW n \in Nat,
           NEW tk, NEW q, Fine(tk, q), Len(tk) = Len(tok), TypeAt(tk, p) = TypeAt(tok, p),
           Fosters(TypeAt(tok, p), TypeAt(tok, p)), Put(tk, LoopChildren(p, n), q)
    PROVE  Fine(tok', queue')
<1>1. LoopChildren(p, n) \in NewTokens(Len(tk))
  BY LoopChildrenType
<1>2. \A i \in DOMAIN LoopChildren(p, n) :
         /\ LoopChildren(p, n)[i].status = "active" /\ LoopChildren(p, n)[i].sub = None
         /\ LoopChildren(p, n)[i].parent = p /\ LoopChildren(p, n)[i].el = tok[p].el
  BY DEF LoopChildren, Fresh
<1>3. TypeAt(tok, p) # "eventBasedGateway"
  BY DEF Fosters
<1>4. LoopChildren(p, n) \in Newcomers(tk, q)
  BY <1>1, <1>2, <1>3 DEF Newcomers, TypeAt
<1> QED
  BY <1>4, PutFine

LEMMA CompleteLoopChildFine ==
    ASSUME NEW q0, Fine(tok, q0), NEW t \in DOMAIN tok, tok[t].parent # 0, Type(t) \in TaskTypes,
           NEW q, Fine(Mark(tok, {t}, "completed"), q), CompleteLoopChild(t, q)
    PROVE  Fine(tok', queue')
<1> DEFINE p == tok[t].parent
           tk == Mark(tok, {t}, "completed")
           siblings == Waiting(tk) \cap ChildrenOf(tk, p)
<1>1. /\ p \in DOMAIN tok /\ tok[p] \in Token /\ Rooted(tok[p]) /\ tok \in Seq(Token)
      /\ Fosters(TypeAt(tok, p), TypeAt(tok, t))
  <2>1. p \in DOMAIN tok /\ Fosters(TypeAt(tok, p), TypeAt(tok, t)) /\ Good(tok, q0)
    BY RaceFacts DEF Fine
  <2> HIDE DEF p
  <2>2. tok[p] \in Token /\ tok \in Seq(Token)
    BY <2>1, TokenFacts DEF Good
  <2>3. Rooted(tok[p])
    BY <2>1, RaceFacts DEF Rooted
  <2> QED
    BY <2>1, <2>2, <2>3
<1>2. TypeAt(tok, p) # "intermediateCatchEvent" /\ Fosters(TypeAt(tok, p), TypeAt(tok, p))
  BY <1>1 DEF Fosters, TaskTypes, Type, TypeAt
<1>3. /\ Len(tk) = Len(tok) /\ DOMAIN tk = DOMAIN tok
      /\ tk[p].rest = tok[p].rest /\ tk[p].el = tok[p].el
  BY <1>1, MarkFacts DEF Statuses
<1>4. Fine(tk, q) /\ TypeAt(tk, p) = TypeAt(tok, p)
  BY <1>3 DEF TypeAt
<1> HIDE DEF tk, p
<1>5. CASE CompleteLoop(p, tk, q)
  BY <1>1, <1>2, <1>3, <1>4, <1>5, CompleteLoopFine
<1>6. CASE Put(tk, << >>, q)
  BY <1>4, <1>6, NothingPutFine
<1>7. CASE CompleteLoop(p, Mark(tk, siblings, "cancelled"), q)
  <2> DEFINE tc == Mark(tk, siblings, "cancelled")
  <2>1. Fine(tc, q) /\ DOMAIN tc = DOMAIN tk /\ tc[p].el = tk[p].el
    BY <1>1, <1>3, <1>4, MarkFine DEF Statuses
  <2> HIDE DEF tc
  <2>2. TypeAt(tc, p) = TypeAt(tok, p)
    BY <1>4, <2>1 DEF TypeAt
  <2> QED
    BY <1>1, <1>2, <1>3, <1>7, <2>1, <2>2, CompleteLoopFine DEF tc
<1>8. CASE /\ tok[p].rest # Lost /\ tok[p].rest # 0
           /\ Put([tk EXCEPT ![p].rest = @ - 1], LoopChildren(p, 1), q)
  <2> DEFINE r == tk[p].rest - 1
             tr == [tk EXCEPT ![p].rest = r]
  <2>1. tok[p].rest \in Nat \cup {Lost}
    BY <1>1 DEF Token
  <2>2. r \in Nat
    BY <1>3, <1>8, <2>1
  <2> HIDE DEF r
  <2>3. Fine(tr, q) /\ Len(tr) = Len(tk) /\ tr[p].el = tk[p].el
    <3>1. p \in DOMAIN tk
      BY <1>1, <1>3
    <3>2. /\ Fine([tk EXCEPT ![p].rest = r], q)
          /\ Len([tk EXCEPT ![p].rest = r]) = Len(tk)
          /\ \A i \in DOMAIN tk : [tk EXCEPT ![p].rest = r][i].el = tk[i].el
      BY <1>4, <2>2, <3>1, RestFine
    <3> HIDE DEF tr
    <3>3. tr = [tk EXCEPT ![p].rest = r]
      BY DEF tr
    <3> QED
      BY <3>1, <3>2, <3>3
  <2>4. Put(tr, LoopChildren(p, 1), q)
    BY <1>8 DEF r
  <2> HIDE DEF tr
  <2>5. TypeAt(tr, p) = TypeAt(tok, p)
    BY <1>4, <2>3 DEF TypeAt
  <2> QED
    BY <1>1, <1>2, <1>3, <2>3, <2>4, <2>5, LoopChildrenFine
<1> QED
  BY <1>5, <1>6, <1>7, <1>8 DEF CompleteLoopChild, tk, p

LEMMA FineLen == ASSUME NEW tk, NEW q, Fine(tk, q) PROVE Len(tk) \in Nat
  BY LenProperties DEF Fine, Good

\* What a handler finds, races included.
RaceCalled(t, q) == Called(t, q) /\ Race(tok, queue)

LEMMA RaceCalledFacts ==
    ASSUME NEW t, NEW q, RaceCalled(t, q)
    PROVE  /\ Fine(tok, queue) /\ t \in DOMAIN tok /\ tok[t] \in Token /\ Rooted(tok[t])
           /\ tok \in Seq(Token) /\ Len(tok) \in Nat /\ Called(t, q)
           /\ Fine(Mark(tok, {t}, "waiting"), q)
           /\ Type(t) # "intermediateCatchEvent" => Fine(Mark(tok, {t}, "completed"), q)
           /\ t \notin Queued(q) /\ Queued(q) \subseteq Queued(queue) /\ t \in Queued(queue)
<1>1. Fine(tok, queue) /\ Called(t, q)
  BY DEF RaceCalled, Called, Fine
<1>2. t \in DOMAIN tok /\ tok[t] \in Token /\ tok \in Seq(Token) /\ Len(tok) \in Nat
  BY <1>1, CalledFacts
<1>3. Rooted(tok[t])
  BY <1>1, <1>2, RaceFacts DEF Rooted
<1>4. queue # << >> /\ t = Head(queue) /\ q = Tail(queue) /\ Good(tok, queue)
  BY <1>1 DEF Called
<1>5. Fine(Mark(tok, {t}, "waiting"), q)
  BY <1>1, <1>4, HeadFine
<1>6. ASSUME Type(t) # "intermediateCatchEvent"
      PROVE  Fine(Mark(tok, {t}, "completed"), q)
  <2>1. ~InRace(tok, t)
    BY <1>1, <1>2, <1>6, RaceFacts DEF Type, TypeAt
  <2> QED
    BY <1>1, <1>4, <2>1, HeadFine
<1>7. t \notin Queued(q) /\ Queued(q) \subseteq Queued(queue) /\ t \in Queued(queue)
  BY <1>1, <1>4, TailQueued DEF Fine, Race
<1> QED
  BY <1>1, <1>2, <1>3, <1>5, <1>6, <1>7

\* The type of the element a token is at outlives every change of status.
LEMMA MarkType ==
    ASSUME tok \in Seq(Token), NEW t \in DOMAIN tok, NEW S, NEW st \in Statuses
    PROVE  TypeAt(Mark(tok, S, st), t) = Type(t)
  BY MarkFacts DEF TypeAt, Type

LEMMA AdvanceHeadFine ==
    ASSUME NEW t, NEW q, RaceCalled(t, q), Type(t) # "intermediateCatchEvent", Advance(t, tok, q)
    PROVE  Fine(tok', queue')
  BY RaceCalledFacts, AdvanceFine

LEMMA SuspendFine ==
    ASSUME NEW t, NEW q, RaceCalled(t, q), Suspend(t, q)
    PROVE  Fine(tok', queue')
<1> DEFINE tk == Mark(tok, {t}, "waiting")
<1>1. Fine(tk, q) /\ t \in DOMAIN tok /\ tok \in Seq(Token) /\ Rooted(tok[t])
  BY RaceCalledFacts
<1> HIDE DEF tk
<1>2. BoundarySpawns(t) \in NewTokens(Len(tk))
  BY <1>1, FineLen, BoundarySpawnsType
<1>3. BoundarySpawns(t) \in Newcomers(tk, q)
  BY <1>1, <1>2 DEF Newcomers, BoundarySpawns, Fresh, Rooted
<1>4. CASE Put(tk, BoundarySpawns(t), q)
  BY <1>1, <1>3, <1>4, PutFine
<1>5. CASE Put(tk, << >>, q)
  BY <1>1, <1>5, NothingPutFine
<1> QED
  BY <1>4, <1>5 DEF Suspend, tk

LEMMA EnterSubProcessFine ==
    ASSUME NEW t, NEW q, RaceCalled(t, q), EnterSubProcess(t, q)
    PROVE  Fine(tok', queue')
<1> DEFINE tk == Mark(tok, {t}, "waiting")
           e == tok[t].el
           spawns == IF El[e].tx THEN BoundarySpawns(t) ELSE << >>
           inner == << Fresh(El[e].start, None, e, 0) >>
<1>1. /\ Fine(tk, q) /\ t \in DOMAIN tok /\ tok \in Seq(Token) /\ Rooted(tok[t])
      /\ tok[t] \in Token
  BY RaceCalledFacts
<1>2. e \in Elements /\ El[e].type = "subProcess" /\ El[e].start \in Elements
  BY <1>1, ElementFacts DEF EnterSubProcess, Type, Token
<1>3. Fresh(El[e].start, None, e, 0) \in Token
  BY <1>2 DEF Fresh, Token, Statuses, Lost
<1>4. inner \in NewTokens(Len(tk))
  <2>1. Len(tk) \in Nat
    BY <1>1, FineLen
  <2>2. Fresh(El[e].start, None, e, 0).parent = 0
    BY DEF Fresh
  <2> QED
    BY <1>3, <2>1, <2>2, OneToken
<1>5. spawns \in NewTokens(Len(tk))
  BY <1>1, FineLen, BoundarySpawnsType, NoTokens
<1>6. \A i \in DOMAIN spawns : /\ spawns[i].status = "active" /\ spawns[i].parent = 0
                              /\ spawns[i].sub = tok[t].sub
  BY DEF BoundarySpawns, Fresh
<1>7. inner[1].status = "active" /\ inner[1].parent = 0 /\ inner[1].sub = e /\ Len(inner) = 1
  BY DEF Fresh
<1>8. Put(tk, spawns \o inner, q)
  BY DEF EnterSubProcess
<1>9. spawns \o inner \in NewTokens(Len(tk))
  BY <1>1, <1>4, <1>5, ConcatNew
<1>10. /\ spawns \in Seq(Token) /\ inner \in Seq(Token) /\ Len(spawns) \in Nat
       /\ DOMAIN spawns = 1..Len(spawns)
  BY <1>4, <1>5, LenProperties DEF NewTokens
<1> HIDE DEF tk, spawns, inner
<1> DEFINE new == spawns \o inner
<1>11. /\ DOMAIN new = 1..(Len(spawns) + 1)
       /\ \A i \in DOMAIN new : new[i] = IF i <= Len(spawns) THEN spawns[i] ELSE inner[i - Len(spawns)]
  <2>1. /\ new \in Seq(Token) /\ Len(new) = Len(spawns) + Len(inner)
        /\ \A i \in 1..(Len(spawns) + Len(inner)) :
              new[i] = IF i <= Len(spawns) THEN spawns[i] ELSE inner[i - Len(spawns)]
    BY <1>10, ConcatProperties
  <2> HIDE DEF new
  <2>2. DOMAIN new = 1..(Len(spawns) + 1)
    BY <1>7, <2>1, LenProperties
  <2> QED
    BY <1>7, <2>1, <2>2
<1> HIDE DEF new
<1>12. ASSUME NEW i \in DOMAIN new
       PROVE  \/ new[i] = inner[1]
              \/ \E j \in DOMAIN spawns : new[i] = spawns[j]
  <2>1. CASE i <= Len(spawns)
    BY <1>10, <1>11, <2>1
  <2>2. CASE ~ (i <= Len(spawns))
    <3>1. i - Len(spawns) = 1
      BY <1>10, <1>11, <2>2
    <3> QED
      BY <1>11, <2>2, <3>1
  <2> QED
    BY <2>1, <2>2
<1>13. new \in Newcomers(tk, q)
  <2>1. \A i \in DOMAIN new :
           /\ new[i].status = "active" /\ new[i].parent = 0
           /\ new[i].sub # None => El[new[i].sub].type = "subProcess"
    <3> SUFFICES ASSUME NEW i \in DOMAIN new
                 PROVE  /\ new[i].status = "active" /\ new[i].parent = 0
                        /\ new[i].sub # None => El[new[i].sub].type = "subProcess"
      OBVIOUS
    <3>1. CASE new[i] = inner[1]
      BY <1>2, <1>7, <3>1
    <3>2. CASE \E j \in DOMAIN spawns : new[i] = spawns[j]
      BY <1>1, <1>6, <3>2 DEF Rooted
    <3> QED
      BY <1>12, <3>1, <3>2
  <2>2. new \in NewTokens(Len(tk))
    BY <1>9 DEF new
  <2> QED
    BY <2>1, <2>2 DEF Newcomers
<1> QED
  BY <1>1, <1>8, <1>13, PutFine DEF new

LEMMA EndFine ==
    ASSUME NEW t, NEW q, RaceCalled(t, q), EndProcess(t, q) \/ EndSubProcess(t, q) \/ Terminate(t, q)
    PROVE  Fine(tok', queue')
<1> DEFINE tk == Mark(tok, {t}, "completed")
<1>1. Fine(tk, q) /\ Rooted(tok[t]) /\ tok \in Seq(Token) /\ Fine(tok, queue)
  BY RaceCalledFacts DEF EndProcess, EndSubProcess, Terminate
<1>2. DOMAIN tk = DOMAIN tok
  BY <1>1, MarkFacts DEF Statuses
<1> HIDE DEF tk
<1>3. CASE EndProcess(t, q)
  BY <1>1, <1>3 DEF EndProcess, tk
<1>4. CASE EndSubProcess(t, q)
  <2> DEFINE outer == Least(WaitingAt(tk, tok[t].sub))
  <2>1. CASE Put(tk, << >>, q)
    BY <1>1, <2>1, NothingPutFine
  <2>2. CASE \E o \in outer : Advance(o, tk, q)
    <3>1. PICK o \in outer : Advance(o, tk, q)
      BY <2>2
    <3>2. o \in DOMAIN tk /\ tk[o].el = tok[t].sub /\ tok[t].sub # None
      BY <1>4, <3>1 DEF Least, WaitingAt, Waiting, EndSubProcess
    <3>3. TypeAt(tk, o) # "intermediateCatchEvent"
      BY <1>1, <3>2 DEF Rooted, TypeAt
    <3>4. Fine(Mark(tk, {o}, "completed"), q)
      BY <1>1, <3>2, <3>3, DoneFine
    <3>5. tok[o] \in Token /\ Rooted(tok[o])
      BY <1>1, <1>2, <3>2, TokenFacts, RaceFacts DEF Fine, Rooted
    <3> QED
      BY <3>1, <3>4, <3>5, AdvanceFine
  <2> QED
    BY <1>4, <2>1, <2>2 DEF EndSubProcess, tk
<1>5. CASE Terminate(t, q)
  <2>1. Fine(Mark(tk, Live(tok) \ {t}, "cancelled"), q)
    BY <1>1, MarkFine DEF Statuses
  <2> QED
    BY <1>5, <2>1 DEF Terminate, tk
<1> QED
  BY <1>3, <1>4, <1>5

\* Handlers of compensation are not in a race.
LEMMA HandlerTokensFine ==
    ASSUME comp \in Seq(CompensationRecord), NEW I \in SUBSET DOMAIN comp, NEW p \in CompensationOrders(I),
           NEW tk, NEW q, Fine(tk, q), NEW t \in DOMAIN tk,
           TypeAt(tk, t) \in {"intermediateThrowEvent", "endEvent"},
           NEW sub \in Elements \cup {None}, sub # None => El[sub].type = "subProcess",
           Put(tk, HandlerTokens(p, t, sub), q)
    PROVE  Fine(tok', queue')
<1>1. Len(tk) \in Nat /\ t \in 1..Len(tk)
  BY LenProperties DEF Fine, Good
<1>2. HandlerTokens(p, t, sub) \in NewTokens(Len(tk))
  BY <1>1, HandlerTokensType
<1>3. \A i \in DOMAIN HandlerTokens(p, t, sub) :
         /\ HandlerTokens(p, t, sub)[i].status = "active" /\ HandlerTokens(p, t, sub)[i].sub = sub
         /\ HandlerTokens(p, t, sub)[i].parent = t
  BY DEF HandlerTokens, Fresh
<1>4. HandlerTokens(p, t, sub) \in Newcomers(tk, q)
  BY <1>2, <1>3 DEF Newcomers, Fosters
<1> QED
  BY <1>4, PutFine

LEMMA CancelTransactionFine ==
    ASSUME NEW t, NEW q, RaceCalled(t, q), CancelTransaction(t, q)
    PROVE  Fine(tok', queue')
<1> DEFINE sp == tok[t].sub
           done == Mark(tok, {t}, "completed")
           inner == (Live(tok) \cap InScope(tok, sp)) \ {t}
           tk == Mark(done, inner, "cancelled")
           outer == Least(WaitingAt(tk, sp))
<1>1. /\ Fine(done, q) /\ t \in DOMAIN tok /\ tok \in Seq(Token)
      /\ sp \in Elements \cup {None} /\ (sp # None => El[sp].type = "subProcess")
  BY RaceCalledFacts DEF CancelTransaction, Token, Rooted
<1>2. DOMAIN done = DOMAIN tok /\ TypeAt(done, t) = "endEvent"
  BY <1>1, MarkFacts, MarkType DEF Statuses, CancelTransaction
<1> HIDE DEF done, sp, inner
<1>3. Fine(tk, q) /\ DOMAIN tk = DOMAIN tok /\ tk[t].el = done[t].el
  BY <1>1, <1>2, MarkFine DEF Statuses
<1> HIDE DEF tk
<1>4. TypeAt(tk, t) = "endEvent"
  BY <1>2, <1>3 DEF TypeAt
<1>5. CASE Put(done, << >>, q) \/ Put(tk, << >>, q)
  BY <1>1, <1>3, <1>5, NothingPutFine
<1>6. CASE \E p \in CompensationOrders(DOMAIN comp) : Put(tk, HandlerTokens(p, t, sp), q)
  <2> DEFINE I == DOMAIN comp
  <2>1. PICK p \in CompensationOrders(I) : Put(tk, HandlerTokens(p, t, sp), q)
    BY <1>6
  <2>2. comp \in Seq(CompensationRecord) /\ I \in SUBSET DOMAIN comp
    BY DEF RaceCalled, Called
  <2>3. t \in DOMAIN tk /\ TypeAt(tk, t) \in {"intermediateThrowEvent", "endEvent"}
    BY <1>1, <1>3, <1>4
  <2> HIDE DEF I
  <2>4. sp \in Elements \cup {None} /\ (sp # None => El[sp].type = "subProcess")
    BY <1>1
  <2> QED
    BY <1>3, <2>1, <2>2, <2>3, <2>4, HandlerTokensFine
<1>7. CASE \E o \in outer : FireCancelBoundary(o, tk, q)
  BY <1>3, <1>7, FireCancelBoundaryFine
<1> QED
  BY <1>5, <1>6, <1>7 DEF CancelTransaction, tk, inner, done, sp

LEMMA GatewayFine ==
    ASSUME NEW t, NEW q, RaceCalled(t, q),
           Exclusive(t, q) \/ InclusiveSplit(t, q) \/ ParallelJoin(t, q) \/ InclusiveJoin(t, q)
    PROVE  Fine(tok', queue')
<1> DEFINE done == Mark(tok, {t}, "completed")
           out == El[tok[t].el].out
<1>1. /\ Type(t) # "intermediateCatchEvent" /\ Fine(done, q)
      /\ tok[t] \in Token /\ Rooted(tok[t]) /\ tok[t].el \in Elements /\ out \in Seq(Flows)
  BY RaceCalledFacts, ElementFacts DEF Exclusive, InclusiveSplit, ParallelJoin, InclusiveJoin, Token
<1> HIDE DEF done
<1>2. CASE Exclusive(t, q)
  <2>1. PICK f \in ExclusiveChoices(tok[t].el) : Put(done, Moved(tok[t], << f >>), q)
    BY <1>2 DEF Exclusive, done
  <2>2. << f >> \in Seq(Flows)
    BY <1>1, ExclusiveChoicesType
  <2> QED
    BY <1>1, <2>1, <2>2, MovedFine
<1>3. CASE InclusiveSplit(t, q)
  <2>1. PICK I \in SUBSET DOMAIN out : \E p \in Ascending(I) :
            Put(done, Moved(tok[t], [i \in DOMAIN p |-> out[p[i]]]), q)
    BY <1>3 DEF InclusiveSplit, done
  <2>2. PICK p \in Ascending(I) : Put(done, Moved(tok[t], [i \in DOMAIN p |-> out[p[i]]]), q)
    BY <2>1
  <2> HIDE DEF out
  <2>3. [i \in DOMAIN p |-> out[p[i]]] \in Seq(Flows)
    BY <1>1, SelectedFlows
  <2> QED
    BY <1>1, <2>2, <2>3, MovedFine
<1>4. CASE ParallelJoin(t, q) \/ InclusiveJoin(t, q)
  <2>1. Advance(t, tok, q) \/ Put(done, << >>, q)
    BY <1>4 DEF ParallelJoin, InclusiveJoin, Arrive, done
  <2> QED
    BY <1>1, <2>1, AdvanceHeadFine, NothingPutFine
<1> QED
  BY <1>2, <1>3, <1>4

\* The branches of a gateway that has none yet, each at the catch event it leads to.
LEMMA EventGatewayFine ==
    ASSUME NEW t, NEW q, RaceCalled(t, q), EventGateway(t, q)
    PROVE  Fine(tok', queue')
<1> DEFINE out == El[tok[t].el].out
           children == [i \in DOMAIN out |-> Fresh(Target[out[i]], out[i], None, t)]
           tk == Mark(tok, {t}, "completed")
<1>1. /\ Type(t) = "eventBasedGateway" /\ EventGatewayValid(tok[t].el) /\ Put(tk, children, q)
  BY DEF EventGateway
<1>2. /\ Fine(tok, queue) /\ Fine(tk, q) /\ t \in DOMAIN tok /\ tok \in Seq(Token) /\ t \notin Queued(q)
      /\ t \in Queued(queue) /\ tok[t] \in Token
  BY <1>1, RaceCalledFacts
<1>3. /\ t \in 1..Len(tok) /\ Len(tok) \in Nat
      /\ Len(tk) = Len(tok) /\ DOMAIN tk = DOMAIN tok /\ TypeAt(tk, t) = "eventBasedGateway"
      /\ \A j \in DOMAIN tok : tk[j].parent = tok[j].parent
  BY <1>1, <1>2, LenProperties, MarkFacts, MarkType DEF Statuses
<1>4. out \in Seq(Flows)
  BY <1>2, ElementFacts DEF Token
<1>5. \A i \in DOMAIN out : El[Target[out[i]]].type = "intermediateCatchEvent"
  BY <1>1 DEF EventGatewayValid, Outgoing
<1> HIDE DEF tk, out
<1>6. /\ Len(out) \in Nat /\ DOMAIN out = 1..Len(out)
      /\ \A i \in 1..Len(out) : out[i] \in Flows
  BY <1>4, LenProperties, ElementOfSeq
<1>7. ASSUME NEW i \in 1..Len(out)
      PROVE  /\ Fresh(Target[out[i]], out[i], None, t) \in Token
             /\ Fresh(Target[out[i]], out[i], None, t).parent = t
             /\ Fresh(Target[out[i]], out[i], None, t).status = "active"
             /\ Fresh(Target[out[i]], out[i], None, t).sub = None
             /\ Fresh(Target[out[i]], out[i], None, t).el = Target[out[i]]
  <2>1. out[i] \in Flows /\ Target[out[i]] \in Elements
    BY <1>6, DefinitionAssumption
  <2> QED
    BY <1>3, <2>1 DEF Fresh, Token, Statuses, Lost
<1>8. children \in [1..Len(out) -> Token]
  BY <1>6, <1>7
<1>9. /\ children \in Seq(Token)
      /\ \A i \in DOMAIN children :
            /\ children[i].parent = t /\ children[i].status = "active" /\ children[i].sub = None
            /\ El[children[i].el].type = "intermediateCatchEvent"
  BY <1>5, <1>6, <1>7, <1>8, FunctionIsSeq
<1> HIDE DEF children
<1>10. children \in NewTokens(Len(tk))
  BY <1>3, <1>9 DEF NewTokens
<1>11. \A j \in DOMAIN tk : tk[j].parent # t
  <2> SUFFICES ASSUME NEW j \in DOMAIN tok, tok[j].parent = t
               PROVE  FALSE
    BY <1>3
  <2>1. InRace(tok, j)
    BY <1>1, <1>3 DEF InRace, Type, TypeAt
  <2> QED
    BY <1>2, <2>1 DEF Fine, Race, Decided
<1>12. children \in Newcomers(tk, q)
  BY <1>2, <1>3, <1>9, <1>10, <1>11 DEF Newcomers, Fosters
<1> QED
  BY <1>1, <1>2, <1>12, PutFine

LEMMA ThrowCompensationFine ==
    ASSUME NEW t, NEW q, RaceCalled(t, q), ThrowCompensation(t, q)
    PROVE  Fine(tok', queue')
<1> DEFINE hit == {i \in DOMAIN comp : El[tok[t].el].ref \in {None, comp[i].activity}}
           found == {i \in hit : El[comp[i].handler].within = None}
           tk == Mark(tok, {t}, "waiting")
<1>1. /\ Type(t) = "intermediateThrowEvent" /\ Fine(tk, q) /\ t \in DOMAIN tok /\ tok \in Seq(Token)
      /\ comp \in Seq(CompensationRecord)
  BY RaceCalledFacts DEF ThrowCompensation, RaceCalled, Called
<1>2. CASE Advance(t, tok, q)
  BY <1>1, <1>2, AdvanceHeadFine
<1>3. CASE \E p \in CompensationOrders(found) : Put(tk, HandlerTokens(p, t, None), q)
  <2>1. PICK p \in CompensationOrders(found) : Put(tk, HandlerTokens(p, t, None), q)
    BY <1>3
  <2>2. found \in SUBSET DOMAIN comp
    OBVIOUS
  <2>3. t \in DOMAIN tk /\ TypeAt(tk, t) \in {"intermediateThrowEvent", "endEvent"}
    BY <1>1, MarkFacts, MarkType DEF Statuses
  <2> HIDE DEF found, tk
  <2> QED
    BY <1>1, <2>1, <2>2, <2>3, HandlerTokensFine
<1> QED
  BY <1>2, <1>3 DEF ThrowCompensation

LEMMA StartLoopFine ==
    ASSUME NEW t, NEW q, RaceCalled(t, q), StartLoop(t, q)
    PROVE  Fine(tok', queue')
<1> DEFINE tk == Mark(tok, {t}, "waiting")
<1>1. Type(t) \in TaskTypes /\ Fine(tk, q) /\ t \in DOMAIN tok /\ tok \in Seq(Token)
  BY RaceCalledFacts DEF StartLoop
<1>2. Type(t) # "intermediateCatchEvent" /\ Fosters(TypeAt(tok, t), TypeAt(tok, t))
  BY <1>1 DEF TaskTypes, Fosters, Type, TypeAt
<1>3. DOMAIN tk = DOMAIN tok /\ Len(tk) = Len(tok) /\ TypeAt(tk, t) = TypeAt(tok, t)
  BY <1>1, MarkFacts, MarkType DEF Statuses, Type, TypeAt
<1>4. PICK n \in Collections \ {None} :
          IF n = 0
          THEN Advance(t, tok, q)
          ELSE IF El[tok[t].el].loop = "seq"
               THEN Put([tk EXCEPT ![t].rest = n - 1], LoopChildren(t, 1), q)
               ELSE Put(tk, LoopChildren(t, n), q)
  BY DEF StartLoop
<1>5. n \in Nat
  BY BoundsAssumption
<1> HIDE DEF tk
<1>6. CASE Advance(t, tok, q)
  BY <1>2, <1>6, AdvanceHeadFine
<1>7. CASE n # 0 /\ Put([tk EXCEPT ![t].rest = n - 1], LoopChildren(t, 1), q)
  <2> DEFINE r == n - 1
             tr == [tk EXCEPT ![t].rest = r]
  <2>1. r \in Nat /\ t \in DOMAIN tk
    BY <1>1, <1>3, <1>5, <1>7
  <2>2. Put(tr, LoopChildren(t, 1), q)
    BY <1>7
  <2> HIDE DEF r
  <2>3. Fine(tr, q) /\ Len(tr) = Len(tk) /\ \A i \in DOMAIN tk : tr[i].el = tk[i].el
    BY <1>1, <2>1, RestFine
  <2> HIDE DEF tr
  <2>4. TypeAt(tr, t) = TypeAt(tok, t)
    BY <1>3, <2>1, <2>3 DEF TypeAt
  <2> QED
    BY <1>1, <1>2, <1>3, <2>2, <2>3, <2>4, LoopChildrenFine
<1>8. CASE Put(tk, LoopChildren(t, n), q)
  BY <1>1, <1>2, <1>3, <1>5, <1>8, LoopChildrenFine
<1> QED
  BY <1>4, <1>6, <1>7, <1>8

LEMMA ManualLoopChildFine ==
    ASSUME NEW t, NEW q, RaceCalled(t, q), ManualLoopChild(t, q)
    PROVE  Fine(tok', queue')
<1>1. /\ Type(t) = "manualTask" /\ tok[t].parent # 0 /\ CompleteLoopChild(t, q)
  BY DEF ManualLoopChild
<1>2. Fine(tok, queue) /\ t \in DOMAIN tok /\ Fine(Mark(tok, {t}, "completed"), q)
  BY <1>1, RaceCalledFacts
<1> QED
  BY <1>1, <1>2, CompleteLoopChildFine DEF TaskTypes

\* No handler of runLoop decides a race twice.
LEMMA ProcessTokenFine ==
    ASSUME Fine(tok, queue), comp \in Seq(CompensationRecord), ProcessToken
    PROVE  Fine(tok', queue')
<1> DEFINE t == Head(queue)
           q == Tail(queue)
<1>1. RaceCalled(t, q)
  BY DEF ProcessToken, RaceCalled, Called, Fine
<1>2. \/ PassThrough(t, q) \/ ParallelSplit(t, q)
      \/ Suspend(t, q) \/ EnterSubProcess(t, q)
      \/ EndProcess(t, q) \/ EndSubProcess(t, q) \/ Terminate(t, q)
      \/ CancelTransaction(t, q) \/ Exclusive(t, q)
      \/ ParallelJoin(t, q) \/ InclusiveJoin(t, q)
      \/ InclusiveSplit(t, q) \/ EventGateway(t, q)
      \/ ThrowCompensation(t, q) \/ StartLoop(t, q) \/ ManualLoopChild(t, q)
  BY DEF ProcessToken
<1> HIDE DEF t, q
<1>3. CASE PassThrough(t, q) \/ ParallelSplit(t, q)
  <2>1. Type(t) # "intermediateCatchEvent" /\ Advance(t, tok, q)
    BY <1>3 DEF PassThrough, ParallelSplit
  <2> QED
    BY <1>1, <2>1, AdvanceHeadFine
<1> QED
  BY <1>1, <1>2, <1>3, SuspendFine, EnterSubProcessFine, EndFine, CancelTransactionFine, GatewayFine,
     EventGatewayFine, ThrowCompensationFine, StartLoopFine, ManualLoopChildFine

----------------------------------------------------------------------------
(* Commands and the delivery of messages                                    *)

\* A waiting branch gives its rivals up: none of them waits or is completed then.
LEMMA RivalsGone ==
    ASSUME NEW q, Fine(tok, q), NEW t \in DOMAIN tok, tok[t].status = "waiting",
           NEW tk, tk = Mark(tok, RaceSiblings(tok, t), "cancelled")
    PROVE  /\ Fine(tk, q) /\ DOMAIN tk = DOMAIN tok /\ (InRace(tk, t) <=> InRace(tok, t))
           /\ Rivals(tk, t) = Rivals(tok, t)
           /\ InRace(tok, t) => \A j \in Rivals(tok, t) : tk[j].status \notin {"waiting", "completed"}
<1>1. /\ Fine(tk, q) /\ DOMAIN tk = DOMAIN tok
      /\ \A i \in DOMAIN tok : /\ tk[i].el = tok[i].el /\ tk[i].parent = tok[i].parent
                               /\ tk[i].status = IF i \in RaceSiblings(tok, t) THEN "cancelled" ELSE tok[i].status
  BY MarkFine DEF Statuses
<1>2. \A i \in DOMAIN tok : tok[i].parent # 0 => tok[i].parent \in DOMAIN tok
  BY RaceFacts
<1>3. (InRace(tk, t) <=> InRace(tok, t)) /\ Rivals(tk, t) = Rivals(tok, t)
  BY <1>1, <1>2 DEF InRace, TypeAt, Rivals
<1>4. ASSUME InRace(tok, t), NEW j \in Rivals(tok, t)
      PROVE  tk[j].status \notin {"waiting", "completed"}
  <2>1. j \in DOMAIN tok /\ j # t /\ tok[j].parent = tok[t].parent /\ tok[t].parent # 0 /\ InRace(tok, j)
    BY <1>4 DEF Rivals, InRace
  <2>2. tok[j].status # "completed"
    <3>1. t \in Rivals(tok, j)
      BY <2>1 DEF Rivals
    <3> QED
      BY <2>1, <3>1 DEF Fine, Race, Decided
  <2>3. tok[j].status = "waiting" => j \in RaceSiblings(tok, t)
    BY <2>1 DEF RaceSiblings, Waiting, ChildrenOf
  <2> QED
    BY <1>1, <2>1, <2>2, <2>3
<1> QED
  BY <1>1, <1>3, <1>4

\* Completing a token whose rivals are gone.
LEMMA SettledFine ==
    ASSUME NEW tk, NEW q, Fine(tk, q), NEW t \in DOMAIN tk,
           InRace(tk, t) => /\ t \notin Queued(q)
                            /\ \A j \in Rivals(tk, t) : j \notin Queued(q) /\ tk[j].status \notin {"waiting", "completed"}
    PROVE  Fine(Mark(tk, {t}, "completed"), q)
<1>1. CASE InRace(tk, t)
  BY <1>1, WonFine
<1>2. CASE ~InRace(tk, t)
  BY <1>2, MarkFine DEF Statuses
<1> QED
  BY <1>1, <1>2

LEMMA CompleteOrdinaryFine ==
    ASSUME Fine(tok, queue), NEW t \in DOMAIN tok, NEW tk, Fine(tk, queue), DOMAIN tk = DOMAIN tok,
           InRace(tk, t) => /\ t \notin Queued(queue)
                            /\ \A j \in Rivals(tk, t) : j \notin Queued(queue) /\ tk[j].status \notin {"waiting", "completed"},
           CompleteOrdinary(t, tk)
    PROVE  Fine(tok', queue')
<1> DEFINE S == BoundaryTokens(tk, tok[t].el)
           tb == Mark(tk, S, "cancelled")
<1>1. tok[t] \in Token /\ Rooted(tok[t])
  BY TokenFacts, RaceFacts DEF Fine, Rooted
<1>2. Advance(t, tb, queue)
  BY DEF CompleteOrdinary
<1> HIDE DEF S
<1>3. /\ Fine(tb, queue) /\ DOMAIN tb = DOMAIN tk
      /\ \A i \in DOMAIN tk : /\ tb[i].el = tk[i].el /\ tb[i].parent = tk[i].parent
                              /\ tb[i].status = IF i \in S THEN "cancelled" ELSE tk[i].status
  BY MarkFine DEF Statuses
<1> HIDE DEF tb
<1>4. \A i \in DOMAIN tk : tk[i].parent # 0 => tk[i].parent \in DOMAIN tk
  BY RaceFacts
<1>5. (InRace(tb, t) <=> InRace(tk, t)) /\ Rivals(tb, t) = Rivals(tk, t)
  BY <1>3, <1>4 DEF InRace, TypeAt, Rivals
<1>6. \A j \in Rivals(tk, t) : tb[j].status = tk[j].status \/ tb[j].status = "cancelled"
  BY <1>3 DEF Rivals
<1>7. Fine(Mark(tb, {t}, "completed"), queue)
  BY <1>3, <1>5, <1>6, SettledFine
<1> QED
  BY <1>1, <1>2, <1>7, AdvanceFine

LEMMA CompleteHandlerFine ==
    ASSUME Fine(tok, queue), NEW t \in DOMAIN tok, Fine(Mark(tok, {t}, "completed"), queue),
           IsHandler(t), CompleteHandler(t)
    PROVE  Fine(tok', queue')
<1> DEFINE p == tok[t].parent
           tk == Mark(tok, {t}, "completed")
<1>1. Type(p) \in {"intermediateThrowEvent", "endEvent"} /\ p # 0
  BY DEF IsHandler
<1>2. p \in DOMAIN tok /\ tok \in Seq(Token)
  BY <1>1, RaceFacts DEF Fine, Good
<1> HIDE DEF p
<1>3. tok[p] \in Token /\ Rooted(tok[p])
  BY <1>2, TokenFacts, RaceFacts DEF Fine, Rooted
<1>4. p \in DOMAIN tk /\ TypeAt(tk, p) # "intermediateCatchEvent"
  BY <1>1, <1>2, MarkFacts, MarkType DEF Statuses
<1> HIDE DEF tk
<1>5. Fine(Mark(tk, {p}, "completed"), queue)
  BY <1>4, DoneFine DEF tk
<1>6. CASE Put(tk, << >>, queue)
  BY <1>6, NothingPutFine DEF tk
<1>7. CASE Advance(p, tk, queue)
  BY <1>3, <1>5, <1>7, AdvanceFine
<1>8. CASE \E o : FireCancelBoundary(o, tk, queue)
  BY <1>8, FireCancelBoundaryFine DEF tk
<1> QED
  BY <1>6, <1>7, <1>8 DEF CompleteHandler, tk, p

LEMMA CompleteTaskFine ==
    ASSUME Fine(tok, queue), NEW t \in DOMAIN tok, CompleteTask(t)
    PROVE  Fine(tok', queue')
<1>1. Type(t) \in {"serviceTask", "userTask", "scriptTask"}
  BY DEF CompleteTask, Completable
<1>2. ~InRace(tok, t) /\ Fine(Mark(tok, {t}, "completed"), queue)
  BY <1>1, RaceFacts, DoneFine DEF Type, TypeAt
<1>3. CASE IsLoopChild(t) /\ CompleteLoopChild(t, queue)
  BY <1>1, <1>2, <1>3, CompleteLoopChildFine DEF IsLoopChild, TaskTypes
<1>4. CASE IsHandler(t) /\ CompleteHandler(t)
  BY <1>2, <1>4, CompleteHandlerFine
<1>5. CASE CompleteOrdinary(t, tok)
  BY <1>2, <1>5, CompleteOrdinaryFine
<1> QED
  BY <1>3, <1>4, <1>5 DEF CompleteTask

LEMMA FailServiceTaskFine ==
    ASSUME Fine(tok, queue), NEW t \in DOMAIN tok, NEW code \in Names, FailServiceTask(t, code)
    PROVE  Fine(tok', queue')
<1> DEFINE tk == Mark(tok, {t} \cup HostAndBoundaries(tok, tok[t].el), "cancelled")
<1>1. CASE tok' = tok /\ queue' = queue
  BY <1>1
<1>2. CASE \E b \in ErrorBoundary(tok[t].el, code) : Put(tk, Moved(tok[t], El[b].out), queue)
  <2>1. PICK b \in ErrorBoundary(tok[t].el, code) : Put(tk, Moved(tok[t], El[b].out), queue)
    BY <1>2
  <2>2. tok[t] \in Token /\ tok[t].el \in Elements /\ Rooted(tok[t])
    BY TokenFacts, RaceFacts DEF Fine, Rooted
  <2>3. PICK i \in DOMAIN El[tok[t].el].bound : b = El[tok[t].el].bound[i]
    BY <2>1 DEF ErrorBoundary
  <2>4. b \in Elements
    BY <2>2, <2>3, ElementFacts, LenProperties, ElementOfSeq
  <2>5. El[b].out \in Seq(Flows)
    BY <2>4, ElementFacts
  <2>6. Fine(tk, queue)
    BY MarkFine DEF Statuses
  <2> QED
    BY <2>1, <2>2, <2>5, <2>6, MovedFine
<1> QED
  BY <1>1, <1>2 DEF FailServiceTask

LEMMA FireBoundaryTimerFine ==
    ASSUME Fine(tok, queue), NEW t \in DOMAIN tok, FireBoundaryTimer(t)
    PROVE  Fine(tok', queue')
<1> DEFINE e == El[tok[t].el]
           hit == IF e.cancels THEN HostAndBoundaries(tok, e.host) \ {t} ELSE {}
           done == Mark(tok, {t}, "completed")
<1>1. Fine(done, queue)
  BY DoneFine DEF FireBoundaryTimer, Type, TypeAt
<1>2. Put(Mark(done, hit, "cancelled"), Moved(tok[t], e.out), queue)
  BY DEF FireBoundaryTimer
<1>3. tok[t] \in Token /\ e.out \in Seq(Flows) /\ Rooted(tok[t])
  BY TokenFacts, ElementFacts, RaceFacts DEF Fine, Rooted
<1> HIDE DEF hit, done
<1>4. Fine(Mark(done, hit, "cancelled"), queue)
  BY <1>1, MarkFine DEF Statuses
<1> QED
  BY <1>2, <1>3, <1>4, MovedFine

LEMMA FireTimerFine ==
    ASSUME Fine(tok, queue), queue = << >>, NEW t \in DOMAIN tok, FireTimer(t)
    PROVE  Fine(tok', queue')
<1> DEFINE tk == Mark(tok, RaceSiblings(tok, t), "cancelled")
<1>1. CompleteOrdinary(t, tk) /\ tok[t].status = "waiting"
  BY DEF FireTimer, Waiting
<1> HIDE DEF tk
<1>2. /\ Fine(tk, queue) /\ DOMAIN tk = DOMAIN tok /\ (InRace(tk, t) <=> InRace(tok, t))
      /\ Rivals(tk, t) = Rivals(tok, t)
      /\ InRace(tok, t) => \A j \in Rivals(tok, t) : tk[j].status \notin {"waiting", "completed"}
  BY <1>1, RivalsGone DEF tk
<1>3. Queued(queue) = {}
  BY DEF Queued
<1> QED
  BY <1>1, <1>2, <1>3, CompleteOrdinaryFine

\* Completing a token and changing others are done in either order.
LEMMA MarksCommute ==
    ASSUME NEW tk \in Seq(Token), NEW t, NEW S, t \notin S, NEW a \in Statuses, NEW b \in Statuses
    PROVE  Mark(Mark(tk, {t}, a), S, b) = Mark(Mark(tk, S, b), {t}, a)
<1>1. DOMAIN Mark(tk, {t}, a) = DOMAIN tk /\ DOMAIN Mark(tk, S, b) = DOMAIN tk
  BY DEF Mark
<1>2. \A i \in DOMAIN tk : Mark(tk, {t}, a)[i] = (IF i = t THEN [tk[i] EXCEPT !.status = a] ELSE tk[i])
  BY DEF Mark
<1>3. \A i \in DOMAIN tk : Mark(tk, S, b)[i] = (IF i \in S THEN [tk[i] EXCEPT !.status = b] ELSE tk[i])
  BY DEF Mark
<1> DEFINE l == Mark(tk, {t}, a)
           r == Mark(tk, S, b)
<1> HIDE DEF l, r
<1>4. \A i \in DOMAIN tk :
         (IF i \in S THEN [l[i] EXCEPT !.status = b] ELSE l[i]) = (IF i \in {t} THEN [r[i] EXCEPT !.status = a] ELSE r[i])
  BY <1>2, <1>3 DEF l, r
<1>5. Mark(l, S, b) = [i \in DOMAIN tk |-> IF i \in S THEN [l[i] EXCEPT !.status = b] ELSE l[i]]
  BY <1>1 DEF Mark, l
<1>6. Mark(r, {t}, a) = [i \in DOMAIN tk |-> IF i \in {t} THEN [r[i] EXCEPT !.status = a] ELSE r[i]]
  BY <1>1 DEF Mark, r
<1>7. Mark(l, S, b) = Mark(r, {t}, a)
  BY <1>4, <1>5, <1>6
<1> QED
  BY <1>7 DEF l, r

LEMMA DeliverNextFine ==
    ASSUME Fine(tok, queue), targets \subseteq DOMAIN tok, Arriving, DeliverNext
    PROVE  Fine(tok', queue') /\ Arriving'
<1>1. PICK t \in Least(targets) :
        \/ /\ tok[t].status = "waiting"
           /\ Put(Mark(Mark(tok, {t}, "completed"), RaceSiblings(tok, t), "cancelled"),
                  Moved(tok[t], El[tok[t].el].out), queue)
        \/ tok' = tok /\ queue' = queue
  BY DEF DeliverNext
<1>2. t \in DOMAIN tok /\ targets # {}
  BY DEF Least
<1>3. CASE tok' = tok /\ queue' = queue
  BY <1>2, <1>3 DEF Arriving
<1>4. CASE /\ tok[t].status = "waiting"
           /\ Put(Mark(Mark(tok, {t}, "completed"), RaceSiblings(tok, t), "cancelled"),
                  Moved(tok[t], El[tok[t].el].out), queue)
  <2> DEFINE lost == Mark(tok, RaceSiblings(tok, t), "cancelled")
             tk == Mark(lost, {t}, "completed")
             new == Moved(tok[t], El[tok[t].el].out)
  <2>1. tok \in Seq(Token) /\ tok[t] \in Token /\ Rooted(tok[t]) /\ El[tok[t].el].out \in Seq(Flows)
    <3>1. tok \in Seq(Token) /\ tok[t] \in Token
      BY <1>2, TokenFacts DEF Fine, Good
    <3>2. Rooted(tok[t])
      BY <1>2, RaceFacts DEF Rooted
    <3> QED
      BY <3>1, <3>2, ElementFacts DEF Token
  <2>2. Mark(Mark(tok, {t}, "completed"), RaceSiblings(tok, t), "cancelled") = tk
    <3>1. t \notin RaceSiblings(tok, t)
      BY DEF RaceSiblings
    <3>2. "completed" \in Statuses /\ "cancelled" \in Statuses
      BY DEF Statuses
    <3> QED
      BY <2>1, <3>1, <3>2, MarksCommute
  <2>3. /\ Fine(lost, queue) /\ DOMAIN lost = DOMAIN tok /\ (InRace(lost, t) <=> InRace(tok, t))
        /\ Rivals(lost, t) = Rivals(tok, t)
        /\ InRace(tok, t) => \A j \in Rivals(tok, t) : lost[j].status \notin {"waiting", "completed"}
    BY <1>2, <1>4, RivalsGone
  <2>4. Put(tk, new, queue)
    BY <1>4, <2>2
  <2>5. \A j \in DOMAIN tok : tk[j].parent = tok[j].parent
    <3>1. lost \in Seq(Token) /\ \A j \in DOMAIN tok : lost[j].parent = tok[j].parent
      BY <2>1, MarkFacts DEF Statuses
    <3> HIDE DEF lost
    <3> QED
      BY <2>3, <3>1, MarkFacts DEF Statuses
  <2> HIDE DEF lost
  <2>6. InRace(tok, t) => t \notin Queued(queue) /\ \A j \in Rivals(tok, t) : j \notin Queued(queue)
    BY <1>2 DEF Arriving, InRace, Rivals, Queued
  <2>7. Fine(tk, queue) /\ DOMAIN tk = DOMAIN tok
    <3>1. Fine(tk, queue)
      BY <1>2, <2>3, <2>6, SettledFine
    <3>2. lost \in Seq(Token)
      BY <2>3 DEF Fine, Good
    <3> QED
      BY <2>3, <3>1, <3>2, MarkFacts DEF Statuses
  <2> HIDE DEF tk
  <2>8. Fine(tok', queue')
    BY <2>1, <2>4, <2>7, MovedFine
  <2>9. Arriving'
    <3> DEFINE n == Len(tk)
               m == Len(new)
               l == Len(queue)
               num == [i \in DOMAIN new |-> n + i]
    <3>1. /\ tk \in Seq(Token) /\ n \in Nat /\ DOMAIN tk = 1..n
          /\ queue \in Seq(Nat) /\ l \in Nat /\ DOMAIN queue = 1..l /\ Good(tok, queue)
      BY <2>7, LenProperties DEF Fine, Good
    <3>2. /\ new \in Seq(Token) /\ m \in Nat /\ DOMAIN new = 1..m
          /\ \A i \in 1..m : new[i].parent = 0
      <4>1. new \in NewTokens(n)
        BY <2>1, <3>1, MovedType
      <4>2. new \in Seq(Token)
        BY <4>1 DEF NewTokens
      <4>3. \A i \in DOMAIN new : new[i].parent = 0
        BY DEF Moved, Fresh
      <4> HIDE DEF new
      <4>4. m \in Nat /\ DOMAIN new = 1..m
        BY <4>2, LenProperties
      <4> QED
        BY <4>2, <4>3, <4>4
    <3>3. num \in [1..m -> Nat] /\ tok' = tk \o new /\ queue' = queue \o num
      <4>1. tok' = tk \o new /\ queue' = queue \o num
        BY <2>4 DEF Put
      <4> HIDE DEF n, m, new
      <4>2. num \in [1..m -> Nat]
        BY <3>1, <3>2
      <4> QED
        BY <4>1, <4>2
    <3>4. num \in Seq(Nat) /\ Len(num) = m /\ \A i \in 1..m : num[i] = n + i
      <4>1. \A i \in 1..m : num[i] = n + i
        BY <3>2
      <4> HIDE DEF n, m, num, new
      <4>2. num \in Seq(Nat) /\ Len(num) = m
        BY <3>2, <3>3, FunctionIsSeq
      <4> QED
        BY <4>1, <4>2
    <3> HIDE DEF n, m, num, new
    <3>5. \A i \in 1..(n + m) : tok'[i] = IF i <= n THEN tk[i] ELSE new[i - n]
      BY <3>1, <3>2, <3>3, ConcatProperties, LenProperties DEF n, m
    <3>6. /\ DOMAIN queue' = 1..(l + m)
          /\ \A k \in 1..(l + m) : queue'[k] = IF k <= l THEN queue[k] ELSE num[k - l]
      <4>1. queue \in Seq(Nat) /\ num \in Seq(Nat) /\ queue' = queue \o num /\ m \in Nat /\ l \in Nat
        BY <3>1, <3>2, <3>3, <3>4
      <4>2. /\ queue' \in Seq(Nat) /\ Len(queue') = l + m
            /\ \A k \in 1..(l + m) : queue'[k] = IF k <= l THEN queue[k] ELSE num[k - l]
        BY <3>4, <4>1, ConcatProperties
      <4> QED
        BY <4>1, <4>2, LenProperties
    <3> HIDE DEF l
    <3> SUFFICES ASSUME NEW k \in 1..(l + m)
                 PROVE  tok'[queue'[k]].parent = 0
      BY <3>6 DEF Arriving
    <3>7. CASE k <= l
      <4>1. k \in DOMAIN queue /\ queue'[k] = queue[k]
        BY <3>1, <3>6, <3>7
      <4>2. queue[k] \in 1..n /\ tok[queue[k]].parent = 0
        BY <1>2, <2>7, <3>1, <4>1 DEF Arriving, Good
      <4>3. queue[k] \in 1..(n + m) /\ queue[k] <= n
        BY <3>1, <3>2, <4>2
      <4>4. tok'[queue[k]] = tk[queue[k]]
        BY <3>5, <4>3
      <4> QED
        BY <2>5, <2>7, <3>1, <4>1, <4>2, <4>4 DEF tk
    <3>8. CASE ~(k <= l)
      <4>1. k - l \in 1..m
        BY <3>1, <3>2, <3>8
      <4>2. queue'[k] = n + (k - l)
        BY <3>4, <3>6, <3>8, <4>1
      <4> DEFINE j == k - l
      <4>3. j \in 1..m /\ queue'[k] = n + j
        BY <4>1, <4>2
      <4> HIDE DEF j
      <4>4. n + j \in 1..(n + m) /\ ~(n + j <= n) /\ (n + j) - n = j
        BY <3>1, <3>2, <4>3
      <4>5. tok'[n + j] = new[j]
        BY <3>5, <4>4
      <4> QED
        BY <3>2, <4>3, <4>5
    <3> QED
      BY <3>7, <3>8
  <2> QED
    BY <2>8, <2>9
<1> QED
  BY <1>1, <1>3, <1>4

LEMMA CommandFine ==
    ASSUME Fine(tok, queue), queue = << >>, targets = {}, Command
    PROVE  Fine(tok', queue') /\ Arriving'
<1>1. CASE StartProcess
  <2>1. PICK start \in StartEvents : Put(tok, << Fresh(start, None, None, 0) >>, queue)
    BY <1>1 DEF StartProcess
  <2>2. Fresh(start, None, None, 0) \in Token
    BY <2>1, DefinitionAssumption DEF Fresh, Token, Statuses, Lost
  <2> DEFINE new == << Fresh(start, None, None, 0) >>
  <2>3. Fresh(start, None, None, 0).parent = 0
    BY DEF Fresh
  <2>4. new \in NewTokens(Len(tok))
    BY <2>2, <2>3, FineLen, OneToken
  <2>5. \A i \in DOMAIN new : new[i].status = "active" /\ new[i].parent = 0 /\ new[i].sub = None
    BY DEF Fresh
  <2> HIDE DEF new
  <2>6. new \in Newcomers(tok, queue)
    BY <2>4, <2>5 DEF Newcomers
  <2>7. Fine(tok', queue')
    BY <2>1, <2>6, PutFine DEF new
  <2> QED
    BY <1>1, <2>7 DEF Arriving, StartProcess
<1>2. CASE \E t \in DOMAIN tok : CompleteTask(t)
  BY <1>2, CompleteTaskFine DEF Arriving, CompleteTask
<1>3. CASE \E t \in DOMAIN tok, code \in Names : FailServiceTask(t, code)
  BY <1>3, FailServiceTaskFine DEF Arriving, FailServiceTask
<1>4. CASE \E t \in DOMAIN tok : FireBoundaryTimer(t)
  BY <1>4, FireBoundaryTimerFine DEF Arriving, FireBoundaryTimer
<1>5. CASE \E t \in DOMAIN tok : FireTimer(t)
  BY <1>5, FireTimerFine DEF Arriving, FireTimer
<1>6. CASE \E kind \in {"message", "signal"}, name \in Names : Deliver(kind, name)
  BY <1>6 DEF Arriving, Deliver
<1>7. CASE SuspendInstance \/ ResumeInstance
  BY <1>7 DEF Arriving, SuspendInstance, ResumeInstance
<1>8. CASE CancelInstance
  <2>1. Fine(Mark(tok, Live(tok), "cancelled"), queue)
    BY MarkFine DEF Statuses
  <2> QED
    BY <1>8, <2>1 DEF Arriving, CancelInstance
<1> QED
  BY <1>1, <1>2, <1>3, <1>4, <1>5, <1>6, <1>7, <1>8 DEF Command

\* What is stored keeps to it, whether or not loop counters survive.
LEMMA RevivedFine ==
    ASSUME NEW tk, Fine(tk, << >>)
    PROVE  Fine(Revived(tk), << >>)
<1>1. Good(Revived(tk), << >>) /\ DOMAIN Revived(tk) = DOMAIN tk
  BY RevivedGood DEF Fine
<1>2. \A i \in DOMAIN tk : /\ Revived(tk)[i].el = tk[i].el /\ Revived(tk)[i].sub = tk[i].sub
                          /\ Revived(tk)[i].parent = tk[i].parent /\ Revived(tk)[i].status = tk[i].status
  <2> TAKE i \in DOMAIN tk
  <2>1. tk[i] \in Token
    BY TokenFacts DEF Fine
  <2>2. Revived(tk)[i] = tk[i] \/ Revived(tk)[i] = [tk[i] EXCEPT !.rest = Lost]
    BY DEF Revived
  <2> QED
    BY <2>1, <2>2 DEF Token
<1>3. Race(Revived(tk), << >>)
  BY <1>1, <1>2, SameRace
<1> QED
  BY <1>1, <1>3 DEF Fine

LEMMA RaceInit == Init => RaceInv
  BY DEF Init, RaceInv, Race, Lineage, Increasing, Decided, Queued, Arriving

LEMMA RaceNext == Inv /\ RaceInv /\ [Next]_vars => RaceInv'
<1> SUFFICES ASSUME Inv, RaceInv, [Next]_vars PROVE RaceInv'
  OBVIOUS
<1>1. /\ Fine(tok, queue) /\ Fine(store.tok, << >>) /\ Arriving
      /\ targets \subseteq DOMAIN tok /\ comp \in Seq(CompensationRecord)
      /\ ~cycle => queue = << >> /\ targets = {}
  BY DEF Inv, TypeOK, RaceInv, Fine
<1>2. CASE Command
  <2>1. store' = store
    BY <1>2 DEF Command, Begin, StartProcess, CompleteTask, FailServiceTask, FireBoundaryTimer,
       FireTimer, Deliver, SuspendInstance, ResumeInstance, CancelInstance
  <2>2. queue = << >> /\ targets = {}
    BY <1>1, <1>2 DEF Command
  <2>3. Fine(tok', queue') /\ Arriving'
    BY <1>1, <1>2, <2>2, CommandFine
  <2> QED
    BY <1>1, <2>1, <2>3 DEF RaceInv, Fine
<1>3. CASE DeliverNext
  <2>1. store' = store
    BY <1>3 DEF DeliverNext
  <2>2. Fine(tok', queue') /\ Arriving'
    BY <1>1, <1>3, DeliverNextFine
  <2> QED
    BY <1>1, <2>1, <2>2 DEF RaceInv, Fine
<1>4. CASE ProcessToken
  <2>1. store' = store /\ targets' = {}
    BY <1>4 DEF ProcessToken
  <2>2. Fine(tok', queue')
    BY <1>1, <1>4, ProcessTokenFine
  <2> QED
    BY <1>1, <2>1, <2>2 DEF RaceInv, Fine, Arriving
<1>5. CASE Throw
  BY <1>1, <1>5 DEF Throw, RaceInv, Fine, Arriving
<1>6. CASE Commit
  <2>1. Fine(Revived(tok), << >>)
    BY <1>1, <1>6, RevivedFine DEF Commit
  <2>2. tok' = Revived(tok) /\ queue' = << >> /\ store'.tok = Revived(tok) /\ targets' = {}
    BY <1>6 DEF Commit
  <2> QED
    BY <2>1, <2>2 DEF RaceInv, Fine, Arriving
<1>7. CASE UNCHANGED vars
  BY <1>7 DEF vars, RaceInv, Race, Lineage, Increasing, Decided, Queued, Arriving, InRace, Rivals, TypeAt
<1> QED
  BY <1>2, <1>3, <1>4, <1>5, <1>6, <1>7 DEF Next

\* An event-based gateway is left by one event only, in every definition and however many messages, signals
\* and timers arrive in one cycle: the branch that completes cancels its waiting rivals (cancelEbgSiblings),
\* and a branch that is still queued has none that completed.
THEOREM RacesAreDecidedOnce == Spec => []OneWinner
<1>1. Inv /\ RaceInv => OneWinner
  <2> SUFFICES ASSUME Inv, RaceInv, NEW g \in DOMAIN tok, Type(g) = "eventBasedGateway"
               PROVE  /\ Count(Done(ChildrenOf(tok, g))) <= 1
                      /\ Done(ChildrenOf(tok, g)) # {} => Waiting(tok) \cap ChildrenOf(tok, g) = {}
    BY DEF OneWinner
  <2> DEFINE branches == ChildrenOf(tok, g)
  <2>1. Fine(tok, queue)
    BY DEF Inv, RaceInv, Fine
  <2>2. g # 0
    BY <2>1, TokenFacts DEF Fine
  <2>3. \A i \in branches : i \in DOMAIN tok /\ InRace(tok, i)
    BY <2>2 DEF ChildrenOf, InRace, Type, TypeAt
  <2>4. \A i, j \in branches : i # j => j \in Rivals(tok, i)
    BY DEF ChildrenOf, Rivals
  <2>5. \A i \in Done(branches) : i \in branches /\ tok[i].status = "completed"
    BY DEF Done
  <2>6. \A i \in Done(branches), j \in branches : i # j => tok[j].status \notin {"waiting", "completed"}
    BY <2>1, <2>3, <2>4, <2>5 DEF Fine, Race, Decided
  <2> HIDE DEF branches
  <2>7. Count(Done(branches)) <= 1
    <3>1. CASE Done(branches) = {}
      BY <3>1, FS_EmptySet DEF Count
    <3>2. CASE Done(branches) # {}
      <4>1. PICK i : i \in Done(branches)
        BY <3>2
      <4>2. Done(branches) = {i}
        BY <2>5, <2>6, <4>1
      <4> QED
        <5>1. Cardinality({i}) = 1
          BY FS_Singleton
        <5> QED
          BY <4>2, <5>1 DEF Count
    <3> QED
      BY <3>1, <3>2
  <2>8. Done(branches) # {} => Waiting(tok) \cap branches = {}
    BY <2>5, <2>6 DEF Waiting
  <2> QED
    BY <2>7, <2>8 DEF branches
<1>2. Spec => [](Inv /\ RaceInv)
  <2>1. Inv /\ RaceInv /\ [Next]_vars => (Inv /\ RaceInv)'
    BY NextInv, RaceNext
  <2>2. Init => Inv /\ RaceInv
    BY InitInv, RaceInit
  <2> QED
    BY <2>1, <2>2, PTL DEF Spec
<1> QED
  BY <1>1, <1>2, PTL

----------------------------------------------------------------------------
(* Instances that are over                                                  *)

\* No definition has a terminate end event: with one, tokens that are still queued are processed although the
\* instance is completed (Terminate), and what they create may wait.
NoTerminate == \A e \in Elements : El[e].type = "endEvent" => El[e].event # "terminate"

Over(status) == status \in {"completed", "terminated"}

QuietInv ==
    /\ Over(inst) => Live(tok) = {} /\ queue = << >>
    /\ Over(store.inst) => Live(store.tok) = {}

\* Nothing can wait where nothing is live.
LEMMA QuietMeansStill ==
    ASSUME QuietInv, Over(inst)
    PROVE  Waiting(tok) = {} /\ queue = << >>
  BY DEF QuietInv, Live, Waiting

LEMMA QuietCommand ==
    ASSUME QuietInv, Good(tok, queue), queue = << >>, Command
    PROVE  QuietInv'
<1>1. store' = store
  BY DEF Command, Begin, StartProcess, CompleteTask, FailServiceTask, FireBoundaryTimer,
     FireTimer, Deliver, SuspendInstance, ResumeInstance, CancelInstance
<1>2. CASE StartProcess
  BY <1>1, <1>2 DEF StartProcess, QuietInv, Over
<1>3. CASE \E t \in DOMAIN tok : CompleteTask(t) \/ FireBoundaryTimer(t) \/ FireTimer(t)
                                   \/ \E code \in Names : FailServiceTask(t, code)
  <2>1. Waiting(tok) # {}
    BY <1>3 DEF CompleteTask, FailServiceTask, Completable, FireBoundaryTimer, FireTimer
  <2>2. ~Over(inst)
    BY <2>1, QuietMeansStill
  <2>3. ~Over(inst')
    BY <1>3, <2>2 DEF CompleteTask, FailServiceTask, FireBoundaryTimer, FireTimer, Resumed, Over
  <2> QED
    BY <1>1, <2>3 DEF QuietInv
<1>4. CASE (\E kind \in {"message", "signal"}, name \in Names : Deliver(kind, name))
             \/ SuspendInstance \/ ResumeInstance
  <2>1. tok' = tok /\ queue' = queue /\ (Over(inst') => Over(inst))
    BY <1>4 DEF Deliver, SuspendInstance, ResumeInstance, Over
  <2> QED
    BY <1>1, <2>1 DEF QuietInv, Live
<1>5. CASE CancelInstance
  <2> DEFINE tk == Mark(tok, Live(tok), "cancelled")
  <2>1. DOMAIN tk = DOMAIN tok
        /\ \A i \in DOMAIN tok : tk[i].status = IF i \in Live(tok) THEN "cancelled" ELSE tok[i].status
    BY MarkFacts DEF Good, Statuses
  <2>2. tok' = tk /\ queue' = queue
    BY <1>5 DEF CancelInstance
  <2> HIDE DEF tk
  <2>3. Live(tk) = {}
    BY <2>1 DEF Live
  <2> QED
    BY <1>1, <2>2, <2>3 DEF QuietInv, Live
<1> QED
  BY <1>2, <1>3, <1>4, <1>5 DEF Command

LEMMA QuietNext ==
    ASSUME NoTerminate
    PROVE  Inv /\ QuietInv /\ [Next]_vars => QuietInv'
<1> SUFFICES ASSUME Inv, QuietInv, [Next]_vars PROVE QuietInv'
  OBVIOUS
<1>1. Good(tok, queue) /\ (~cycle => queue = << >>) /\ targets \subseteq DOMAIN tok
  BY DEF Inv, TypeOK
<1>2. CASE Command
  BY <1>1, <1>2, QuietCommand DEF Command
<1>3. CASE DeliverNext
  <2>1. PICK t \in Least(targets) : tok[t].status # "waiting" => tok' = tok /\ queue' = queue
    BY <1>3 DEF DeliverNext
  <2>2. t \in DOMAIN tok
    BY <1>1 DEF Least
  <2>3. inst' = inst /\ store' = store
    BY <1>3 DEF DeliverNext
  <2>4. CASE Over(inst)
    <3>1. tok' = tok /\ queue' = queue
      BY <2>1, <2>2, <2>4, QuietMeansStill DEF Waiting
    <3> QED
      BY <2>3, <3>1 DEF QuietInv, Live
  <2>5. CASE ~Over(inst)
    BY <2>3, <2>5 DEF QuietInv
  <2> QED
    BY <2>4, <2>5
<1>4. CASE ProcessToken
  <2> DEFINE t == Head(queue)
             q == Tail(queue)
  <2>1. ~Over(inst) /\ store' = store
    BY <1>4, QuietMeansStill DEF ProcessToken
  <2>2. Called(t, q) \/ comp \notin Seq(CompensationRecord)
    BY <1>1, <1>4 DEF ProcessToken, Called
  <2>3. tok[t] \in Token
    BY <2>2, CalledFacts DEF Inv, TypeOK
  <2>4. ~Terminate(t, q)
    BY <2>3 DEF NoTerminate, Terminate, Type, Token
  <2>5. inst' = inst \/ EndProcess(t, q)
    BY <1>4, <2>4 DEF ProcessToken, PassThrough, Suspend, EnterSubProcess, EndSubProcess, CancelTransaction,
       Exclusive, ParallelSplit, ParallelJoin, InclusiveSplit, InclusiveJoin, EventGateway, ThrowCompensation,
       StartLoop, ManualLoopChild
  <2> HIDE DEF t, q
  <2>6. CASE inst' = inst
    BY <2>1, <2>6 DEF QuietInv
  <2>7. CASE EndProcess(t, q)
    BY <2>1, <2>7 DEF QuietInv, EndProcess, Over, Live
  <2> QED
    BY <2>5, <2>6, <2>7
<1>5. CASE Throw
  BY <1>5 DEF Throw, QuietInv, Live
<1>6. CASE Commit
  <2>1. /\ tok' = Revived(tok) /\ queue' = queue /\ inst' = inst /\ queue = << >>
        /\ store'.inst = inst /\ store'.tok = Revived(tok)
    BY <1>6 DEF Commit
  <2>2. DOMAIN Revived(tok) = DOMAIN tok
    BY <1>1, <2>1, RevivedGood
  <2>3. \A i \in DOMAIN tok : Revived(tok)[i].status = tok[i].status
    <3> TAKE i \in DOMAIN tok
    <3>1. tok[i] \in Token
      BY <1>1, TokenFacts
    <3>2. Revived(tok)[i] = tok[i] \/ Revived(tok)[i] = [tok[i] EXCEPT !.rest = Lost]
      BY DEF Revived
    <3> QED
      BY <3>1, <3>2 DEF Token
  <2>4. Live(Revived(tok)) = Live(tok)
    BY <2>2, <2>3 DEF Live
  <2> QED
    BY <2>1, <2>4 DEF QuietInv, Live
<1>7. CASE UNCHANGED vars
  BY <1>7 DEF vars, QuietInv, Live
<1> QED
  BY <1>2, <1>3, <1>4, <1>5, <1>6, <1>7 DEF Next

\* An instance that is completed or terminated has no token left that a late command could move, unless a
\* definition has a terminate end event: handleEndEvent completes it only once nothing is live and nothing
\* is queued, and handleCancelInstance cancels all that is live.
THEOREM OverIsQuiet == ASSUME NoTerminate PROVE Spec => []OverMeansQuiet
<1>1. Init => Inv /\ QuietInv
  BY InitInv DEF Init, QuietInv, Over
<1>2. Inv /\ QuietInv /\ [Next]_vars => (Inv /\ QuietInv)'
  BY NextInv, QuietNext
<1>3. Inv /\ QuietInv => OverMeansQuiet
  <2> SUFFICES ASSUME Inv, QuietInv, Over(inst), NEW t \in DOMAIN tok
               PROVE  tok[t].status \in {"completed", "cancelled"}
    BY DEF OverMeansQuiet, Over
  <2>1. tok[t].status \in Statuses
    BY TokenFacts DEF Inv, Token
  <2>2. t \notin Live(tok)
    BY DEF QuietInv
  <2> QED
    BY <2>1, <2>2 DEF Live, Statuses
<1> QED
  BY <1>1, <1>2, <1>3, PTL DEF Spec

=============================================================================
