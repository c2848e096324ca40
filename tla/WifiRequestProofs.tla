------------------------- MODULE WifiRequestProofs ---------------------------
(***************************************************************************)
(* Proofs about WifiRequest, and about GScanResults, whose rounds are such *)
(* requests.                                                               *)
(*                                                                         *)
(* Of the first: the types; that the socket is empty whenever no thread is *)
(* in requestResponse, which needs the count of the data, the verdicts and *)
(* the threads that wait; that no answer, whosever it is, is written past  *)
(* a caller's buffer or miscounted; and that a request which no other      *)
(* overlaps is served with its own answer.                                 *)
(*                                                                         *)
(* Of the second: whatever the driver holds and however it cuts it into    *)
(* replies and rounds, the caller's array is filled in the driver's order, *)
(* never beyond its end, and a caller who is told of fewer scans than he   *)
(* has room for has them all.                                              *)
(***************************************************************************)
EXTENDS WifiRequest, GScanResults, FiniteSetTheorems, SequenceTheorems, TLAPS

-----------------------------------------------------------------------------
(***************************************************************************)
(* Counting the messages of a kind from a place of the socket on.          *)
(***************************************************************************)

At(q, k, K) == {i \in k..Len(q) : q[i].kind \in K}

LEMMA AtFinite ==
    ASSUME NEW M, NEW q \in Seq(M), NEW k \in Nat \ {0}, NEW K
    PROVE  IsFiniteSet(At(q, k, K)) /\ Cardinality(At(q, k, K)) \in Nat
<1>1. k \in Int /\ Len(q) \in Int
  OBVIOUS
<1>2. IsFiniteSet(k..Len(q))
  BY <1>1, FS_Interval
<1>3. At(q, k, K) \subseteq k..Len(q)
  BY DEF At
<1> QED
  BY <1>2, <1>3, FS_Subset, FS_CardinalityType

LEMMA AtAppend ==
    ASSUME NEW M, NEW q \in Seq(M), NEW k \in Nat \ {0}, NEW K, NEW m \in M
    PROVE  Cardinality(At(Append(q, m), k, K)) =
              IF m.kind \in K /\ k <= Len(q) + 1
              THEN Cardinality(At(q, k, K)) + 1 ELSE Cardinality(At(q, k, K))
<1> DEFINE r == Append(q, m)
           n == Len(q) + 1
<1>1. Len(q) \in Nat /\ n \in Nat /\ Len(r) = n /\ r[n] = m
      /\ \A i \in 1..Len(q) : r[i] = q[i]
  OBVIOUS
<1>2. CASE m.kind \in K /\ k <= n
  <2>1. At(r, k, K) = At(q, k, K) \cup {n}
    <3> HIDE DEF r
    <3> QED
      BY <1>1, <1>2 DEF At
  <2>2. n \notin At(q, k, K)
    BY <1>1 DEF At
  <2> HIDE DEF n, r
  <2>3. Cardinality(At(q, k, K) \cup {n}) = Cardinality(At(q, k, K)) + 1
    BY <2>2, AtFinite, FS_AddElement
  <2> QED
    BY <1>2, <2>1, <2>3, Zenon DEF n, r
<1>3. CASE ~(m.kind \in K /\ k <= n)
  <2>1. At(r, k, K) = At(q, k, K)
    <3> HIDE DEF r
    <3> QED
      BY <1>1, <1>3 DEF At
  <2> QED
    BY <1>3, <2>1, Zenon
<1> QED
  BY <1>2, <1>3

LEMMA AtTail ==
    ASSUME NEW M, NEW q \in Seq(M), q # << >>, NEW k \in Nat \ {0}, NEW K
    PROVE  Cardinality(At(Tail(q), k, K)) = Cardinality(At(q, k + 1, K))
<1> DEFINE S == At(q, k + 1, K)
           T == At(Tail(q), k, K)
           f == [i \in S |-> i - 1]
<1>1. /\ Len(q) \in Nat \ {0} /\ Len(Tail(q)) = Len(q) - 1
      /\ \A i \in 1..(Len(q) - 1) : Tail(q)[i] = q[i + 1]
  OBVIOUS
<1>2. S = {i \in (k + 1)..Len(q) : q[i].kind \in K}
  BY DEF At
<1>3. T = {i \in k..(Len(q) - 1) : q[i + 1].kind \in K}
  BY <1>1 DEF At
<1> HIDE DEF S, T
<1>4. f \in [S -> T]
  BY <1>1, <1>2, <1>3
<1>5. \A i, j \in S : f[i] = f[j] => i = j
  BY <1>1, <1>2
<1>6. \A j \in T : \E i \in S : f[i] = j
  <2> TAKE j \in T
  <2>1. j + 1 \in S /\ j \in Int
    BY <1>1, <1>2, <1>3
  <2>2. f[j + 1] = j
    BY <2>1
  <2> QED
    BY <2>1, <2>2
<1> HIDE DEF f
<1>7. f \in Bijection(S, T)
  BY <1>4, <1>5, <1>6 DEF Bijection, Injection, IsInjective, Surjection
<1>8. IsFiniteSet(S)
  BY AtFinite DEF S
<1> QED
  BY <1>7, <1>8, FS_Bijection DEF ExistsBijection, S, T

LEMMA AtHead ==
    ASSUME NEW M, NEW q \in Seq(M), q # << >>, NEW K
    PROVE  Cardinality(At(q, 1, K)) =
              IF Head(q).kind \in K THEN Cardinality(At(q, 2, K)) + 1
                                    ELSE Cardinality(At(q, 2, K))
<1>1. Len(q) \in Nat \ {0} /\ Head(q) = q[1]
  OBVIOUS
<1>2. CASE Head(q).kind \in K
  <2>1. At(q, 1, K) = At(q, 2, K) \cup {1}
    BY <1>1, <1>2 DEF At
  <2>2. 1 \notin At(q, 2, K)
    BY DEF At
  <2>3. IsFiniteSet(At(q, 2, K))
    <3>1. 2 \in Nat \ {0}
      OBVIOUS
    <3> QED
      BY <3>1, AtFinite
  <2>4. Cardinality(At(q, 2, K) \cup {1}) = Cardinality(At(q, 2, K)) + 1
    BY <2>2, <2>3, FS_AddElement
  <2> QED
    BY <1>2, <2>1, <2>4, Zenon
<1>3. CASE Head(q).kind \notin K
  <2>1. At(q, 1, K) = At(q, 2, K)
    BY <1>1, <1>3 DEF At
  <2> QED
    BY <1>3, <2>1, Zenon
<1> QED
  BY <1>2, <1>3

-----------------------------------------------------------------------------
(***************************************************************************)
(* Whose verdicts and data are on the socket.                              *)
(***************************************************************************)

Verdicts == {"ack", "error"}

\* The callers whose request has its verdict, and those whose data may be on the
\* socket without one.
Waiting == {c \in Callers : pc[c] = "waiting"}
Owing == {c \in Callers : pc[c] = "sending" /\ answered[c].sent}

\* There is a verdict on the socket for each caller that waits, whosever it is;
\* and from whatever message on, no more data than verdicts that follow or are
\* still to come.
CountInv ==
    /\ Cardinality(At(queue, 1, Verdicts)) = Cardinality(Waiting)
    /\ \A k \in Nat \ {0} :
          Cardinality(At(queue, k, {"data"}))
             <= Cardinality(At(queue, k, Verdicts)) + Cardinality(Owing)
    /\ \A c \in Callers : pc[c] # "idle" => requests > 0

LEMMA CallersCounted ==
    ASSUME NEW S, S \subseteq Callers
    PROVE  IsFiniteSet(S) /\ Cardinality(S) \in Nat /\ Cardinality(S) <= Cardinality(Callers)
BY RequestAssumption, FS_Subset, FS_CardinalityType

Messages == [kind : {"data", "ack", "error"}, of : Callers, answer : Answers \cup {Silence}]

LEMMA QueueIsSeq == TypeOK => queue \in Seq(Messages)
BY DEF TypeOK, Messages

\* The bound of the socket follows from the counts.
LEMMA QueueBounded ==
    ASSUME NEW q \in Seq(Messages), NEW W, NEW O,
           W \subseteq Callers, O \subseteq Callers, W \cap O = {},
           Cardinality(At(q, 1, Verdicts)) = Cardinality(W),
           Cardinality(At(q, 1, {"data"}))
             <= Cardinality(At(q, 1, Verdicts)) + Cardinality(O)
    PROVE  /\ Len(q) <= 2 * Cardinality(Callers)
           /\ W = {} /\ O = {} => q = << >>
<1> DEFINE D == At(q, 1, {"data"})
           V == At(q, 1, Verdicts)
<1>1. IsFiniteSet(D) /\ IsFiniteSet(V) /\ Cardinality(D) \in Nat /\ Cardinality(V) \in Nat
  BY AtFinite
<1>2. Len(q) \in Nat /\ D \cup V = 1..Len(q) /\ D \cap V = {}
  <2>1. Len(q) \in Nat
    OBVIOUS
  <2>2. \A i \in 1..Len(q) : q[i].kind \in {"data", "ack", "error"}
    <3> TAKE i \in 1..Len(q)
    <3>1. q[i] \in Messages
      OBVIOUS
    <3> QED
      BY <3>1 DEF Messages
  <2> QED
    BY <2>1, <2>2 DEF At, Verdicts
<1> HIDE DEF D, V
<1>3. Cardinality(1..Len(q)) = Len(q)
  <2>1. 1 \in Int /\ Len(q) \in Int
    BY <1>2
  <2> QED
    BY <1>2, <2>1, FS_Interval
<1>4. Len(q) = Cardinality(D) + Cardinality(V)
  <2>1. Cardinality(D \cup V) = Cardinality(D) + Cardinality(V) - Cardinality(D \cap V)
    BY <1>1, FS_Union
  <2>2. Cardinality(D \cup V) = Len(q) /\ Cardinality(D \cap V) = 0
    BY <1>2, <1>3, FS_EmptySet, Zenon
  <2> QED
    BY <1>1, <1>2, <2>1, <2>2
<1>5. Cardinality(W) + Cardinality(O) <= Cardinality(Callers)
  <2>1. IsFiniteSet(W) /\ IsFiniteSet(O) /\ Cardinality(W) \in Nat /\ Cardinality(O) \in Nat
    BY CallersCounted
  <2>2. Cardinality(W \cup O) = Cardinality(W) + Cardinality(O) - Cardinality(W \cap O)
    BY <2>1, FS_Union
  <2>3. Cardinality(W \cap O) = 0
    BY FS_EmptySet, Zenon
  <2>4. Cardinality(W \cup O) <= Cardinality(Callers)
    <3>1. W \cup O \subseteq Callers
      OBVIOUS
    <3> QED
      BY <3>1, CallersCounted
  <2> QED
    BY <2>1, <2>2, <2>3, <2>4
<1>6. /\ Cardinality(W) \in Nat /\ Cardinality(O) \in Nat /\ Cardinality(Callers) \in Nat
      /\ Cardinality(W) <= Cardinality(Callers)
  BY CallersCounted
<1>7. Len(q) <= 2 * Cardinality(Callers)
  BY <1>1, <1>2, <1>4, <1>5, <1>6 DEF D, V
<1>8. ASSUME W = {}, O = {} PROVE q = << >>
  <2>1. Cardinality(W) = 0 /\ Cardinality(O) = 0
    BY <1>8, FS_EmptySet, Zenon
  <2>2. Len(q) = 0
    BY <1>1, <1>2, <1>4, <2>1 DEF D, V
  <2> QED
    BY <2>2
<1> QED
  BY <1>7, <1>8

-----------------------------------------------------------------------------
(***************************************************************************)
(* What the driver answers.                                                *)
(***************************************************************************)

LEMMA DriverValuesFacts ==
    ASSUME NEW c, NEW r, NEW q, NEW values \in DriverValues(c, r, q)
    PROVE  \E n \in 0..MaxItems :
              /\ values = [i \in 1..n |-> <<c, r, i>>]
              /\ q.class \notin {"channels", "matrix"} => n = 1
<1>1. PICK n \in IF q.class \in {"channels", "matrix"} THEN 0..MaxItems ELSE {1} :
         values = [i \in 1..n |-> <<c, r, i>>]
  BY DEF DriverValues
<1>2. n \in 0..MaxItems /\ (q.class \notin {"channels", "matrix"} => n = 1)
  BY RequestAssumption
<1> QED
  BY <1>1, <1>2

LEMMA ValuesAreSeq ==
    ASSUME NEW c \in Callers, NEW r \in 1..MaxRequests, NEW q,
           NEW values \in DriverValues(c, r, q)
    PROVE  values \in Seq(Callers \X (1..MaxRequests) \X (1..MaxItems))
<1> DEFINE R == Callers \X (1..MaxRequests) \X (1..MaxItems)
<1>1. PICK n \in 0..MaxItems : values = [i \in 1..n |-> <<c, r, i>>]
  BY DriverValuesFacts
<1>2. n \in Nat /\ values \in [1..n -> R]
  <2>1. \A i \in 1..n : i \in 1..MaxItems
    BY RequestAssumption
  <2>2. \A i \in 1..n : <<c, r, i>> \in R
    BY <2>1
  <2> HIDE DEF R
  <2> QED
    BY <1>1, <2>2, RequestAssumption
<1> HIDE DEF R
<1> QED
  BY <1>2 DEF R

\* Each answer is that of some query to some values.
LEMMA AnswerFacts ==
    ASSUME NEW a \in Answers
    PROVE  \E q \in Queries, c \in Callers, r \in 1..MaxRequests :
              /\ q.class \in {"channels", "matrix", "gscan", "rtt"}
              /\ \E values \in DriverValues(c, r, q) : a = DriverAnswer(q, values)
<1>1. PICK q \in {p \in Queries : p.class # "order"}, c \in Callers, r \in 1..MaxRequests :
         a \in AnswersTo(c, r, q)
  BY DEF Answers
<1>2. q \in Queries /\ q.class \in {"channels", "matrix", "gscan", "rtt"}
  BY RequestAssumption
<1> QED
  BY <1>1, <1>2 DEF AnswersTo

LEMMA IsAnswer ==
    ASSUME NEW q \in Queries, q.class # "order", NEW c \in Callers,
           NEW r \in 1..MaxRequests, NEW values \in DriverValues(c, r, q)
    PROVE  DriverAnswer(q, values) \in Answers
<1>1. DriverAnswer(q, values) \in AnswersTo(c, r, q)
  BY DEF AnswersTo
<1> QED
  BY <1>1 DEF Answers

\* Every answer has an attribute.
LEMMA AnswerNotSilent ==
    ASSUME NEW a \in Answers
    PROVE  a # Silence
<1>1. PICK q \in Queries, c \in Callers, r \in 1..MaxRequests :
         /\ q.class \in {"channels", "matrix", "gscan", "rtt"}
         /\ \E values \in DriverValues(c, r, q) : a = DriverAnswer(q, values)
  BY AnswerFacts
<1>2. PICK values \in DriverValues(c, r, q) : a = DriverAnswer(q, values)
  BY <1>1
<1>3. Len(values) \in Nat
  BY ValuesAreSeq
<1>4. 1 \in DOMAIN a
  <2>1. CASE q.class = "channels"
    BY <1>2, <2>1 DEF DriverAnswer
  <2>2. CASE q.class = "matrix"
    BY <1>2, <1>3, <2>2 DEF DriverAnswer
  <2>3. CASE q.class \in {"gscan", "rtt"}
    BY <1>2, <2>3 DEF DriverAnswer
  <2> QED
    BY <1>1, <2>1, <2>2, <2>3
<1> QED
  BY <1>4 DEF Silence

-----------------------------------------------------------------------------
(***************************************************************************)
(* The counts are kept.                                                    *)
(***************************************************************************)

\* One message more.
LEMMA CountAppended ==
    ASSUME TypeOK, CountInv, NEW m \in Messages, queue' = Append(queue, m),
           NEW dW \in {0, 1}, NEW dO \in {-1, 0, 1},
           Cardinality(Waiting') = Cardinality(Waiting) + dW,
           Cardinality(Owing') >= Cardinality(Owing) + dO,
           m.kind = "data" => dW = 0 /\ dO = 1,
           m.kind # "data" => dW = 1,
           \A c \in Callers : pc'[c] # "idle" => requests' > 0
    PROVE  CountInv'
<1>1. queue \in Seq(Messages) /\ Len(queue) \in Nat /\ m.kind \in {"data", "ack", "error"}
  BY QueueIsSeq DEF Messages
<1> DEFINE D(k) == Cardinality(At(queue, k, {"data"}))
           V(k) == Cardinality(At(queue, k, Verdicts))
           d(k) == Cardinality(At(queue', k, {"data"}))
           v(k) == Cardinality(At(queue', k, Verdicts))
<1>2. \A k \in Nat \ {0} :
         /\ D(k) \in Nat /\ V(k) \in Nat
         /\ d(k) = IF m.kind \in {"data"} /\ k <= Len(queue) + 1 THEN D(k) + 1 ELSE D(k)
         /\ v(k) = IF m.kind \in Verdicts /\ k <= Len(queue) + 1 THEN V(k) + 1 ELSE V(k)
  <2> TAKE k \in Nat \ {0}
  <2>1. D(k) \in Nat /\ V(k) \in Nat
    BY <1>1, AtFinite
  <2> QED
    BY <1>1, <2>1, AtAppend
<1>3. \A k \in Nat \ {0} : k > Len(queue) + 1 => d(k) = 0
  <2> TAKE k \in Nat \ {0}
  <2> HAVE k > Len(queue) + 1
  <2>1. Len(queue') = Len(queue) + 1
    BY <1>1
  <2>2. At(queue', k, {"data"}) = {}
    BY <1>1, <2>1 DEF At
  <2> QED
    BY <2>2, FS_EmptySet, Zenon
<1>4. /\ Cardinality(Waiting) \in Nat /\ Cardinality(Owing) \in Nat
      /\ Cardinality(Waiting') \in Nat /\ Cardinality(Owing') \in Nat
  <2>1. Waiting \subseteq Callers /\ Owing \subseteq Callers
        /\ Waiting' \subseteq Callers /\ Owing' \subseteq Callers
    BY DEF Waiting, Owing
  <2> QED
    BY <2>1, CallersCounted
<1>5. V(1) = Cardinality(Waiting) /\ \A k \in Nat \ {0} : D(k) <= V(k) + Cardinality(Owing)
  BY DEF CountInv
<1> HIDE DEF D, V, d, v
<1>6. v(1) = Cardinality(Waiting')
  <2>1. 1 \in Nat \ {0} /\ 1 <= Len(queue) + 1
    BY <1>1
  <2> QED
    BY <1>1, <1>2, <1>5, <2>1 DEF Verdicts
<1>7. \A k \in Nat \ {0} : d(k) <= v(k) + Cardinality(Owing')
  <2> TAKE k \in Nat \ {0}
  <2>1. /\ D(k) \in Nat /\ V(k) \in Nat /\ D(k) <= V(k) + Cardinality(Owing)
        /\ d(k) = IF m.kind \in {"data"} /\ k <= Len(queue) + 1 THEN D(k) + 1 ELSE D(k)
        /\ v(k) = IF m.kind \in Verdicts /\ k <= Len(queue) + 1 THEN V(k) + 1 ELSE V(k)
    BY <1>2, <1>5
  <2>2. CASE k > Len(queue) + 1
    BY <1>3, <1>4, <2>1, <2>2
  <2>3. CASE ~(k > Len(queue) + 1)
    <3>1. k <= Len(queue) + 1
      BY <1>1, <2>3
    <3>2. CASE m.kind = "data"
      <4>1. d(k) = D(k) + 1 /\ v(k) = V(k)
        BY <2>1, <3>1, <3>2 DEF Verdicts
      <4> DEFINE w == Cardinality(Owing)
                 z == Cardinality(Owing')
      <4>2. w \in Nat /\ z \in Nat /\ z >= w + 1 /\ D(k) <= V(k) + w
        BY <1>4, <2>1, <3>2
      <4> HIDE DEF w, z
      <4>3. D(k) + 1 <= V(k) + z
        BY <2>1, <4>2
      <4> QED
        BY <4>1, <4>3 DEF z
    <3>3. CASE m.kind # "data"
      <4>1. d(k) = D(k) /\ v(k) = V(k) + 1
        BY <1>1, <2>1, <3>1, <3>3 DEF Verdicts
      <4> DEFINE w == Cardinality(Owing)
                 z == Cardinality(Owing')
      <4>2. w \in Nat /\ z \in Nat /\ z >= w - 1 /\ D(k) <= V(k) + w
        BY <1>4, <2>1
      <4> HIDE DEF w, z
      <4>3. D(k) <= V(k) + 1 + z
        BY <2>1, <4>2
      <4> QED
        BY <4>1, <4>3 DEF z
    <3> QED
      BY <3>2, <3>3
  <2> QED
    BY <2>2, <2>3
<1> QED
  BY <1>6, <1>7 DEF CountInv, d, v

\* One message less, the first.
LEMMA CountTaken ==
    ASSUME TypeOK, CountInv, queue # << >>, queue' = Tail(queue), Owing' = Owing,
           Cardinality(Waiting') =
             IF Head(queue).kind = "data" THEN Cardinality(Waiting)
                                          ELSE Cardinality(Waiting) - 1,
           \A c \in Callers : pc'[c] # "idle" => requests' > 0
    PROVE  CountInv'
<1>1. queue \in Seq(Messages) /\ Head(queue).kind \in {"data", "ack", "error"}
  <2>1. queue \in Seq(Messages)
    BY QueueIsSeq
  <2>2. Head(queue) \in Messages
    BY <2>1
  <2> QED
    BY <2>1, <2>2 DEF Messages
<1>2. \A k \in Nat \ {0} :
         /\ Cardinality(At(queue', k, {"data"})) = Cardinality(At(queue, k + 1, {"data"}))
         /\ Cardinality(At(queue', k, Verdicts)) = Cardinality(At(queue, k + 1, Verdicts))
  BY <1>1, AtTail
<1>3. Cardinality(At(queue', 1, Verdicts)) = Cardinality(Waiting')
  <2>1. Cardinality(At(queue', 1, Verdicts)) = Cardinality(At(queue, 2, Verdicts))
    BY <1>2
  <2>2. Cardinality(At(queue, 1, Verdicts)) =
          IF Head(queue).kind \in Verdicts THEN Cardinality(At(queue, 2, Verdicts)) + 1
                                           ELSE Cardinality(At(queue, 2, Verdicts))
    BY <1>1, AtHead
  <2>3. Cardinality(At(queue, 2, Verdicts)) \in Nat
    <3>1. 2 \in Nat \ {0}
      OBVIOUS
    <3> QED
      BY <1>1, <3>1, AtFinite
  <2>4. Cardinality(At(queue, 1, Verdicts)) = Cardinality(Waiting)
    BY DEF CountInv
  <2> QED
    BY <1>1, <2>1, <2>2, <2>3, <2>4 DEF Verdicts
<1>4. \A k \in Nat \ {0} :
         Cardinality(At(queue', k, {"data"}))
           <= Cardinality(At(queue', k, Verdicts)) + Cardinality(Owing')
  <2> TAKE k \in Nat \ {0}
  <2>1. k + 1 \in Nat \ {0}
    OBVIOUS
  <2>2. Cardinality(At(queue, k + 1, {"data"}))
          <= Cardinality(At(queue, k + 1, Verdicts)) + Cardinality(Owing)
    BY <2>1 DEF CountInv
  <2> QED
    BY <1>2, <2>2
<1> QED
  BY <1>3, <1>4 DEF CountInv

\* Begin leaves the counts alone: the caller had no request, and has sent nothing.
LEMMA CountBegun ==
    ASSUME TypeOK, CountInv, NEW c \in Callers, Begin(c), queue' = queue,
           pc' = pc \/ pc' = [pc EXCEPT ![c] = "sending"]
    PROVE  CountInv'
<1>1. requests \in Nat /\ requests' = requests + 1
  BY DEF TypeOK, Begin
<1>2. pc \in [Callers -> {"idle", "sending", "waiting"}] /\ pc[c] = "idle"
  BY DEF TypeOK, Begin
<1>3. Waiting' = Waiting
  BY <1>2 DEF Waiting
<1>4. Owing' = Owing
  <2>1. \A d \in Callers : d # c => answered'[d] = answered[d] /\ pc'[d] = pc[d]
    BY <1>2 DEF TypeOK, Begin
  <2>2. c \notin Owing
    BY <1>2 DEF Owing
  <2>3. ~answered'[c].sent
    BY DEF TypeOK, Begin, NotAnswered
  <2> QED
    BY <2>1, <2>2, <2>3 DEF Owing
<1>5. \A k : At(queue', k, Verdicts) = At(queue, k, Verdicts)
             /\ At(queue', k, {"data"}) = At(queue, k, {"data"})
  OBVIOUS
<1> QED
  BY <1>1, <1>3, <1>4, <1>5 DEF CountInv

LEMMA StepCounts ==
    ASSUME TypeOK, CountInv, [Next]_vars
    PROVE  CountInv'
<1>0. CASE UNCHANGED vars
  BY <1>0 DEF vars, CountInv, Waiting, Owing, At
<1> SUFFICES ASSUME NEW c \in Callers,
                    \/ Send(c) \/ RequestFails(c) \/ AllocFails(c)
                    \/ KernelQueuesData(c) \/ Proceeds(c)
             PROVE  CountInv'
  BY <1>0 DEF Next
<1>1. /\ pc \in [Callers -> {"idle", "sending", "waiting"}] /\ requests \in Nat
      /\ queue \in Seq(Messages)
      /\ answered \in [Callers -> [sent : BOOLEAN,
                                   values : Seq(Callers \X (1..MaxRequests) \X (1..MaxItems)),
                                   verdict : {"none", "ack", "error"}]]
  BY QueueIsSeq DEF TypeOK
<1>2. CASE Send(c) \/ RequestFails(c) \/ AllocFails(c)
  <2>1. Begin(c) /\ queue' = queue /\ (pc' = pc \/ pc' = [pc EXCEPT ![c] = "sending"])
    BY <1>2 DEF Send, RequestFails, AllocFails
  <2> QED
    BY <2>1, CountBegun
<1>3. /\ IsFiniteSet(Waiting) /\ IsFiniteSet(Owing)
      /\ Cardinality(Waiting) \in Nat /\ Cardinality(Owing) \in Nat
  <2>1. Waiting \subseteq Callers /\ Owing \subseteq Callers
    BY DEF Waiting, Owing
  <2> QED
    BY <2>1, CallersCounted
<1>4. CASE KernelQueuesData(c)
  <2>1. PICK values \in DriverValues(c, requests, query[c]) :
           /\ queue' = Append(queue, Message("data", c, DriverAnswer(query[c], values)))
           /\ answered' = [answered EXCEPT ![c].sent = TRUE, ![c].values = values]
    BY <1>4 DEF KernelQueuesData
  <2>2. /\ pc[c] = "sending" /\ ~answered[c].sent /\ query[c].class # "order"
        /\ pc' = pc /\ requests' = requests
    BY <1>4 DEF KernelQueuesData
  <2>3. Message("data", c, DriverAnswer(query[c], values)) \in Messages
    <3>1. query[c] \in Queries
      BY <2>2 DEF TypeOK, Query
    <3>2. requests \in 1..MaxRequests
      <4>1. requests > 0
        BY <2>2 DEF CountInv
      <4>2. requests \in 0..MaxRequests
        BY DEF TypeOK
      <4> QED
        BY <4>1, <4>2
    <3>3. DriverAnswer(query[c], values) \in Answers
      BY <2>2, <3>1, <3>2, IsAnswer
    <3> QED
      BY <3>3 DEF Messages, Message
  <2>4. Waiting' = Waiting /\ Owing' = Owing \cup {c} /\ c \notin Owing
    BY <1>1, <2>1, <2>2 DEF Waiting, Owing
  <2>5. Cardinality(Owing') = Cardinality(Owing) + 1
    BY <1>3, <2>4, FS_AddElement
  <2>6. \A d \in Callers : pc'[d] # "idle" => requests' > 0
    BY <2>2 DEF CountInv
  <2> DEFINE m == Message("data", c, DriverAnswer(query[c], values))
             dW == 0
             dO == 1
  <2>7. /\ m \in Messages /\ queue' = Append(queue, m) /\ m.kind = "data"
        /\ dW \in {0, 1} /\ dO \in {-1, 0, 1}
        /\ Cardinality(Waiting') = Cardinality(Waiting) + dW
        /\ Cardinality(Owing') >= Cardinality(Owing) + dO
        /\ dW = 0 /\ dO = 1
    BY <1>3, <2>1, <2>3, <2>4, <2>5 DEF Message
  <2> HIDE DEF m, dW, dO
  <2> QED
    BY <2>6, <2>7, CountAppended
<1>5. CASE KernelAnswers(c)
  <2>1. PICK kind \in {"ack", "error"} :
           /\ queue' = Append(queue, Message(kind, c, Silence))
           /\ answered' = [answered EXCEPT ![c].verdict = kind]
    BY <1>5 DEF KernelAnswers
  <2>2. /\ pc[c] = "sending" /\ pc' = [pc EXCEPT ![c] = "waiting"] /\ requests' = requests
    BY <1>5 DEF KernelAnswers
  <2>3. Message(kind, c, Silence) \in Messages
    BY DEF Messages, Message
  <2>4. /\ Waiting' = Waiting \cup {c} /\ c \notin Waiting
        /\ Owing' = Owing \ {c}
    BY <1>1, <2>1, <2>2 DEF Waiting, Owing
  <2>5. Cardinality(Waiting') = Cardinality(Waiting) + 1
    BY <1>3, <2>4, FS_AddElement
  <2>6. Cardinality(Owing') >= Cardinality(Owing) + (-1)
    <3>1. Cardinality(Owing \ {c}) = IF c \in Owing THEN Cardinality(Owing) - 1
                                                    ELSE Cardinality(Owing)
      BY <1>3, FS_RemoveElement
    <3> QED
      BY <1>3, <2>4, <3>1
  <2>7. \A d \in Callers : pc'[d] # "idle" => requests' > 0
    BY <1>1, <2>2 DEF CountInv
  <2> DEFINE m == Message(kind, c, Silence)
             dW == 1
             dO == -1
  <2>8. /\ m \in Messages /\ queue' = Append(queue, m) /\ m.kind # "data"
        /\ dW \in {0, 1} /\ dO \in {-1, 0, 1}
        /\ Cardinality(Waiting') = Cardinality(Waiting) + dW
        /\ Cardinality(Owing') >= Cardinality(Owing) + dO
        /\ dW = 1
    BY <1>3, <2>1, <2>3, <2>5, <2>6 DEF Message
  <2> HIDE DEF m, dW, dO
  <2> QED
    BY <2>7, <2>8, CountAppended
<1>6. CASE response_handler(c)
  <2>1. /\ pc' = pc /\ answered' = answered /\ requests' = requests
        /\ queue # << >> /\ queue' = Tail(queue) /\ Head(queue).kind = "data"
    BY <1>6 DEF response_handler, Awaits
  <2>2. Waiting' = Waiting /\ Owing' = Owing
    BY <2>1 DEF Waiting, Owing
  <2>3. \A d \in Callers : pc'[d] # "idle" => requests' > 0
    BY <2>1 DEF CountInv
  <2> QED
    BY <2>1, <2>2, <2>3, CountTaken
<1>7. CASE ack_handler(c) \/ error_handler(c)
  <2>1. /\ pc' = [pc EXCEPT ![c] = "idle"] /\ answered' = answered /\ requests' = requests
        /\ queue # << >> /\ queue' = Tail(queue) /\ Head(queue).kind # "data"
        /\ pc[c] = "waiting"
    BY <1>7 DEF ack_handler, error_handler, Awaits, Ends
  <2>2. Waiting' = Waiting \ {c} /\ c \in Waiting /\ Owing' = Owing
    BY <1>1, <2>1 DEF Waiting, Owing
  <2>3. Cardinality(Waiting') = Cardinality(Waiting) - 1
    BY <1>3, <2>2, FS_RemoveElement
  <2>4. \A d \in Callers : pc'[d] # "idle" => requests' > 0
    BY <1>1, <2>1 DEF CountInv
  <2> QED
    BY <2>1, <2>2, <2>3, <2>4, CountTaken
<1> QED
  BY <1>2, <1>4, <1>5, <1>6, <1>7 DEF Proceeds

-----------------------------------------------------------------------------
(***************************************************************************)
(* The types.                                                              *)
(***************************************************************************)

\* Nothing but the counts bounds the socket and empties it.
LEMMA SocketBounded ==
    queue \in Seq(Messages) /\ CountInv
      => Len(queue) <= 2 * Cardinality(Callers) /\ NothingLeftOver
<1> SUFFICES ASSUME queue \in Seq(Messages), CountInv
             PROVE  Len(queue) <= 2 * Cardinality(Callers) /\ NothingLeftOver
  OBVIOUS
<1>1. Waiting \subseteq Callers /\ Owing \subseteq Callers /\ Waiting \cap Owing = {}
  BY DEF Waiting, Owing
<1>2. /\ Cardinality(At(queue, 1, Verdicts)) = Cardinality(Waiting)
      /\ Cardinality(At(queue, 1, {"data"}))
           <= Cardinality(At(queue, 1, Verdicts)) + Cardinality(Owing)
  BY DEF CountInv
<1>3. /\ Len(queue) <= 2 * Cardinality(Callers)
      /\ Waiting = {} /\ Owing = {} => queue = << >>
  BY <1>1, <1>2, QueueBounded
<1> QED
  BY <1>3 DEF NothingLeftOver, Out, Waiting, Owing

LEMMA InitRequest == Init => TypeOK /\ CountInv
<1> SUFFICES ASSUME Init PROVE TypeOK /\ CountInv
  OBVIOUS
<1>1. queue = << >> /\ queue \in Seq(Messages)
  BY DEF Init
<1>2. CountInv
  <2>1. \A k \in Nat \ {0} : At(queue, k, Verdicts) = {} /\ At(queue, k, {"data"}) = {}
    BY <1>1 DEF At
  <2>2. Waiting = {} /\ Owing = {}
    BY DEF Init, Waiting, Owing
  <2>3. Cardinality({}) = 0
    BY FS_EmptySet
  <2>4. \A c \in Callers : pc[c] = "idle"
    BY DEF Init
  <2> QED
    <3>1. 1 \in Nat \ {0} /\ 0 <= 0 + 0
      OBVIOUS
    <3> QED
      BY <2>1, <2>2, <2>3, <2>4, <3>1 DEF CountInv
<1>3. TypeOK
  <2>1. Len(queue) <= 2 * Cardinality(Callers)
    BY <1>1, <1>2, SocketBounded
  <2>2. requests \in 0..MaxRequests
    BY RequestAssumption DEF Init
  <2>3. \A i \in 1..Len(queue) : FALSE
    BY <1>1
  <2>4. << >> \in Seq(Callers \X (1..MaxRequests) \X (1..MaxItems))
    OBVIOUS
  <2> QED
    BY <1>1, <2>1, <2>2, <2>3, <2>4 DEF Init, TypeOK, Messages, NotAnswered
<1> QED
  BY <1>2, <1>3

\* What a caller's steps do to the socket.
LEMMA QueueStep ==
    ASSUME TypeOK, CountInv, NEW c \in Callers,
           \/ Send(c) \/ RequestFails(c) \/ AllocFails(c)
           \/ KernelQueuesData(c) \/ Proceeds(c)
    PROVE  /\ queue' \in Seq(Messages)
           /\ \A i \in 1..Len(queue') : queue'[i].kind = "data" <=> queue'[i].answer # Silence
<1> DEFINE Fits(m) == m \in Messages /\ (m.kind = "data" <=> m.answer # Silence)
<1>1. queue \in Seq(Messages) /\ \A i \in 1..Len(queue) : Fits(queue[i])
  <2>1. queue \in Seq(Messages)
    BY QueueIsSeq
  <2> QED
    BY <2>1 DEF TypeOK
<1>2. CASE queue' = queue
  BY <1>1, <1>2
<1>3. CASE \E m : Fits(m) /\ queue' = Append(queue, m)
  <2>1. PICK m : Fits(m) /\ queue' = Append(queue, m)
    BY <1>3
  <2> HIDE DEF Fits
  <2>2. m \in Messages
    BY <2>1 DEF Fits
  <2>3. queue' \in Seq(Messages) /\ \A i \in 1..Len(queue') : Fits(queue'[i])
    BY <1>1, <2>1, <2>2
  <2> QED
    BY <2>3 DEF Fits
<1>4. CASE queue # << >> /\ queue' = Tail(queue)
  <2> HIDE DEF Fits
  <2>1. queue' \in Seq(Messages) /\ \A i \in 1..Len(queue') : Fits(queue'[i])
    BY <1>1, <1>4
  <2> QED
    BY <2>1 DEF Fits
<1>5. CASE KernelQueuesData(c)
  <2>1. PICK values \in DriverValues(c, requests, query[c]) :
           queue' = Append(queue, Message("data", c, DriverAnswer(query[c], values)))
    BY <1>5 DEF KernelQueuesData
  <2>2. pc[c] = "sending" /\ query[c].class # "order"
    BY <1>5 DEF KernelQueuesData
  <2>3. query[c] \in Queries
    BY <2>2 DEF TypeOK, Query
  <2>4. requests \in 1..MaxRequests
    <3>1. requests > 0
      BY <2>2 DEF CountInv
    <3>2. requests \in 0..MaxRequests
      BY DEF TypeOK
    <3> QED
      BY <3>1, <3>2
  <2>5. DriverAnswer(query[c], values) \in Answers
    BY <2>2, <2>3, <2>4, IsAnswer
  <2>6. DriverAnswer(query[c], values) # Silence
    BY <2>5, AnswerNotSilent
  <2>7. Fits(Message("data", c, DriverAnswer(query[c], values)))
    BY <2>5, <2>6 DEF Messages, Message
  <2> QED
    BY <1>3, <2>1, <2>7
<1>6. CASE KernelAnswers(c)
  <2>1. PICK kind \in {"ack", "error"} : queue' = Append(queue, Message(kind, c, Silence))
    BY <1>6 DEF KernelAnswers
  <2>2. Fits(Message(kind, c, Silence))
    BY DEF Messages, Message
  <2> QED
    BY <1>3, <2>1, <2>2
<1> QED
  BY <1>2, <1>4, <1>5, <1>6
  DEF Send, RequestFails, AllocFails, Proceeds, response_handler, ack_handler, error_handler,
      Awaits

LEMMA StepTyped ==
    ASSUME TypeOK, CountInv, [Next]_vars
    PROVE  TypeOK'
<1>1. CASE UNCHANGED vars
  BY <1>1 DEF vars, TypeOK
<1> SUFFICES ASSUME NEW c \in Callers,
                    \/ Send(c) \/ RequestFails(c) \/ AllocFails(c)
                    \/ KernelQueuesData(c) \/ Proceeds(c)
             PROVE  TypeOK'
  BY <1>1 DEF Next
<1>2. /\ queue' \in Seq(Messages)
      /\ \A i \in 1..Len(queue') : queue'[i].kind = "data" <=> queue'[i].answer # Silence
  BY QueueStep
<1>3. Len(queue') <= 2 * Cardinality(Callers)
  <2>1. CountInv'
    BY StepCounts DEF Next
  <2>2. /\ Cardinality(At(queue', 1, Verdicts)) = Cardinality(Waiting')
        /\ Cardinality(At(queue', 1, {"data"}))
             <= Cardinality(At(queue', 1, Verdicts)) + Cardinality(Owing')
    BY <2>1 DEF CountInv
  <2>3. Waiting' \subseteq Callers /\ Owing' \subseteq Callers /\ Waiting' \cap Owing' = {}
    BY DEF Waiting, Owing
  <2> QED
    BY <1>2, <2>2, <2>3, QueueBounded
<1> DEFINE Answered == [sent : BOOLEAN,
                        values : Seq(Callers \X (1..MaxRequests) \X (1..MaxItems)),
                        verdict : {"none", "ack", "error"}]
<1>4. /\ pc \in [Callers -> {"idle", "sending", "waiting"}]
      /\ query \in [Callers -> Queries \cup {Query("order", 1)}]
      /\ handled \in [Callers -> SUBSET Callers]
      /\ DOMAIN out = Callers
      /\ answered \in [Callers -> Answered]
      /\ result \in [Callers -> {"none", "ok", "failed"}]
      /\ overlapped \in [Callers -> BOOLEAN]
      /\ requests \in 0..MaxRequests
  BY DEF TypeOK
<1>5. NotAnswered \in Answered
  BY DEF NotAnswered
<1> HIDE DEF Answered
<1> SUFFICES /\ pc' \in [Callers -> {"idle", "sending", "waiting"}]
             /\ query' \in [Callers -> Queries \cup {Query("order", 1)}]
             /\ handled' \in [Callers -> SUBSET Callers]
             /\ DOMAIN out' = Callers
             /\ answered' \in [Callers -> Answered]
             /\ result' \in [Callers -> {"none", "ok", "failed"}]
             /\ overlapped' \in [Callers -> BOOLEAN]
             /\ requests' \in 0..MaxRequests
  BY <1>2, <1>3 DEF TypeOK, Messages, Answered
<1>6. ASSUME Begin(c)
      PROVE  /\ query' \in [Callers -> Queries \cup {Query("order", 1)}]
             /\ handled' \in [Callers -> SUBSET Callers]
             /\ DOMAIN out' = Callers
             /\ answered' \in [Callers -> Answered]
             /\ requests' \in 0..MaxRequests
  BY <1>4, <1>5, <1>6, RequestAssumption DEF Begin
<1>7. CASE Send(c)
  <2>1. overlapped' \in [Callers -> BOOLEAN]
    <3>1. overlapped' = [d \in Callers |-> CASE d = c   -> Out # {}
                                             [] d \in Out -> TRUE
                                             [] OTHER   -> overlapped[d]]
      BY <1>7 DEF Send
    <3>2. (Out # {}) \in BOOLEAN
      OBVIOUS
    <3> QED
      BY <1>4, <3>1, <3>2
  <2>2. pc' \in [Callers -> {"idle", "sending", "waiting"}]
        /\ result' \in [Callers -> {"none", "ok", "failed"}]
    BY <1>4, <1>7 DEF Send
  <2> QED
    BY <1>6, <1>7, <2>1, <2>2 DEF Send
<1>8. CASE RequestFails(c) \/ AllocFails(c)
  <2>1. /\ Begin(c) /\ pc' = pc /\ overlapped' = overlapped
        /\ result' \in [Callers -> {"none", "ok", "failed"}]
    BY <1>4, <1>8 DEF RequestFails, AllocFails
  <2> QED
    BY <1>4, <1>6, <2>1
<1>9. CASE KernelQueuesData(c)
  <2>1. PICK values \in DriverValues(c, requests, query[c]) :
           answered' = [answered EXCEPT ![c].sent = TRUE, ![c].values = values]
    BY <1>9 DEF KernelQueuesData
  <2>2. requests \in 1..MaxRequests
    <3>1. requests > 0
      BY <1>9 DEF CountInv, KernelQueuesData
    <3> QED
      BY <1>4, <3>1
  <2>3. values \in Seq(Callers \X (1..MaxRequests) \X (1..MaxItems))
    BY <2>2, ValuesAreSeq
  <2>4. answered' \in [Callers -> Answered]
    <3> DEFINE a == [answered[c] EXCEPT !.sent = TRUE, !.values = values]
               b == answered[c]
    <3>1. a \in Answered
      <4>1. b \in Answered
        BY <1>4
      <4> HIDE DEF b
      <4>2. [b EXCEPT !.sent = TRUE, !.values = values] \in Answered
        BY <2>3, <4>1 DEF Answered
      <4> QED
        BY <4>2, Zenon DEF b
    <3>2. answered' = [answered EXCEPT ![c] = a]
      BY <1>4, <2>1
    <3> HIDE DEF a
    <3> QED
      BY <1>4, <3>1, <3>2
  <2> QED
    BY <1>4, <1>9, <2>4 DEF KernelQueuesData
<1>10. CASE KernelAnswers(c)
  <2>1. PICK kind \in {"ack", "error"} : answered' = [answered EXCEPT ![c].verdict = kind]
    BY <1>10 DEF KernelAnswers
  <2>2. answered' \in [Callers -> Answered]
    <3> DEFINE a == [answered[c] EXCEPT !.verdict = kind]
               b == answered[c]
    <3>1. a \in Answered
      <4>1. b \in Answered
        BY <1>4
      <4> HIDE DEF b
      <4>2. [b EXCEPT !.verdict = kind] \in Answered
        BY <2>1, <4>1 DEF Answered
      <4> QED
        BY <4>2, Zenon DEF b
    <3>2. answered' = [answered EXCEPT ![c] = a]
      BY <1>4, <2>1
    <3> HIDE DEF a
    <3> QED
      BY <1>4, <3>1, <3>2
  <2> QED
    BY <1>4, <1>10, <2>2 DEF KernelAnswers
<1>11. CASE response_handler(c)
  <2>1. Head(queue).of \in Callers
    <3>1. queue \in Seq(Messages) /\ queue # << >>
      BY <1>11, QueueIsSeq DEF response_handler, Awaits
    <3>2. Head(queue) \in Messages
      BY <3>1
    <3> QED
      BY <3>2 DEF Messages
  <2> QED
    BY <1>4, <1>11, <2>1 DEF response_handler
<1>12. CASE ack_handler(c) \/ error_handler(c)
  BY <1>4, <1>12 DEF ack_handler, error_handler, Ends
<1> QED
  BY <1>7, <1>8, <1>9, <1>10, <1>11, <1>12 DEF Proceeds

LEMMA RequestInvariance == Spec => [](TypeOK /\ CountInv)
<1>1. TypeOK /\ CountInv /\ [Next]_vars => (TypeOK /\ CountInv)'
  BY StepTyped, StepCounts
<1> QED
  BY <1>1, InitRequest, PTL DEF Spec

-----------------------------------------------------------------------------
(***************************************************************************)
(* Theorems about the socket.                                              *)
(***************************************************************************)

\* For any number of threads, every variable keeps its type, and cmd_sock never
\* holds more than two messages for each thread.
THEOREM RequestTypeCorrect == Spec => []TypeOK
BY RequestInvariance, PTL

\* Whenever no thread is in requestResponse, cmd_sock is empty, whatever answers
\* the threads before took from one another.
THEOREM SocketEmptyAtRest == Spec => []NothingLeftOver
<1>1. TypeOK /\ CountInv => NothingLeftOver
  BY QueueIsSeq, SocketBounded
<1> QED
  BY <1>1, RequestInvariance, PTL

-----------------------------------------------------------------------------
(***************************************************************************)
(* The loops over the attributes of a reply.                               *)
(***************************************************************************)

\* Whatever holds at 0 and from each number to the next holds up to n.
LEMMA UpTo ==
    ASSUME NEW n \in Nat, NEW S, 0 \in S, \A k \in 0..(n - 1) : k \in S => k + 1 \in S
    PROVE  \A k \in 0..n : k \in S
<1> SUFFICES ASSUME NEW k \in 0..n, k \notin S PROVE FALSE
  OBVIOUS
<1> DEFINE T == {i \in 0..n : i \notin S}
<1>1. T \subseteq Nat /\ T # {}
  OBVIOUS
<1>2. PICK x \in T : \A y \in T : ~ (<<y, x>> \in OpToRel(<, Nat))
  BY <1>1, NatLessThanWellFounded, WFMin, Zenon
<1>3. x \in Nat \ {0} /\ x - 1 \in 0..(n - 1)
  OBVIOUS
<1>4. x - 1 \notin S
  BY <1>3
<1>5. x - 1 \in T /\ x - 1 \in Nat /\ x \in Nat /\ x - 1 < x
  BY <1>3, <1>4
<1> HIDE DEF T
<1>6. <<x - 1, x>> \in OpToRel(<, Nat)
  BY <1>5 DEF OpToRel
<1> QED
  BY <1>2, <1>5, <1>6

\* The loop begins with nothing read and goes on attribute by attribute.
LEMMA Reading ==
    ASSUME NEW q, NEW o, NEW answer, Len(answer) \in Nat,
           NEW s, s = AttributesRead(q, o, answer)
    PROVE  /\ s[0] = Progress(0, 0, o.num, o.items)
           /\ \A k \in 1..Len(answer) : s[k] = AttributeRead(q, s[k - 1], answer[k])
<1> DEFINE b == Progress(0, 0, o.num, o.items)
           Is(t, n) == t = [k \in 0..n |-> IF k = 0 THEN b ELSE AttributeRead(q, t[k - 1], answer[k])]
           L == Len(answer)
           S == {n \in Nat : \E t : Is(t, n)}
<1>1. 0 \in S
  <2>1. Is([k \in 0..0 |-> b], 0)
    OBVIOUS
  <2> HIDE DEF Is
  <2> QED
    BY <2>1
<1>2. ASSUME NEW n \in 0..(L - 1), n \in S PROVE n + 1 \in S
  <2>1. PICK g : Is(g, n)
    BY <1>2
  <2> DEFINE t == [k \in 0..(n + 1) |-> IF k <= n THEN g[k] ELSE AttributeRead(q, g[n], answer[n + 1])]
  <2>2. \A k \in 0..(n + 1) : t[k] = IF k = 0 THEN b ELSE AttributeRead(q, t[k - 1], answer[k])
    <3> TAKE k \in 0..(n + 1)
    <3>1. CASE k = 0
      BY <2>1, <3>1
    <3>2. CASE k \in 1..n
      BY <2>1, <3>2
    <3>3. CASE k = n + 1
      BY <2>1, <3>3
    <3> QED
      BY <3>1, <3>2, <3>3
  <2>3. Is(t, n + 1)
    BY <2>2
  <2> HIDE DEF Is, t
  <2> QED
    BY <2>3
<1>3. L \in S
  <2> HIDE DEF S
  <2>1. L \in Nat /\ \A n \in 0..(L - 1) : n \in S => n + 1 \in S
    BY <1>2
  <2>2. \A k \in 0..L : k \in S
    BY <1>1, <2>1, UpTo
  <2> QED
    BY <2>1, <2>2
<1>4. PICK s0 : Is(s0, L)
  BY <1>3
<1>5. Is(s, L)
  BY <1>4, Zenon DEF AttributesRead
<1> QED
  BY <1>5

\* items is a buffer of max places.
HasPlaces(items, max) == items = [i \in 1..max |-> items[i]]

\* o with the first values written to its places, as many as q has room for.
Put(q, num, items, values) ==
    LET n == Least(Len(values), q.max)
    IN  [num   |-> IF q.class \in {"channels", "matrix"} THEN n ELSE num,
         items |-> [i \in 1..q.max |-> IF i <= n THEN values[i] ELSE items[i]]]

\* An answer to p is taken for one to q.
Reads(q, p) == \/ q.class = p.class
               \/ q.class \in {"gscan", "rtt"} /\ p.class \in {"gscan", "rtt"}

\* One attribute, case by case.
LEMMA ProgressFacts ==
    ASSUME NEW n, NEW i, NEW num, NEW items
    PROVE  LET s == Progress(n, i, num, items)
           IN  s.n = n /\ s.i = i /\ s.num = num /\ s.items = items
BY DEF Progress

LEMMA ChannelAttributeFacts ==
    ASSUME NEW max, NEW n, NEW i, NEW num, NEW items, NEW a, NEW s,
           s = Progress(n, i, num, items)
    PROVE  /\ a.type = 2 =>
                ChannelAttribute(max, s, a) =
                  Progress(Least(a.number, max), i, Least(a.number, max), items)
           /\ a.type = 3 /\ n # 0 =>
                ChannelAttribute(max, s, a) = Progress(n, i, num, Copied(items, n, a.values))
           /\ a.type = 3 /\ n = 0 => ChannelAttribute(max, s, a) = s
           /\ a.type \notin {2, 3} => ChannelAttribute(max, s, a) = s
BY ProgressFacts DEF ChannelAttribute, NUM_CHANNELS, CHANNEL_LIST

LEMMA FeatureAttributeFacts ==
    ASSUME NEW max \in Nat \ {0}, NEW n \in Nat, NEW i \in Nat, NEW num, NEW items, NEW a,
           NEW s, s = Progress(n, i, num, items)
    PROVE  /\ a.type = 4 =>
                FeatureAttribute(max, s, a) =
                  Progress(Least(a.number, max), i, Least(a.number, max), items)
           /\ a.type = 5 /\ i < n =>
                FeatureAttribute(max, s, a) =
                  Progress(n, i + 1, num, Written(items, i + 1, a.values[1]))
           /\ a.type = 5 /\ ~(i < n) => FeatureAttribute(max, s, a) = s
           /\ a.type \notin {4, 5} => FeatureAttribute(max, s, a) = s
BY ProgressFacts DEF FeatureAttribute, NUM_FEATURE_SET, FEATURE_SET

\* A list of channels fills the caller's buffer as far as it goes.
LEMMA ChannelsRead ==
    ASSUME NEW q, q.class = "channels", q.max \in Nat, NEW num, NEW items,
           HasPlaces(items, q.max),
           NEW p, p.class = "channels", NEW V, NEW values \in Seq(V),
           NEW o, o.num = num, o.items = items
    PROVE  GetChannelList(q, o, DriverAnswer(p, values)) = Put(q, num, items, values)
<1> DEFINE a == DriverAnswer(p, values)
           s == AttributesRead(q, o, a)
           n == Least(Len(values), q.max)
           f == [i \in 1..q.max |-> IF i <= n THEN values[i] ELSE items[i]]
<1>1. a = <<Number(NUM_CHANNELS, Len(values)), Attribute(CHANNEL_LIST, values)>>
  BY DEF DriverAnswer
<1>2. n \in Nat /\ n <= q.max /\ n <= Len(values) /\ Len(values) \in Nat
  BY DEF Least
<1>3. /\ Len(a) = 2 /\ a[1].type = 2 /\ a[1].number = Len(values)
      /\ a[2].type = 3 /\ a[2].values = values
  BY <1>1 DEF Number, Attribute, NUM_CHANNELS, CHANNEL_LIST
<1> HIDE DEF a
<1>4. /\ s[0] = Progress(0, 0, num, items)
      /\ \A k \in 1..Len(a) : s[k] = AttributeRead(q, s[k - 1], a[k])
  <2>1. Len(a) \in Nat
    BY <1>3
  <2> HIDE DEF s
  <2> QED
    BY <2>1, Reading DEF s
<1>5. s[1] = ChannelAttribute(q.max, s[0], a[1]) /\ s[2] = ChannelAttribute(q.max, s[1], a[2])
  <2> HIDE DEF s
  <2> QED
    BY <1>3, <1>4 DEF AttributeRead
<1>6. GetChannelList(q, o, a) = [num |-> s[2].num, items |-> s[2].items]
  BY <1>3 DEF GetChannelList, BufferRead
<1> HIDE DEF s, n, f
<1>7. s[1] = Progress(n, 0, n, items)
  BY <1>3, <1>4, <1>5, ChannelAttributeFacts DEF n
<1>8. s[2] = Progress(n, 0, n, f)
  <2>1. CASE n = 0
    <3>1. f = items
      BY <2>1 DEF f, HasPlaces
    <3>2. s[2] = s[1]
      BY <1>3, <1>5, <1>7, <2>1, ChannelAttributeFacts
    <3> QED
      BY <1>7, <3>1, <3>2
  <2>2. CASE n # 0
    <3>1. Copied(items, n, values) = f
      <4>1. DOMAIN items \cup 1..n = 1..q.max
        BY <1>2 DEF HasPlaces
      <4>2. \A i \in 1..q.max :
               (IF i > n THEN items[i] ELSE IF i <= Len(values) THEN values[i] ELSE Junk)
                 = IF i <= n THEN values[i] ELSE items[i]
        BY <1>2
      <4> QED
        BY <4>1, <4>2 DEF Copied, f
    <3>2. s[2] = Progress(n, 0, n, Copied(items, n, values))
      BY <1>3, <1>5, <1>7, <2>2, ChannelAttributeFacts
    <3> QED
      BY <3>1, <3>2
  <2> QED
    BY <2>1, <2>2
<1>9. GetChannelList(q, o, a) = [num |-> n, items |-> f]
  BY <1>6, <1>8, ProgressFacts
<1>10. Put(q, num, items, values) = [num |-> n, items |-> f]
  BY Zenon DEF Put, n, f
<1> QED
  BY <1>9, <1>10 DEF a

\* So do the sets of a matrix.
LEMMA SetsRead ==
    ASSUME NEW q, q.class = "matrix", q.max \in Nat \ {0}, NEW num, NEW items,
           HasPlaces(items, q.max),
           NEW p, p.class = "matrix", NEW V, NEW values \in Seq(V),
           NEW o, o.num = num, o.items = items
    PROVE  GetFeatureSet(q, o, DriverAnswer(p, values)) = Put(q, num, items, values)
<1> DEFINE a == DriverAnswer(p, values)
           s == AttributesRead(q, o, a)
           l == Len(values)
           n == Least(l, q.max)
           f(j) == [i \in 1..q.max |-> IF i <= j THEN values[i] ELSE items[i]]
<1>1. a = [i \in 1..(l + 1) |-> IF i = 1 THEN Number(NUM_FEATURE_SET, l)
                                         ELSE Attribute(FEATURE_SET, <<values[i - 1]>>)]
  BY DEF DriverAnswer
<1>2. n \in Nat /\ n <= q.max /\ n <= l /\ l \in Nat
  BY DEF Least
<1>3. /\ Len(a) = l + 1 /\ a[1].type = 4 /\ a[1].number = l
      /\ \A j \in 1..l : a[j + 1].type = 5 /\ a[j + 1].values[1] = values[j]
  <2>1. Len(a) = l + 1 /\ a[1] = Number(NUM_FEATURE_SET, l)
    BY <1>1, <1>2
  <2>2. \A j \in 1..l : a[j + 1] = Attribute(FEATURE_SET, <<values[j]>>)
    BY <1>1, <1>2
  <2> HIDE DEF a
  <2>3. a[1].type = 4 /\ a[1].number = l
    BY <2>1 DEF Number, NUM_FEATURE_SET
  <2>4. ASSUME NEW j \in 1..l PROVE a[j + 1].type = 5 /\ a[j + 1].values[1] = values[j]
    <3>1. a[j + 1] = [type |-> 5, number |-> 0, values |-> <<values[j]>>]
      BY <2>2 DEF Attribute, FEATURE_SET
    <3> QED
      BY <3>1
  <2> QED
    BY <2>1, <2>3, <2>4
<1> HIDE DEF a
<1>4. /\ s[0] = Progress(0, 0, num, items)
      /\ \A k \in 1..Len(a) : s[k] = AttributeRead(q, s[k - 1], a[k])
  <2>1. Len(a) \in Nat
    BY <1>2, <1>3
  <2> HIDE DEF s
  <2> QED
    BY <2>1, Reading DEF s
<1>5. \A k \in 1..(l + 1) : s[k] = FeatureAttribute(q.max, s[k - 1], a[k])
  <2> HIDE DEF s
  <2> QED
    BY <1>3, <1>4 DEF AttributeRead
<1>6. GetFeatureSet(q, o, a) = [num |-> s[l + 1].num, items |-> s[l + 1].items]
  BY <1>3 DEF GetFeatureSet, BufferRead
<1> HIDE DEF s, n, f, l
<1>7. s[1] = Progress(n, 0, n, items)
  <2>1. s[1] = FeatureAttribute(q.max, s[0], a[1])
    BY <1>2, <1>5
  <2>2. s[0] = Progress(0, 0, num, items) /\ a[1].type = 4 /\ a[1].number = l
    BY <1>3, <1>4
  <2>3. 0 \in Nat
    OBVIOUS
  <2>4. FeatureAttribute(q.max, s[0], a[1]) = Progress(Least(l, q.max), 0, Least(l, q.max), items)
    <3> DEFINE x == s[0]
               y == a[1]
    <3>1. x = Progress(0, 0, num, items) /\ y.type = 4 /\ y.number = l
      BY <2>2
    <3> HIDE DEF x, y
    <3>2. FeatureAttribute(q.max, x, y) =
            Progress(Least(y.number, q.max), 0, Least(y.number, q.max), items)
      BY <2>3, <3>1, FeatureAttributeFacts, SMTT(40)
    <3> QED
      BY <3>1, <3>2, Zenon DEF x, y
  <2> QED
    BY <2>1, <2>4 DEF n
\* The j-th set goes to the j-th place, as long as there is one.
<1>8. \A j \in 0..l : s[j + 1] = Progress(n, Least(j, n), n, f(Least(j, n)))
  <2> DEFINE S == {j \in 0..l : s[j + 1] = Progress(n, Least(j, n), n, f(Least(j, n)))}
  <2>1. 0 \in S
    <3>1. Least(0, n) = 0
      BY <1>2 DEF Least
    <3>2. f(0) = items
      BY DEF f, HasPlaces
    <3>3. s[0 + 1] = Progress(n, Least(0, n), n, f(Least(0, n)))
      BY <1>7, <3>1, <3>2
    <3> QED
      BY <1>2, <3>3
  <2>2. ASSUME NEW j \in 0..(l - 1), j \in S PROVE j + 1 \in S
    <3>1. /\ j \in Nat /\ j + 1 \in 1..l /\ j + 2 \in 1..(l + 1)
          /\ s[j + 1] = Progress(n, Least(j, n), n, f(Least(j, n)))
      BY <1>2, <2>2
    <3>2. s[j + 2] = FeatureAttribute(q.max, s[j + 1], a[j + 2])
      <4>1. (j + 2) - 1 = j + 1
        BY <3>1
      <4> QED
        BY <1>5, <3>1, <4>1
    <3>3. a[j + 2].type = 5 /\ a[j + 2].values[1] = values[j + 1]
      <4>1. (j + 1) + 1 = j + 2
        BY <3>1
      <4> QED
        BY <1>3, <3>1, <4>1
    <3>4. CASE j < n
      <4>1. Least(j, n) = j /\ Least(j + 1, n) = j + 1
        BY <1>2, <3>1, <3>4 DEF Least
      <4>2. Written(f(j), j + 1, values[j + 1]) = f(j + 1)
        <5>1. DOMAIN f(j) \cup {j + 1} = 1..q.max
          BY <1>2, <3>1, <3>4 DEF f
        <5>2. \A i \in 1..q.max :
                 (IF i = j + 1 THEN values[j + 1] ELSE f(j)[i]) =
                    IF i <= j + 1 THEN values[i] ELSE items[i]
          BY <3>1 DEF f
        <5> HIDE DEF f
        <5> QED
          BY <5>1, <5>2 DEF Written, f
      <4>3. s[j + 2] = Progress(n, j + 1, n, Written(f(j), j + 1, values[j + 1]))
        BY <1>2, <3>1, <3>2, <3>3, <3>4, <4>1, FeatureAttributeFacts
      <4>4. s[j + 2] = Progress(n, j + 1, n, f(j + 1))
        BY <4>2, <4>3
      <4> QED
        BY <3>1, <4>1, <4>4
    <3>5. CASE ~(j < n)
      <4>1. Least(j, n) = n /\ Least(j + 1, n) = n
        BY <1>2, <3>1, <3>5 DEF Least
      <4>2. s[j + 2] = s[j + 1]
        BY <1>2, <3>1, <3>2, <3>3, <4>1, FeatureAttributeFacts, SMTT(40)
      <4> QED
        BY <3>1, <4>1, <4>2
    <3> QED
      BY <3>4, <3>5
  <2> HIDE DEF S
  <2>3. \A j \in 0..l : j \in S
    BY <1>2, <2>1, <2>2, UpTo
  <2> QED
    BY <2>3 DEF S
<1>9. GetFeatureSet(q, o, a) = [num |-> n, items |-> f(n)]
  <2>1. Least(l, n) = n /\ l \in 0..l
    BY <1>2 DEF Least
  <2>2. s[l + 1] = Progress(n, n, n, f(n))
    BY <1>8, <2>1
  <2> QED
    BY <1>6, <2>2, ProgressFacts
<1>10. Put(q, num, items, values) = [num |-> n, items |-> f(n)]
  BY DEF Put, n, f, l
<1> QED
  BY <1>9, <1>10 DEF a

\* An answer to a query of another kind is not taken for one's own.
Foreign(q, a) ==
    \/ q.class = "channels" /\ \A k \in 1..Len(a) : a[k].type \notin {2, 3}
    \/ q.class = "matrix" /\ \A k \in 1..Len(a) : a[k].type \notin {4, 5}

LEMMA AttributesIgnored ==
    ASSUME NEW q, q.max \in Nat \ {0}, NEW a, Len(a) \in Nat,
           NEW o, Foreign(q, a)
    PROVE  BufferRead(q, o, a) = [num |-> o.num, items |-> o.items]
<1> DEFINE s == AttributesRead(q, o, a)
           b == Progress(0, 0, o.num, o.items)
           l == Len(a)
           S == {k \in 0..l : s[k] = b}
<1>1. s[0] = b /\ \A k \in 1..l : s[k] = AttributeRead(q, s[k - 1], a[k])
  <2> HIDE DEF s
  <2> QED
    BY Reading DEF s
<1>2. ASSUME NEW k \in 0..(l - 1), k \in S PROVE k + 1 \in S
  <2> HIDE DEF s, b
  <2>1. s[k] = b /\ k + 1 \in 1..l /\ (k + 1) - 1 = k
    BY <1>2
  <2>2. s[k + 1] = AttributeRead(q, b, a[k + 1])
    BY <1>1, <2>1
  <2>3. s[k + 1] = b
    <3>1. CASE q.class = "channels"
      BY <2>1, <2>2, <3>1, ChannelAttributeFacts DEF AttributeRead, b, Foreign
    <3>2. CASE q.class = "matrix"
      BY <2>1, <2>2, <3>2, FeatureAttributeFacts DEF AttributeRead, b, Foreign
    <3> QED
      BY <3>1, <3>2 DEF Foreign
  <2> QED
    BY <2>1, <2>3
<1>3. 0 \in S
  BY <1>1
<1> HIDE DEF S
<1>4. \A k \in 0..l : k \in S
  BY <1>2, <1>3, UpTo
<1>5. s[l] = b
  BY <1>4 DEF S
<1>6. BufferRead(q, o, a) = [num |-> s[l].num, items |-> s[l].items]
  BY DEF BufferRead
<1> HIDE DEF s, l
<1> QED
  BY <1>5, <1>6, ProgressFacts

\* What the attributes of an answer are.
LEMMA AnswerTypes ==
    ASSUME NEW p, p.class \in {"channels", "matrix", "gscan", "rtt"},
           NEW V, NEW values \in Seq(V), NEW a, a = DriverAnswer(p, values)
    PROVE  /\ Len(a) \in Nat \ {0} /\ Head(a) = a[1]
           /\ p.class = "channels" => \A k \in 1..Len(a) : a[k].type \in {2, 3}
           /\ p.class = "matrix" => \A k \in 1..Len(a) : a[k].type \in {4, 5}
           /\ p.class \in {"gscan", "rtt"} =>
                 Len(a) = 1 /\ a[1].type = 1 /\ a[1].values = values
<1>0. Len(values) \in Nat
  OBVIOUS
<1>1. CASE p.class = "channels"
  <2>1. a = <<Number(NUM_CHANNELS, Len(values)), Attribute(CHANNEL_LIST, values)>>
    BY <1>1 DEF DriverAnswer
  <2>2. Len(a) = 2 /\ a[1].type = 2 /\ a[2].type = 3 /\ Head(a) = a[1]
    BY <2>1 DEF Number, Attribute, NUM_CHANNELS, CHANNEL_LIST
  <2> QED
    BY <1>1, <2>2
<1>2. CASE p.class = "matrix"
  <2>1. a = [i \in 1..(Len(values) + 1) |->
               IF i = 1 THEN Number(NUM_FEATURE_SET, Len(values))
                        ELSE Attribute(FEATURE_SET, <<values[i - 1]>>)]
    BY <1>2 DEF DriverAnswer
  <2>2. Len(a) = Len(values) + 1 /\ Head(a) = a[1]
    BY <1>0, <2>1
  <2>3. ASSUME NEW k \in 1..Len(a) PROVE a[k].type \in {4, 5}
    <3>1. a[k] = Number(NUM_FEATURE_SET, Len(values)) \/ a[k] = Attribute(FEATURE_SET, <<values[k - 1]>>)
      BY <2>1, <2>2
    <3> QED
      BY <3>1 DEF Number, Attribute, NUM_FEATURE_SET, FEATURE_SET
  <2> QED
    BY <1>0, <1>2, <2>2, <2>3
<1>3. CASE p.class \in {"gscan", "rtt"}
  <2>1. a = <<Attribute(CAPABILITIES, values)>>
    BY <1>3 DEF DriverAnswer
  <2>2. Len(a) = 1 /\ a[1].type = 1 /\ a[1].values = values /\ Head(a) = a[1]
    BY <2>1 DEF Attribute, CAPABILITIES
  <2> QED
    BY <1>3, <2>2
<1> QED
  BY <1>1, <1>2, <1>3

Taken(q, num, items, p, values) ==
    IF Reads(q, p) THEN Put(q, num, items, values) ELSE [num |-> num, items |-> items]

\* Whosever answer a caller is given, it is one of the kind he asked for, and he
\* takes from it what fits, in order, or it leaves his buffer alone.
LEMMA ResponseTaken ==
    ASSUME NEW q, q.class \in {"channels", "matrix", "gscan", "rtt", "order"},
           q.max \in Nat \ {0}, NEW num, NEW items, HasPlaces(items, q.max),
           NEW p, p.class \in {"channels", "matrix", "gscan", "rtt"},
           NEW V, NEW values \in Seq(V), p.class \in {"gscan", "rtt"} => Len(values) = 1,
           NEW o, o = [num |-> num, items |-> items]
    PROVE  handleResponse(q, o, DriverAnswer(p, values)) = Taken(q, num, items, p, values)
<1> SUFFICES handleResponse(q, o, DriverAnswer(p, values)) =
                IF Reads(q, p) THEN Put(q, num, items, values) ELSE o
  BY Zenon DEF Taken
<1> DEFINE a == DriverAnswer(p, values)
<1>1. o.num = num /\ o.items = items
  OBVIOUS
<1>2. /\ Len(a) \in Nat \ {0} /\ Head(a) = a[1]
      /\ p.class = "channels" => \A k \in 1..Len(a) : a[k].type \in {2, 3}
      /\ p.class = "matrix" => \A k \in 1..Len(a) : a[k].type \in {4, 5}
      /\ p.class \in {"gscan", "rtt"} =>
            Len(a) = 1 /\ a[1].type = 1 /\ a[1].values = values
  BY AnswerTypes
<1>3. CASE q.class = "channels"
  <2>1. handleResponse(q, o, a) = GetChannelList(q, o, a)
    BY <1>3, Zenon DEF handleResponse
  <2>2. CASE p.class = "channels"
    <3>1. GetChannelList(q, o, a) = Put(q, num, items, values)
      BY <1>1, <1>3, <2>2, ChannelsRead
    <3> QED
      BY <1>3, <2>1, <2>2, <3>1 DEF Reads
  <2>3. CASE p.class # "channels"
    <3> HIDE DEF a
    <3>1. \A k \in 1..Len(a) : a[k].type \notin {2, 3}
      BY <1>2, <2>3
    <3>2. BufferRead(q, o, a) = [num |-> num, items |-> items]
      <4>1. Len(a) \in Nat
        BY <1>2
      <4>2. Foreign(q, a)
        BY <1>3, <3>1 DEF Foreign
      <4> QED
        BY <1>1, <4>1, <4>2, AttributesIgnored
    <3> QED
      BY <1>3, <2>1, <2>3, <3>2 DEF Reads, GetChannelList, a
  <2> QED
    BY <2>2, <2>3
<1>4. CASE q.class = "matrix"
  <2>1. handleResponse(q, o, a) = GetFeatureSet(q, o, a)
    BY <1>4 DEF handleResponse
  <2>2. CASE p.class = "matrix"
    <3>1. GetFeatureSet(q, o, a) = Put(q, num, items, values)
      BY <1>1, <1>4, <2>2, SetsRead
    <3> QED
      BY <1>4, <2>1, <2>2, <3>1 DEF Reads
  <2>3. CASE p.class # "matrix"
    <3> HIDE DEF a
    <3>1. \A k \in 1..Len(a) : a[k].type \notin {4, 5}
      BY <1>2, <2>3, SMTT(40)
    <3>2. BufferRead(q, o, a) = [num |-> num, items |-> items]
      <4>1. Len(a) \in Nat
        BY <1>2
      <4>2. Foreign(q, a)
        BY <1>4, <3>1 DEF Foreign
      <4> QED
        BY <1>1, <4>1, <4>2, AttributesIgnored
    <3> QED
      BY <1>4, <2>1, <2>3, <3>2 DEF Reads, GetFeatureSet, a
  <2> QED
    BY <2>2, <2>3
<1>5. CASE q.class \in {"gscan", "rtt"}
  <2>1. handleResponse(q, o, a) = IF a[1].type = 1
                                  THEN [o EXCEPT !.items = Written(items, 1, a[1].values[1])]
                                  ELSE o
    <3> HIDE DEF a
    <3> QED
      BY <1>1, <1>2, <1>5 DEF handleResponse, GetCapabilities, GetRttCapabilities, CAPABILITIES
  <2>2. CASE p.class \in {"gscan", "rtt"}
    <3>1. handleResponse(q, o, a) = [num |-> num, items |-> Written(items, 1, values[1])]
      <4> HIDE DEF a
      <4> QED
        BY <1>2, <2>1, <2>2
    <3>2. Least(Len(values), q.max) = 1
      <4>1. Len(values) = 1 /\ q.max \in Nat \ {0}
        BY <2>2
      <4> QED
        BY <4>1 DEF Least
    <3>3. Put(q, num, items, values) =
            [num |-> num, items |-> [i \in 1..q.max |-> IF i <= 1 THEN values[i] ELSE items[i]]]
      BY <1>5, <3>2 DEF Put
    <3>4. Written(items, 1, values[1]) =
            [i \in 1..q.max |-> IF i <= 1 THEN values[i] ELSE items[i]]
      <4>1. DOMAIN items \cup {1} = 1..q.max
        BY DEF HasPlaces
      <4>2. \A i \in 1..q.max : (IF i = 1 THEN values[1] ELSE items[i])
                                   = IF i <= 1 THEN values[i] ELSE items[i]
        OBVIOUS
      <4> QED
        BY <4>1, <4>2 DEF Written
    <3> QED
      BY <1>5, <2>2, <3>1, <3>3, <3>4 DEF Reads
  <2>3. CASE p.class \in {"channels", "matrix"}
    <3>1. a[1].type \in {2, 3, 4, 5}
      <4> HIDE DEF a
      <4> QED
        BY <1>2, <2>3
    <3> QED
      BY <1>5, <2>1, <2>3, <3>1 DEF Reads
  <2> QED
    BY <2>2, <2>3
<1>6. CASE q.class = "order"
  <2>1. handleResponse(q, o, a) = o
    BY <1>6 DEF handleResponse, TakeNothing
  <2> QED
    BY <1>6, <2>1 DEF Reads
<1> QED
  BY <1>3, <1>4, <1>5, <1>6

-----------------------------------------------------------------------------
(***************************************************************************)
(* What is in a caller's buffer.                                           *)
(***************************************************************************)

\* As many places as the caller brought; and of the values he is told are there,
\* all are, and from one answer.
BufferOK(q, o) ==
    /\ o = [num |-> o.num, items |-> o.items]
    /\ HasPlaces(o.items, q.max)
    /\ o.num \in Int /\ o.num <= q.max
    /\ q.class \notin {"channels", "matrix"} => o.num = Unset
    /\ \E c \in Callers, r \in 0..MaxRequests : \A i \in 1..o.num : o.items[i] = <<c, r, i>>

BufferInv == \A c \in Callers : BufferOK(query[c], out[c])

LEMMA QueryTypes ==
    ASSUME NEW q \in Queries \cup {Query("order", 1)}
    PROVE  q.class \in {"channels", "matrix", "gscan", "rtt", "order"} /\ q.max \in Nat \ {0}
<1>1. CASE q \in Queries
  BY <1>1, RequestAssumption
<1>2. CASE q = Query("order", 1)
  BY <1>2 DEF Query
<1> QED
  BY <1>1, <1>2

LEMMA FreshOK ==
    ASSUME NEW q \in Queries \cup {Query("order", 1)}, NEW c \in Callers
    PROVE  /\ HasPlaces([i \in 1..q.max |-> Blank], q.max)
           /\ BufferOK(q, Fresh(q))
<1>1. q.max \in Nat \ {0}
  BY QueryTypes
<1>2. HasPlaces([i \in 1..q.max |-> Blank], q.max)
  BY DEF HasPlaces
<1>3. Fresh(q).num = -1 /\ Fresh(q).items = [i \in 1..q.max |-> Blank]
  BY DEF Fresh, Unset
<1>4. Fresh(q) = [num |-> Fresh(q).num, items |-> Fresh(q).items]
  BY DEF Fresh
<1>5. 0 \in 0..MaxRequests /\ \A i \in 1..Fresh(q).num : Fresh(q).items[i] = <<c, 0, i>>
  BY <1>3, RequestAssumption
<1> QED
  BY <1>1, <1>2, <1>3, <1>4, <1>5 DEF BufferOK, Unset

LEMMA PutOK ==
    ASSUME NEW q \in Queries \cup {Query("order", 1)},
           NEW num, NEW items, HasPlaces(items, q.max),
           q.class \notin {"channels", "matrix"} => num = Unset,
           NEW c \in Callers, NEW r \in 1..MaxRequests, NEW p,
           NEW values \in DriverValues(c, r, p)
    PROVE  BufferOK(q, Put(q, num, items, values))
<1> DEFINE n == Least(Len(values), q.max)
           f == [i \in 1..q.max |-> IF i <= n THEN values[i] ELSE items[i]]
           o == Put(q, num, items, values)
<1>1. PICK m \in 0..MaxItems : values = [i \in 1..m |-> <<c, r, i>>]
  BY DriverValuesFacts
<1>2. m \in Nat /\ Len(values) = m /\ q.max \in Nat \ {0}
  BY <1>1, QueryTypes, RequestAssumption
<1>3. n \in Nat /\ n <= m /\ n <= q.max
  BY <1>2 DEF Least
<1>4. o = [num |-> IF q.class \in {"channels", "matrix"} THEN n ELSE num, items |-> f]
  BY Zenon DEF Put, n, f, o
<1> HIDE DEF n, o
<1>5. o.items = f /\ o.num = IF q.class \in {"channels", "matrix"} THEN n ELSE num
  BY <1>4
<1>6. o = [num |-> o.num, items |-> o.items]
  BY <1>4
<1>7. HasPlaces(f, q.max)
  BY DEF HasPlaces
<1>8. o.num \in Int /\ o.num <= n /\ (q.class \notin {"channels", "matrix"} => o.num = Unset)
  BY <1>3, <1>5 DEF Unset
<1>9. ASSUME NEW i \in 1..o.num PROVE o.items[i] = <<c, r, i>>
  <2>1. i \in 1..m /\ i \in 1..q.max /\ i <= n
    BY <1>2, <1>3, <1>8
  <2> QED
    BY <1>1, <1>5, <2>1
<1>10. r \in 0..MaxRequests
  BY RequestAssumption
<1>11. HasPlaces(o.items, q.max)
  BY <1>5, <1>7
<1>12. o.num <= q.max
  BY <1>2, <1>3, <1>8
<1>13. \E d \in Callers, e \in 0..MaxRequests : \A i \in 1..o.num : o.items[i] = <<d, e, i>>
  BY <1>9, <1>10
<1> HIDE DEF f
<1>14. BufferOK(q, o)
  BY <1>6, <1>8, <1>11, <1>12, <1>13 DEF BufferOK
<1> QED
  BY <1>14 DEF o

\* Whatever answer it is given, a command leaves its caller's buffer in order.
LEMMA ResponseOK ==
    ASSUME NEW q \in Queries \cup {Query("order", 1)}, NEW o, BufferOK(q, o),
           NEW a \in Answers
    PROVE  BufferOK(q, handleResponse(q, o, a))
<1>1. PICK p \in Queries, c \in Callers, r \in 1..MaxRequests :
         /\ p.class \in {"channels", "matrix", "gscan", "rtt"}
         /\ \E values \in DriverValues(c, r, p) : a = DriverAnswer(p, values)
  BY AnswerFacts
<1>2. PICK values \in DriverValues(c, r, p) : a = DriverAnswer(p, values)
  BY <1>1
<1>3. values \in Seq(Callers \X (1..MaxRequests) \X (1..MaxItems))
  BY ValuesAreSeq
<1>4. p.class \in {"gscan", "rtt"} => Len(values) = 1
  <2>1. PICK n \in 0..MaxItems :
           /\ values = [i \in 1..n |-> <<c, r, i>>]
           /\ p.class \notin {"channels", "matrix"} => n = 1
    BY DriverValuesFacts
  <2>2. n \in Nat /\ Len(values) = n
    BY <2>1, RequestAssumption
  <2> QED
    BY <2>1, <2>2
<1>5. /\ HasPlaces(o.items, q.max) /\ o = [num |-> o.num, items |-> o.items]
      /\ q.class \notin {"channels", "matrix"} => o.num = Unset
  BY DEF BufferOK
<1>6. handleResponse(q, o, a) = IF Reads(q, p) THEN Put(q, o.num, o.items, values) ELSE o
  <2>1. q.class \in {"channels", "matrix", "gscan", "rtt", "order"} /\ q.max \in Nat \ {0}
    BY QueryTypes
  <2> DEFINE num == o.num
             items == o.items
             V == Callers \X (1..MaxRequests) \X (1..MaxItems)
  <2>2. o = [num |-> num, items |-> items] /\ HasPlaces(items, q.max)
    BY <1>5
  <2>3. p.class \in {"channels", "matrix", "gscan", "rtt"}
    BY <1>1
  <2>4. values \in Seq(V)
    BY <1>3
  <2> HIDE DEF num, items, V
  <2>5. handleResponse(q, o, DriverAnswer(p, values)) = Taken(q, num, items, p, values)
    BY <1>4, <2>1, <2>2, <2>3, <2>4, ResponseTaken
  <2> QED
    BY <1>2, <2>2, <2>5, Zenon DEF num, items, Taken
<1>7. BufferOK(q, Put(q, o.num, o.items, values))
  BY <1>5, PutOK
<1> QED
  BY <1>6, <1>7

\* One's own answer leaves there what the driver has.
LEMMA OwnTaken ==
    ASSUME NEW q \in Queries, q.class # "order",
           NEW c \in Callers, NEW r \in 1..MaxRequests, NEW values \in DriverValues(c, r, q)
    PROVE  handleResponse(q, Fresh(q), DriverAnswer(q, values)) = Delivered(q, values)
<1> DEFINE items == [i \in 1..q.max |-> Blank]
<1>1. q.class \in {"channels", "matrix", "gscan", "rtt"} /\ q.max \in Nat \ {0}
  BY QueryTypes
<1>2. values \in Seq(Callers \X (1..MaxRequests) \X (1..MaxItems))
  BY ValuesAreSeq
<1>3. q.class \in {"gscan", "rtt"} => Len(values) = 1
  <2>1. PICK n \in 0..MaxItems :
           /\ values = [i \in 1..n |-> <<c, r, i>>]
           /\ q.class \notin {"channels", "matrix"} => n = 1
    BY DriverValuesFacts
  <2>2. n \in Nat /\ Len(values) = n
    BY <2>1, RequestAssumption
  <2> QED
    BY <2>1, <2>2
<1>4. HasPlaces(items, q.max) /\ Fresh(q) = [num |-> Unset, items |-> items]
  BY FreshOK DEF Fresh
<1>5. Reads(q, q)
  BY DEF Reads
<1> DEFINE o == Fresh(q)
<1> HIDE DEF items, o
<1>6. handleResponse(q, o, DriverAnswer(q, values)) = Put(q, Unset, items, values)
  <2>1. handleResponse(q, o, DriverAnswer(q, values)) = Taken(q, Unset, items, q, values)
    BY <1>1, <1>2, <1>3, <1>4, ResponseTaken DEF o
  <2> QED
    BY <1>5, <2>1, Zenon DEF Taken
<1>7. Put(q, Unset, items, values) = Delivered(q, values)
  <2> DEFINE n == Least(Len(values), q.max)
  <2>1. \A i \in 1..q.max : items[i] = Blank
    BY DEF items
  <2>2. [i \in 1..q.max |-> IF i <= n THEN values[i] ELSE items[i]]
          = [i \in 1..q.max |-> IF i <= n THEN values[i] ELSE Blank]
    BY <2>1, Zenon
  <2> QED
    BY <2>2, Zenon DEF Put, Delivered
<1> QED
  BY <1>6, <1>7 DEF o

LEMMA StepBuffers ==
    ASSUME TypeOK, BufferInv, [Next]_vars
    PROVE  BufferInv'
<1>0. CASE UNCHANGED vars
  BY <1>0 DEF vars, BufferInv
<1> SUFFICES ASSUME NEW c \in Callers,
                    \/ Send(c) \/ RequestFails(c) \/ AllocFails(c)
                    \/ KernelQueuesData(c) \/ Proceeds(c)
             PROVE  BufferInv'
  BY <1>0 DEF Next
<1> SUFFICES ASSUME NEW d \in Callers PROVE BufferOK(query'[d], out'[d])
  BY DEF BufferInv
<1>1. /\ BufferOK(query[d], out[d])
      /\ query \in [Callers -> Queries \cup {Query("order", 1)}] /\ DOMAIN out = Callers
  BY DEF BufferInv, TypeOK
<1>2. CASE query' = query /\ out' = out
  BY <1>1, <1>2
<1>3. CASE Begin(c)
  <2>1. PICK q \in Queries : /\ query' = [query EXCEPT ![c] = q]
                             /\ out' = [out EXCEPT ![c] = Fresh(q)]
    BY <1>3 DEF Begin
  <2>2. CASE d = c
    <3>1. query'[d] = q /\ out'[d] = Fresh(q)
      BY <1>1, <2>1, <2>2
    <3> QED
      BY <3>1, FreshOK
  <2>3. CASE d # c
    BY <1>1, <2>1, <2>3
  <2> QED
    BY <2>2, <2>3
<1>4. CASE response_handler(c)
  <2>1. /\ query' = query
        /\ out' = [out EXCEPT ![c] = handleResponse(query[c], @, Head(queue).answer)]
        /\ queue # << >> /\ Head(queue).kind = "data"
    BY <1>4 DEF response_handler, Awaits
  <2>2. Head(queue).answer \in Answers
    <3>1. queue \in Seq(Messages) /\ 1 \in 1..Len(queue) /\ Head(queue) = queue[1]
      BY <2>1, QueueIsSeq DEF TypeOK
    <3>2. queue[1] \in Messages /\ queue[1].answer # Silence
      BY <2>1, <3>1 DEF TypeOK
    <3> QED
      BY <3>1, <3>2 DEF Messages
  <2>3. CASE d = c
    <3>1. out'[d] = handleResponse(query[d], out[d], Head(queue).answer)
      BY <1>1, <2>1, <2>3
    <3> QED
      BY <1>1, <2>1, <2>2, <3>1, ResponseOK
  <2>4. CASE d # c
    BY <1>1, <2>1, <2>4
  <2> QED
    BY <2>3, <2>4
<1> QED
  BY <1>2, <1>3, <1>4
  DEF Send, RequestFails, AllocFails, KernelQueuesData, Proceeds, KernelAnswers, ack_handler,
      error_handler

LEMMA InitBuffers == Init => BufferInv
<1> SUFFICES ASSUME Init, NEW c \in Callers PROVE BufferOK(query[c], out[c])
  BY DEF BufferInv
<1>1. query[c] = Query("order", 1) /\ out[c] = Fresh(query[c])
  BY DEF Init
<1> QED
  BY <1>1, FreshOK

LEMMA BufferInvariance == Spec => [](TypeOK /\ BufferInv)
<1>1. TypeOK /\ BufferInv /\ [Next]_vars => BufferInv'
  BY StepBuffers
<1> QED
  BY <1>1, InitBuffers, RequestInvariance, PTL DEF Spec

\* Whosever answers a thread is given, and whatever the driver says it has,
\* handleResponse writes to the places the caller brought and to no other.
THEOREM NothingPastTheBuffer == Spec => []WithinBuffer
<1>1. BufferInv => WithinBuffer
  BY DEF BufferInv, BufferOK, HasPlaces, WithinBuffer
<1> QED
  BY <1>1, BufferInvariance, PTL

\* Whosever answers a thread is given, the count it is told is no more than the
\* values it was given, which are in order and from one answer.
THEOREM CountIsOfOneAnswer == Spec => []CountMatchesItems
<1>1. BufferInv => CountMatchesItems
  <2> SUFFICES ASSUME BufferInv, NEW c \in Callers, NEW i \in 1..out[c].num, NEW j \in 1..out[c].num
               PROVE  /\ out[c].items[i] \notin {Blank, Junk}
                      /\ out[c].items[i][2] = out[c].items[j][2]
                      /\ out[c].items[i][3] = i
    BY DEF CountMatchesItems
  <2>1. PICK d \in Callers, r \in 0..MaxRequests :
           \A k \in 1..out[c].num : out[c].items[k] = <<d, r, k>>
    BY DEF BufferInv, BufferOK
  <2>2. out[c].items[i] = <<d, r, i>> /\ out[c].items[j] = <<d, r, j>>
    BY <2>1
  <2>3. <<d, r, i>> # << >> /\ <<d, r, i>> # <<"junk">>
    OBVIOUS
  <2> QED
    BY <2>2, <2>3 DEF Blank, Junk
<1> QED
  BY <1>1, BufferInvariance, PTL

-----------------------------------------------------------------------------
(***************************************************************************)
(* A request that no other overlaps.                                       *)
(***************************************************************************)

Data(c) == Message("data", c, DriverAnswer(query[c], answered[c].values))
Verdict(c) == Message(answered[c].verdict, c, Silence)

Untouched(c) == handled[c] = {} /\ out[c] = Fresh(query[c])
HasOwn(c) ==
    IF answered[c].sent
    THEN handled[c] = {c} /\ out[c] = Delivered(query[c], answered[c].values)
    ELSE Untouched(c)

\* It is the only one that is out, and what the kernel has sent for it is on the
\* socket, alone, or was taken.
AloneAt(c) ==
    /\ Out = {c}
    /\ answered[c].sent =>
          /\ query[c].class # "order"
          /\ \E r \in 1..MaxRequests : answered[c].values \in DriverValues(c, r, query[c])
    /\ \/ /\ pc[c] = "sending" /\ Untouched(c)
          /\ queue = IF answered[c].sent THEN <<Data(c)>> ELSE << >>
       \/ /\ pc[c] = "waiting" /\ answered[c].verdict \in Verdicts
          /\ \/ answered[c].sent /\ queue = <<Data(c), Verdict(c)>> /\ Untouched(c)
             \/ queue = <<Verdict(c)>> /\ HasOwn(c)

AloneInv == \A c \in Callers : pc[c] # "idle" /\ ~overlapped[c] => AloneAt(c)

\* What a request finds when it is over.
GotOwn(c) ==
    /\ handled[c] = (IF answered[c].sent THEN {c} ELSE {})
    /\ result[c] = (IF answered[c].verdict = "ack" THEN "ok" ELSE "failed")
    /\ out[c] = IF answered[c].sent THEN Delivered(query[c], answered[c].values)
                                    ELSE Fresh(query[c])

\* The state of one caller.
Of(c) == <<pc[c], query[c], out[c], handled[c], answered[c], result[c]>>

\* The others leave a caller's state alone.
LEMMA OthersUntouched ==
    ASSUME TypeOK, NEW c \in Callers, NEW d \in Callers, d # c,
           \/ Send(c) \/ RequestFails(c) \/ AllocFails(c)
           \/ KernelQueuesData(c) \/ Proceeds(c)
    PROVE  Of(d)' = Of(d)
<1>1. /\ pc \in [Callers -> {"idle", "sending", "waiting"}]
      /\ query \in [Callers -> Queries \cup {Query("order", 1)}]
      /\ handled \in [Callers -> SUBSET Callers]
      /\ DOMAIN out = Callers
      /\ DOMAIN answered = Callers
      /\ result \in [Callers -> {"none", "ok", "failed"}]
  BY DEF TypeOK
<1>2. ASSUME Begin(c)
      PROVE  /\ query'[d] = query[d] /\ out'[d] = out[d] /\ handled'[d] = handled[d]
             /\ answered'[d] = answered[d]
  BY <1>1, <1>2 DEF Begin
<1>3. CASE Send(c) \/ RequestFails(c) \/ AllocFails(c)
  BY <1>1, <1>2, <1>3 DEF Send, RequestFails, AllocFails, Of
<1>4. CASE KernelQueuesData(c)
  BY <1>1, <1>4 DEF KernelQueuesData, Of
<1>5. CASE KernelAnswers(c)
  BY <1>1, <1>5 DEF KernelAnswers, Of
<1>6. CASE response_handler(c)
  BY <1>1, <1>6 DEF response_handler, Of
<1>7. CASE ack_handler(c) \/ error_handler(c)
  BY <1>1, <1>7 DEF ack_handler, error_handler, Ends, Of
<1> QED
  BY <1>3, <1>4, <1>5, <1>6, <1>7 DEF Proceeds

\* Only a send tells that requests overlap.
LEMMA OverlapTold ==
    ASSUME TypeOK, NEW c \in Callers, NEW d \in Callers,
           \/ Send(c) \/ RequestFails(c) \/ AllocFails(c)
           \/ KernelQueuesData(c) \/ Proceeds(c),
           ~overlapped'[d]
    PROVE  IF Send(c) /\ d = c
           THEN Out = {}
           ELSE ~overlapped[d] /\ (Send(c) => pc[d] = "idle")
<1>1. CASE Send(c)
  <2>1. overlapped' = [e \in Callers |-> CASE e = c   -> Out # {}
                                           [] e \in Out -> TRUE
                                           [] OTHER   -> overlapped[e]]
    BY <1>1 DEF Send
  <2>2. c \notin Out
    BY <1>1 DEF Send, Begin, Out
  <2>3. CASE d = c
    <3>1. overlapped'[d] = (Out # {})
      BY <2>1, <2>2, <2>3
    <3> QED
      BY <1>1, <2>3, <3>1
  <2>4. CASE d # c
    <3>1. CASE d \in Out
      BY <2>1, <2>4, <3>1
    <3>2. CASE d \notin Out
      <4>1. overlapped'[d] = overlapped[d]
        BY <2>1, <2>4, <3>2
      <4> QED
        BY <2>4, <3>2, <4>1 DEF Out
    <3> QED
      BY <3>1, <3>2
  <2> QED
    BY <2>3, <2>4
<1>2. CASE ~Send(c)
  <2>1. overlapped' = overlapped
    BY <1>2 DEF RequestFails, AllocFails, KernelQueuesData, Proceeds, KernelAnswers,
                response_handler, ack_handler, error_handler
  <2> QED
    BY <1>2, <2>1
<1> QED
  BY <1>1, <1>2

\* Whoever is left alone by a step of another is as he was.
LEMMA AloneStays ==
    ASSUME TypeOK, AloneInv, NEW c \in Callers, NEW d \in Callers, d # c,
           \/ Send(c) \/ RequestFails(c) \/ AllocFails(c)
           \/ KernelQueuesData(c) \/ Proceeds(c),
           pc'[d] # "idle", ~overlapped'[d]
    PROVE  AloneAt(d)'
<1>1. /\ pc'[d] = pc[d] /\ query'[d] = query[d] /\ out'[d] = out[d]
      /\ handled'[d] = handled[d] /\ answered'[d] = answered[d]
  BY OthersUntouched DEF Of
<1>2. ~overlapped[d] /\ ~Send(c)
  BY <1>1, OverlapTold
<1>3. AloneAt(d)
  BY <1>1, <1>2 DEF AloneInv
<1>4. pc[c] = "idle"
  BY <1>3 DEF AloneAt, Out
<1>5. pc' = pc /\ queue' = queue
  BY <1>2, <1>4 DEF RequestFails, AllocFails, KernelQueuesData, Proceeds, KernelAnswers,
                    response_handler, ack_handler, error_handler, Awaits
<1>6. Out' = Out
  BY <1>5 DEF Out
<1>7. Data(d)' = Data(d) /\ Verdict(d)' = Verdict(d)
  BY <1>1 DEF Data, Verdict
<1>8. Untouched(d)' <=> Untouched(d)
  BY <1>1 DEF Untouched
<1>9. HasOwn(d)' <=> HasOwn(d)
  BY <1>1, <1>8 DEF HasOwn
<1> QED
  BY <1>1, <1>3, <1>5, <1>6, <1>7, <1>8, <1>9 DEF AloneAt

\* A request that goes out while no other is.
LEMMA AloneSends ==
    ASSUME TypeOK, NothingLeftOver, NEW c \in Callers, Send(c), ~overlapped'[c]
    PROVE  AloneAt(c)'
<1>1. Out = {} /\ queue' = << >>
  BY OverlapTold DEF NothingLeftOver, Send
<1>2. /\ pc \in [Callers -> {"idle", "sending", "waiting"}] /\ DOMAIN query = Callers
      /\ DOMAIN out = Callers /\ DOMAIN handled = Callers /\ DOMAIN answered = Callers
  BY DEF TypeOK
<1>3. pc' = [pc EXCEPT ![c] = "sending"]
  BY DEF Send
<1>4. pc'[c] = "sending" /\ Out' = {c}
  BY <1>1, <1>2, <1>3 DEF Out
<1>5. PICK q \in Queries : query'[c] = q /\ out'[c] = Fresh(q)
  BY <1>2 DEF Send, Begin
<1>6. handled'[c] = {} /\ answered'[c] = NotAnswered
  BY <1>2 DEF Send, Begin
<1>7. ~answered'[c].sent
  BY <1>6 DEF NotAnswered
<1>8. Untouched(c)'
  BY <1>5, <1>6 DEF Untouched
<1> QED
  BY <1>1, <1>4, <1>7, <1>8 DEF AloneAt

LEMMA SecondAppended == ASSUME NEW x, NEW y PROVE Append(<<x>>, y) = <<x, y>>
<1>1. <<x>> \in Seq({x, y}) /\ <<x, y>> \in Seq({x, y})
  OBVIOUS
<1>2. Append(<<x>>, y) \in Seq({x, y}) /\ Len(Append(<<x>>, y)) = 2
  BY <1>1
<1>3. Append(<<x>>, y)[1] = x /\ Append(<<x>>, y)[2] = y
  BY <1>1
<1>4. \A i \in 1..2 : Append(<<x>>, y)[i] = <<x, y>>[i]
  BY <1>3
<1> QED
  BY <1>1, <1>2, <1>4, SeqEqual

\* The kernel answers it.
LEMMA AloneIsSentData ==
    ASSUME TypeOK, CountInv, NEW c \in Callers, AloneAt(c), KernelQueuesData(c)
    PROVE  AloneAt(c)'
<1>1. /\ pc[c] = "sending" /\ ~answered[c].sent /\ query[c].class # "order"
      /\ pc' = pc /\ query' = query /\ out' = out /\ handled' = handled
  BY DEF KernelQueuesData
<1>2. PICK values \in DriverValues(c, requests, query[c]) :
         /\ queue' = Append(queue, Message("data", c, DriverAnswer(query[c], values)))
         /\ answered' = [answered EXCEPT ![c].sent = TRUE, ![c].values = values]
  BY DEF KernelQueuesData
<1>3. answered'[c].sent /\ answered'[c].values = values
  <2>1. answered \in [Callers -> [sent : BOOLEAN,
                                  values : Seq(Callers \X (1..MaxRequests) \X (1..MaxItems)),
                                  verdict : {"none", "ack", "error"}]]
    BY DEF TypeOK
  <2>2. answered'[c] = [answered[c] EXCEPT !.sent = TRUE, !.values = values]
    BY <1>2, <2>1
  <2> QED
    BY <2>1, <2>2
<1>4. requests \in 1..MaxRequests
  <2>1. requests > 0 /\ requests \in 0..MaxRequests
    BY <1>1 DEF CountInv, TypeOK
  <2> QED
    BY <2>1
<1>5. queue = << >> /\ Untouched(c) /\ Out = {c}
  BY <1>1 DEF AloneAt
<1>6. Out' = {c} /\ Untouched(c)'
  BY <1>1, <1>5 DEF Out, Untouched
<1>7. queue' = <<Data(c)>>'
  <2>1. Data(c)' = Message("data", c, DriverAnswer(query[c], values))
    BY <1>1, <1>3 DEF Data
  <2> HIDE DEF Data
  <2> QED
    BY <1>2, <1>5, <2>1
<1> QED
  BY <1>1, <1>2, <1>3, <1>4, <1>6, <1>7 DEF AloneAt

LEMMA AloneIsAnswered ==
    ASSUME TypeOK, NEW c \in Callers, AloneAt(c), KernelAnswers(c)
    PROVE  AloneAt(c)'
<1>1. /\ pc[c] = "sending"
      /\ query' = query /\ out' = out /\ handled' = handled
      /\ pc' = [pc EXCEPT ![c] = "waiting"]
  BY DEF KernelAnswers
<1>2. PICK kind \in Verdicts :
         /\ queue' = Append(queue, Message(kind, c, Silence))
         /\ answered' = [answered EXCEPT ![c].verdict = kind]
  BY DEF KernelAnswers, Verdicts
<1>3. /\ answered'[c].verdict = kind /\ answered'[c].sent = answered[c].sent
      /\ answered'[c].values = answered[c].values
  <2>1. answered \in [Callers -> [sent : BOOLEAN,
                                  values : Seq(Callers \X (1..MaxRequests) \X (1..MaxItems)),
                                  verdict : {"none", "ack", "error"}]]
    BY DEF TypeOK
  <2>2. answered'[c] = [answered[c] EXCEPT !.verdict = kind]
    BY <1>2, <2>1
  <2> QED
    BY <2>1, <2>2
<1>4. pc'[c] = "waiting" /\ Out' = Out
  <2>1. pc \in [Callers -> {"idle", "sending", "waiting"}]
    BY DEF TypeOK
  <2> QED
    BY <1>1, <2>1 DEF Out
<1>5. Data(c)' = Data(c) /\ Verdict(c)' = Message(kind, c, Silence)
  BY <1>1, <1>3 DEF Data, Verdict
<1>6. /\ Out = {c} /\ Untouched(c)
      /\ queue = IF answered[c].sent THEN <<Data(c)>> ELSE << >>
  BY <1>1 DEF AloneAt
<1>7. Untouched(c)'
  BY <1>1, <1>6 DEF Untouched
<1>8. CASE answered[c].sent
  <2>1. queue' = <<Data(c), Verdict(c)>>'
    <3> DEFINE x == Data(c)
               y == Message(kind, c, Silence)
    <3>1. queue = <<x>> /\ queue' = Append(queue, y)
      BY <1>2, <1>6, <1>8
    <3>2. Append(<<x>>, y) = <<x, y>>
      BY SecondAppended
    <3>3. Data(c)' = x /\ Verdict(c)' = y
      BY <1>5
    <3> HIDE DEF x, y
    <3> QED
      BY <3>1, <3>2, <3>3
  <2> QED
    BY <1>1, <1>2, <1>3, <1>4, <1>6, <1>7, <1>8, <2>1 DEF AloneAt
<1>9. CASE ~answered[c].sent
  <2>1. queue' = <<Verdict(c)>>'
    BY <1>2, <1>5, <1>6, <1>9
  <2>2. HasOwn(c)'
    BY <1>3, <1>7, <1>9 DEF HasOwn
  <2> QED
    BY <1>2, <1>3, <1>4, <1>6, <1>9, <2>1, <2>2 DEF AloneAt
<1> QED
  BY <1>8, <1>9

\* It takes its data.
LEMMA AloneTakes ==
    ASSUME TypeOK, NEW c \in Callers, AloneAt(c), response_handler(c)
    PROVE  AloneAt(c)'
<1>1. /\ pc[c] = "waiting" /\ Head(queue).kind = "data"
      /\ pc' = pc /\ query' = query /\ answered' = answered /\ queue' = Tail(queue)
      /\ handled' = [handled EXCEPT ![c] = @ \cup {Head(queue).of}]
      /\ out' = [out EXCEPT ![c] = handleResponse(query[c], @, Head(queue).answer)]
  BY DEF response_handler, Awaits
<1>2. answered[c].verdict \in Verdicts /\ Out = {c}
  BY <1>1 DEF AloneAt
<1>3. Verdict(c).kind # "data"
  BY <1>2 DEF Verdict, Message, Verdicts
<1>4. answered[c].sent /\ queue = <<Data(c), Verdict(c)>> /\ Untouched(c)
  <2>1. queue # <<Verdict(c)>>
    BY <1>1, <1>3
  <2> QED
    BY <1>1, <2>1 DEF AloneAt
<1>5. Head(queue) = Data(c) /\ queue' = <<Verdict(c)>>
  BY <1>1, <1>4
<1>6. Head(queue).of = c /\ Head(queue).answer = DriverAnswer(query[c], answered[c].values)
  BY <1>5 DEF Data, Message
<1>7. PICK r \in 1..MaxRequests : answered[c].values \in DriverValues(c, r, query[c])
  BY <1>4 DEF AloneAt
<1>8. query[c] \in Queries /\ query[c].class # "order"
  <2>1. query[c] \in Queries \cup {Query("order", 1)} /\ query[c].class # "order"
    BY <1>4 DEF TypeOK, AloneAt
  <2> QED
    BY <2>1 DEF Query
<1>9. handled'[c] = {c}
  BY <1>1, <1>4, <1>6 DEF TypeOK, Untouched
<1>10. out'[c] = Delivered(query[c], answered[c].values)
  <2>1. out'[c] = handleResponse(query[c], Fresh(query[c]),
                                 DriverAnswer(query[c], answered[c].values))
    BY <1>1, <1>4, <1>6 DEF TypeOK, Untouched
  <2> QED
    BY <1>7, <1>8, <2>1, OwnTaken
<1>11. HasOwn(c)'
  BY <1>1, <1>4, <1>9, <1>10 DEF HasOwn
<1>12. Verdict(c)' = Verdict(c) /\ Out' = Out
  BY <1>1 DEF Verdict, Out
<1> QED
  BY <1>1, <1>2, <1>5, <1>7, <1>8, <1>11, <1>12 DEF AloneAt

LEMMA StepAlone ==
    ASSUME TypeOK, CountInv, NothingLeftOver, AloneInv, [Next]_vars
    PROVE  AloneInv'
<1>0. CASE UNCHANGED vars
  BY <1>0 DEF vars, AloneInv, AloneAt, Out, Data, Verdict, Untouched, HasOwn
<1> SUFFICES ASSUME NEW c \in Callers,
                    \/ Send(c) \/ RequestFails(c) \/ AllocFails(c)
                    \/ KernelQueuesData(c) \/ Proceeds(c),
                    NEW d \in Callers, pc'[d] # "idle", ~overlapped'[d]
             PROVE  AloneAt(d)'
  BY <1>0 DEF Next, AloneInv
<1>1. CASE d # c
  BY <1>1, AloneStays
<1>2. CASE d = c
  <2>1. CASE Send(c)
    BY <1>2, <2>1, AloneSends
  <2>2. CASE ~Send(c)
    <3>1. ~overlapped[c]
      BY <1>2, <2>2, OverlapTold
    <3>2. pc[c] # "idle"
      <4>1. CASE RequestFails(c) \/ AllocFails(c)
        BY <1>2, <4>1 DEF RequestFails, AllocFails, Begin
      <4>2. CASE KernelQueuesData(c) \/ Proceeds(c)
        BY <4>2 DEF KernelQueuesData, Proceeds, KernelAnswers, response_handler,
                    ack_handler, error_handler, Awaits
      <4> QED
        BY <2>2, <4>1, <4>2
    <3>3. AloneAt(c)
      BY <3>1, <3>2 DEF AloneInv
    <3>4. CASE ack_handler(c) \/ error_handler(c)
      BY <1>2, <3>4 DEF ack_handler, error_handler, Ends, TypeOK
    <3>5. CASE RequestFails(c) \/ AllocFails(c)
      BY <3>2, <3>5 DEF RequestFails, AllocFails, Begin
    <3> QED
      BY <1>2, <2>2, <3>3, <3>4, <3>5, AloneIsSentData, AloneIsAnswered, AloneTakes
      DEF Proceeds
  <2> QED
    BY <2>1, <2>2
<1> QED
  BY <1>1, <1>2

\* It ends with what it has.
LEMMA AloneEnds ==
    ASSUME TypeOK, NEW c \in Callers, AloneAt(c), ack_handler(c) \/ error_handler(c)
    PROVE  GotOwn(c)'
<1>1. /\ pc[c] = "waiting" /\ query' = query /\ out' = out /\ handled' = handled
      /\ answered' = answered
      /\ Head(queue).kind \in {"ack", "error"}
      /\ result' = [result EXCEPT ![c] = IF Head(queue).kind = "ack" THEN "ok" ELSE "failed"]
  BY DEF ack_handler, error_handler, Awaits, Ends
<1>2. Data(c).kind = "data"
  BY DEF Data, Message
<1>3. queue = <<Verdict(c)>> /\ HasOwn(c)
  <2>1. queue # <<Data(c), Verdict(c)>>
    BY <1>1, <1>2
  <2> QED
    BY <1>1, <2>1 DEF AloneAt
<1>4. Head(queue).kind = answered[c].verdict
  <2>1. Head(queue) = Verdict(c)
    BY <1>3
  <2> QED
    BY <2>1 DEF Verdict, Message
<1>5. result'[c] = IF answered[c].verdict = "ack" THEN "ok" ELSE "failed"
  BY <1>1, <1>4 DEF TypeOK
<1> QED
  BY <1>1, <1>3, <1>5 DEF GotOwn, HasOwn, Untouched

LEMMA StepGetsOwn ==
    ASSUME TypeOK, AloneInv, AloneGetsOwn, [Next]_vars
    PROVE  AloneGetsOwn'
<1>0. CASE UNCHANGED vars
  BY <1>0 DEF vars, AloneGetsOwn
<1> SUFFICES ASSUME NEW c \in Callers,
                    \/ Send(c) \/ RequestFails(c) \/ AllocFails(c)
                    \/ KernelQueuesData(c) \/ Proceeds(c),
                    NEW d \in Callers, pc'[d] = "idle", ~overlapped'[d],
                    answered'[d].verdict # "none"
             PROVE  GotOwn(d)'
  BY <1>0 DEF Next, AloneGetsOwn, GotOwn
<1>1. CASE d # c
  <2>1. /\ pc'[d] = pc[d] /\ query'[d] = query[d] /\ out'[d] = out[d]
        /\ handled'[d] = handled[d] /\ answered'[d] = answered[d] /\ result'[d] = result[d]
    BY <1>1, OthersUntouched DEF Of
  <2>2. ~overlapped[d]
    BY <1>1, OverlapTold
  <2>3. GotOwn(d)
    BY <2>1, <2>2 DEF AloneGetsOwn, GotOwn
  <2> QED
    BY <2>1, <2>3 DEF GotOwn
<1>2. CASE d = c
  <2>1. ~Begin(c)
    <3> SUFFICES ASSUME Begin(c) PROVE answered'[c].verdict = "none"
      BY <1>2
    <3>1. answered' = [answered EXCEPT ![c] = NotAnswered] /\ DOMAIN answered = Callers
      BY DEF Begin, TypeOK
    <3> QED
      BY <3>1 DEF NotAnswered
  <2>2. ack_handler(c) \/ error_handler(c)
    <3>1. pc \in [Callers -> {"idle", "sending", "waiting"}]
      BY DEF TypeOK
    <3> QED
      BY <1>2, <2>1, <3>1 DEF Send, RequestFails, AllocFails, KernelQueuesData, Proceeds,
                              KernelAnswers, response_handler, Awaits
  <2>3. ~overlapped[c]
    BY <1>2, <2>1, OverlapTold DEF Send
  <2>4. AloneAt(c)
    BY <2>2, <2>3 DEF AloneInv, ack_handler, error_handler, Awaits
  <2> QED
    BY <1>2, <2>2, <2>4, AloneEnds
<1> QED
  BY <1>1, <1>2

\* A request that no other overlapped, among any number of threads, was given
\* its own data and no other's, returns what the kernel answered to it, and
\* leaves in the caller's buffer what the driver had, as far as there is room.
THEOREM AloneIsServed == Spec => []AloneGetsOwn
<1>1. Init => AloneInv /\ AloneGetsOwn
  BY DEF Init, AloneInv, AloneGetsOwn, NotAnswered
<1>2. TypeOK /\ CountInv /\ NothingLeftOver /\ AloneInv /\ AloneGetsOwn /\ [Next]_vars
         => (AloneInv /\ AloneGetsOwn)'
  BY StepAlone, StepGetsOwn
<1> QED
  BY <1>1, <1>2, RequestInvariance, SocketEmptyAtRest, PTL DEF Spec

-----------------------------------------------------------------------------
(***************************************************************************)
(* GScanResults: the retrieval of the cached scans.                        *)
(***************************************************************************)

\* What a place of the caller's array holds.
Entries == [scan_id : Nat, num_results : Nat]

LEMMA BoundsAreNat ==
    /\ MaxCache \in Nat /\ MaxMax \in Nat /\ MaxReplies \in Nat
    /\ MaxRounds \in Nat /\ MaxAp \in Nat
BY ScanAssumption

-----------------------------------------------------------------------------
(***************************************************************************)
(* The smaller of two or three numbers.                                    *)
(***************************************************************************)

LEMMA MinOfTwo ==
    ASSUME NEW x \in Int, NEW y \in Int
    PROVE  Min({x, y}) = IF x <= y THEN x ELSE y
BY DEF Min

LEMMA MinOfThree ==
    ASSUME NEW x \in Nat, NEW y \in Nat, NEW z \in Nat
    PROVE  /\ Min({x, y, z}) \in Nat
           /\ Min({x, y, z}) <= x /\ Min({x, y, z}) <= y /\ Min({x, y, z}) <= z
<1> DEFINE m == IF x <= y THEN IF x <= z THEN x ELSE z ELSE IF y <= z THEN y ELSE z
<1>1. m \in {x, y, z} /\ \A k \in {x, y, z} : m <= k
  OBVIOUS
<1> HIDE DEF m
<1>2. \A a \in {x, y, z} : (\A k \in {x, y, z} : a <= k) => a \in Nat /\ a <= x /\ a <= y /\ a <= z
  OBVIOUS
<1>3. Min({x, y, z}) \in {x, y, z} /\ \A k \in {x, y, z} : Min({x, y, z}) <= k
  BY <1>1, Zenon DEF Min
<1> QED
  BY <1>2, <1>3

-----------------------------------------------------------------------------
(***************************************************************************)
(* The order of the scans with results.                                    *)
(***************************************************************************)

LEMMA WithResultsFinite ==
    ASSUME NEW a \in Int, NEW b \in Int
    PROVE  /\ IsFiniteSet(WithResults(a, b))
           /\ Cardinality(WithResults(a, b)) \in Nat
<1>1. WithResults(a, b) \subseteq a..b
  BY DEF WithResults
<1> QED
  BY <1>1, FS_Interval, FS_Subset, FS_CardinalityType

\* A list of the scans up to m and one of those from m + 1 to n make a list of
\* the scans up to n.
LEMMA InOrderConcat ==
    ASSUME NEW m \in Nat, NEW n \in Nat, m <= n,
           NEW s \in InOrder(WithResults(1, m)),
           NEW t \in InOrder(WithResults(m + 1, n)),
           NEW u, u = [i \in 1..(Len(s) + Len(t)) |->
                          IF i <= Len(s) THEN s[i] ELSE t[i - Len(s)]]
    PROVE  /\ u \in InOrder(WithResults(1, n))
           /\ Len(s) \in Nat /\ Len(t) \in Nat /\ Len(u) = Len(s) + Len(t)
<1> DEFINE A == WithResults(1, m)
           B == WithResults(m + 1, n)
           C == WithResults(1, n)
           a == Cardinality(A)
           b == Cardinality(B)
<1>1. /\ IsFiniteSet(A) /\ IsFiniteSet(B) /\ a \in Nat /\ b \in Nat
  BY WithResultsFinite
<1>2. A \cup B = C /\ A \cap B = {}
  BY DEF WithResults
<1>3. A \subseteq Nat /\ B \subseteq Nat /\ \A x \in A, y \in B : x < y
  BY DEF WithResults
<1>4. /\ s \in [1..a -> A] /\ \A i, j \in 1..a : i < j => s[i] < s[j]
      /\ t \in [1..b -> B] /\ \A i, j \in 1..b : i < j => t[i] < t[j]
  BY DEF InOrder
<1> HIDE DEF A, B, C
<1>5. Cardinality(C) = a + b
  <2>1. Cardinality(A \cup B) = Cardinality(A) + Cardinality(B) - Cardinality(A \cap B)
    BY <1>1, FS_Union
  <2>2. Cardinality(A \cup B) = Cardinality(C) /\ Cardinality(A \cap B) = 0
    BY <1>2, FS_EmptySet, Zenon
  <2> QED
    BY <1>1, <2>1, <2>2
<1> HIDE DEF a, b
<1>6. Len(s) = a /\ Len(t) = b
  BY <1>1, <1>4
<1>7. A \subseteq C /\ B \subseteq C
  BY <1>2
<1>8. u \in [1..(a + b) -> C]
  BY <1>1, <1>4, <1>6, <1>7
<1>9. ASSUME NEW i \in 1..(a + b), NEW j \in 1..(a + b), i < j
      PROVE  u[i] < u[j]
  <2>1. CASE j <= a
    BY <1>1, <1>4, <1>6, <1>9, <2>1
  <2>2. CASE i <= a /\ j > a
    <3>1. s[i] \in A /\ t[j - a] \in B
      BY <1>1, <1>4, <2>2
    <3>2. u[i] = s[i] /\ u[j] = t[j - a]
      BY <1>1, <1>6, <2>2
    <3> QED
      BY <1>3, <3>1, <3>2
  <2>3. CASE i > a
    <3>1. i - a \in 1..b /\ j - a \in 1..b /\ i - a < j - a
      BY <1>1, <1>9, <2>3
    <3>2. t[i - a] < t[j - a]
      BY <1>4, <3>1
    <3> QED
      BY <1>1, <1>6, <1>9, <2>3, <3>2
  <2> QED
    BY <1>1, <1>9, <2>1, <2>2, <2>3
<1>10. u \in InOrder(C)
  BY <1>5, <1>8, <1>9 DEF InOrder
<1> QED
  BY <1>1, <1>6, <1>8, <1>10 DEF C

-----------------------------------------------------------------------------
(***************************************************************************)
(* The inductive invariant.                                                *)
(***************************************************************************)

\* A round is asked for while rounds are left; the driver calls it complete only
\* when it has nothing left; the caller is told the number of stored scans, and
\* nothing is stored after that.
ReportInv ==
    /\ phase \in {"waiting", "judging"} => round < MaxRounds
    /\ mCompleted = 1 => given = Len(cache)
    /\ mNum # NotSet => phase = "done"
    /\ NothingMissed

ScanInv == ScanTypeOK /\ StoredInOrder /\ ReportInv

\* A function on 1..n is a sequence of length n.
LEMMA FunctionIsSeq ==
    ASSUME NEW R, NEW n \in Nat, NEW t \in [1..n -> R]
    PROVE  t \in Seq(R) /\ Len(t) = n
OBVIOUS

\* What is copied of a scan, and what a reply adds to the array.
LEMMA CopiedFacts ==
    ASSUME cache \in Seq(Scans), NEW id \in 1..Len(cache)
    PROVE  /\ CopiedScan(id) \in Entries
           /\ CopiedScan(id).scan_id = id
           /\ CopiedScan(id).num_results \in 0..MaxAp
           /\ CopiedScan(id).num_results <= cache[id].len
<1>1. cache[id].num \in Nat /\ cache[id].len \in Nat /\ MaxAp \in Nat
  <2>1. cache[id] \in Scans
    OBVIOUS
  <2> QED
    BY <2>1, ScanAssumption
<1> DEFINE k == Min({cache[id].num, cache[id].len, MaxAp})
<1>2. k \in Nat /\ k <= cache[id].len /\ k <= MaxAp
  BY <1>1, MinOfThree
<1>3. CopiedScan(id) = [scan_id |-> id, num_results |-> k]
  BY DEF CopiedScan
<1> HIDE DEF k
<1> QED
  BY <1>1, <1>2, <1>3 DEF Entries

LEMMA StoredFacts ==
    ASSUME ScanTypeOK, NEW S, NEW ids \in Seq(S), S \subseteq 1..Len(cache),
           NEW stored, stored = Stored(ids)
    PROVE  \E n \in Nat :
              /\ n = IF Len(ids) <= mMax - mRetrieved THEN Len(ids) ELSE mMax - mRetrieved
              /\ stored \in Seq(Entries)
              /\ Len(stored) = mRetrieved + n
              /\ \A k \in 1..(mRetrieved + n) :
                    stored[k] = IF k <= mRetrieved THEN mScans[k]
                                                ELSE CopiedScan(ids[k - mRetrieved])
<1> DEFINE R == Entries
           n == Min({Len(ids), mMax - mRetrieved})
           t == [j \in 1..n |-> CopiedScan(ids[j])]
<1>1. /\ mScans \in Seq(R) /\ mRetrieved = Len(mScans) /\ mRetrieved \in Nat
      /\ mMax \in Nat /\ mRetrieved <= mMax /\ cache \in Seq(Scans)
  BY ScanAssumption DEF ScanTypeOK, mRetrieved, Entries
<1>2. /\ n \in Nat /\ n <= Len(ids)
      /\ n = IF Len(ids) <= mMax - mRetrieved THEN Len(ids) ELSE mMax - mRetrieved
  <2>1. Len(ids) \in Int /\ mMax - mRetrieved \in Int
    BY <1>1
  <2>2. n = IF Len(ids) <= mMax - mRetrieved THEN Len(ids) ELSE mMax - mRetrieved
    BY <2>1, MinOfTwo, Zenon DEF n
  <2> QED
    BY <1>1, <2>2
<1> HIDE DEF n
<1>3. t \in Seq(R) /\ Len(t) = n
  <2>1. \A j \in 1..n : ids[j] \in 1..Len(cache)
    <3> TAKE j \in 1..n
    <3>1. Len(ids) \in Nat
      OBVIOUS
    <3>2. j \in 1..Len(ids)
      BY <1>2, <3>1
    <3>3. ids[j] \in S
      BY <3>2
    <3> QED
      BY <3>3
  <2>2. \A j \in 1..n : CopiedScan(ids[j]) \in R
    BY <1>1, <2>1, CopiedFacts
  <2> HIDE DEF R
  <2>3. t \in [1..n -> R]
    BY <2>2
  <2> HIDE DEF t
  <2> QED
    BY <1>2, <2>3, FunctionIsSeq
<1>4. stored = mScans \o t
  BY DEF Stored, n
<1>5. \A j \in 1..n : t[j] = CopiedScan(ids[j])
  OBVIOUS
<1> HIDE DEF R, t
<1>6. /\ stored \in Seq(R) /\ Len(stored) = mRetrieved + n
      /\ \A k \in 1..(mRetrieved + n) :
            stored[k] = IF k <= mRetrieved THEN mScans[k] ELSE t[k - mRetrieved]
  <2>1. /\ stored \in Seq(R) /\ Len(stored) = Len(mScans) + Len(t)
        /\ \A k \in 1..(Len(mScans) + Len(t)) :
              stored[k] = IF k <= Len(mScans) THEN mScans[k] ELSE t[k - Len(mScans)]
    <3>1. mScans \in Seq(R) /\ t \in Seq(R)
      BY <1>1, <1>3
    <3> QED
      BY <3>1, <1>4, ConcatProperties, ZenonT(40)
  <2> QED
    BY <1>1, <1>3, <2>1
<1>7. \A k \in 1..(mRetrieved + n) : ~(k <= mRetrieved) => k - mRetrieved \in 1..n
  BY <1>1, <1>2
<1> QED
  BY <1>2, <1>5, <1>6, <1>7 DEF R

LEMMA InitScan == ScanInit => ScanInv
<1> SUFFICES ASSUME ScanInit PROVE ScanInv
  OBVIOUS
<1>1. cache \in Seq(Scans) /\ mMax \in Nat
  BY ScanAssumption DEF ScanInit
<1>2. ScanTypeOK
  <2>1. mRetrieved = 0 /\ mScans \in Seq(Entries)
    BY DEF ScanInit, mRetrieved
  <2>2. Len(cache) \in Nat
    BY <1>1
  <2> QED
    <3>1. \A k \in 1..mRetrieved : FALSE
      BY <2>1
    <3>2. /\ given \in 0..Len(cache) /\ replies \in 0..MaxReplies /\ mMax \in 0..MaxMax
          /\ mRetrieved <= mMax /\ prev_retrieved \in 0..mRetrieved
          /\ round \in 0..MaxRounds
      BY <1>1, <2>1, <2>2, BoundsAreNat DEF ScanInit
    <3> QED
      BY <1>1, <2>1, <3>1, <3>2 DEF ScanInit, ScanTypeOK, Entries
<1>3. StoredInOrder
  <2> DEFINE ids == << >>
  <2>1. WithResults(1, given) = {}
    BY DEF ScanInit, WithResults
  <2>2. Cardinality(WithResults(1, given)) = 0
    BY <2>1, FS_EmptySet, Zenon
  <2>3. ids \in InOrder(WithResults(1, given))
    BY <2>2 DEF InOrder
  <2>4. Min({0, mMax}) = 0
    <3>1. 0 \in Int /\ mMax \in Int /\ 0 <= mMax
      BY <1>1
    <3> QED
      BY <3>1, MinOfTwo
  <2>5. mRetrieved = 0 /\ Len(ids) = 0
    BY DEF ScanInit, mRetrieved
  <2>6. mRetrieved = Min({Len(ids), mMax}) /\ 1..mRetrieved = {}
    BY <2>4, <2>5
  <2> QED
    BY <2>3, <2>6 DEF StoredInOrder
<1>4. ReportInv
  BY DEF ScanInit, ReportInv, NothingMissed, NotSet
<1> QED
  BY <1>2, <1>3, <1>4 DEF ScanInv

\* The driver's cache does not change during a call, nor does its order.
LEMMA InOrderKept ==
    ASSUME NEW n, given' = n, cache' = cache
    PROVE  InOrder(WithResults(1, given))' = InOrder(WithResults(1, n))
<1>1. WithResults(1, given)' = WithResults(1, n)
  BY DEF WithResults
<1> QED
  BY <1>1, Zenon DEF InOrder

\* Steps that store nothing keep the array in order.
LEMMA StoredInOrderKept ==
    ASSUME StoredInOrder, UNCHANGED <<cache, given, mMax, mScans>>
    PROVE  StoredInOrder'
<1>1. InOrder(WithResults(1, given))' = InOrder(WithResults(1, given))
  BY InOrderKept
<1>2. mRetrieved' = mRetrieved /\ mMax' = mMax /\ mScans' = mScans /\ cache' = cache
  BY DEF mRetrieved
<1>3. PICK ids \in InOrder(WithResults(1, given)) :
         /\ mRetrieved = Min({Len(ids), mMax})
         /\ \A k \in 1..mRetrieved :
               /\ mScans[k].scan_id = ids[k]
               /\ mScans[k].num_results <= cache[ids[k]].len
  BY Zenon DEF StoredInOrder
<1>4. ids \in InOrder(WithResults(1, given))'
  BY <1>1, Zenon
<1>5. /\ mRetrieved' = Min({Len(ids), mMax'})
      /\ \A k \in 1..mRetrieved' :
            /\ mScans'[k].scan_id = ids[k]
            /\ mScans'[k].num_results <= cache'[ids[k]].len
  BY <1>2, <1>3, Zenon
<1> QED
  BY <1>4, <1>5, Zenon DEF StoredInOrder

\* A reply appends to the array what there is room for.
LEMMA ResponseStores ==
    ASSUME ScanTypeOK, StoredInOrder, NEW n \in Nat, NEW flagged \in BOOLEAN,
           handleScanResults(n, flagged)
    PROVE  ScanTypeOK' /\ StoredInOrder'
<1> DEFINE S == WithResults(given + 1, given + n)
<1>1. /\ given' = given + n /\ given + n <= Len(cache) /\ given \in Nat
      /\ cache' = cache /\ mMax' = mMax
      /\ mRetrieved \in Nat /\ mMax \in Nat /\ mRetrieved <= mMax /\ Len(cache) \in Nat
  BY ScanAssumption DEF handleScanResults, ScanTypeOK, mRetrieved
<1>2. PICK ids \in InOrder(S) : mScans' = Stored(ids)
  BY DEF handleScanResults
<1>3. PICK old \in InOrder(WithResults(1, given)) :
         /\ mRetrieved = Min({Len(old), mMax})
         /\ \A k \in 1..mRetrieved :
               /\ mScans[k].scan_id = old[k]
               /\ mScans[k].num_results <= cache[old[k]].len
  BY DEF StoredInOrder
<1>4. S \subseteq (given + 1)..(given + n) /\ S \subseteq 1..Len(cache)
  BY <1>1 DEF WithResults
<1> DEFINE a == Len(old)
           b == Len(ids)
           u == [i \in 1..(a + b) |-> IF i <= a THEN old[i] ELSE ids[i - a]]
<1>5. ids \in Seq(S)
  <2>1. Cardinality(S) \in Nat
    <3>1. given + 1 \in Int /\ given + n \in Int
      BY <1>1
    <3> HIDE DEF S
    <3> QED
      BY <3>1, WithResultsFinite DEF S
  <2>2. ids \in [1..Cardinality(S) -> S]
    BY DEF InOrder
  <2> HIDE DEF S
  <2> QED
    BY <2>1, <2>2, FunctionIsSeq
<1>6. /\ u \in InOrder(WithResults(1, given + n))
      /\ a \in Nat /\ b \in Nat /\ Len(u) = a + b
  <2>1. given + n \in Nat /\ given <= given + n
    BY <1>1
  <2> QED
    BY <1>1, <1>2, <2>1, InOrderConcat
<1>7. PICK m \in Nat :
         /\ m = IF b <= mMax - mRetrieved THEN b ELSE mMax - mRetrieved
         /\ mScans' \in Seq(Entries)
         /\ Len(mScans') = mRetrieved + m
         /\ \A k \in 1..(mRetrieved + m) :
               mScans'[k] = IF k <= mRetrieved THEN mScans[k]
                                               ELSE CopiedScan(ids[k - mRetrieved])
  <2> HIDE DEF S
  <2> QED
    BY <1>2, <1>4, <1>5, StoredFacts
<1>8. mRetrieved = IF a <= mMax THEN a ELSE mMax
  <2>1. a \in Int /\ mMax \in Int
    BY <1>1, <1>6
  <2> HIDE DEF a
  <2> QED
    BY <1>3, <2>1, MinOfTwo DEF a
<1> HIDE DEF S, a, b
\* Each new place holds the scan that is next in the driver's order.
<1>9. ASSUME NEW k \in 1..(mRetrieved + m), k > mRetrieved
      PROVE  /\ mScans'[k].scan_id = u[k]
             /\ mScans'[k].scan_id \in (given + 1)..(given + n)
             /\ mScans'[k].num_results \in 0..MaxAp
             /\ mScans'[k].num_results <= cache[u[k]].len
  <2>1. k - mRetrieved \in 1..b /\ mRetrieved = a /\ k \in 1..(a + b) /\ ~(k <= a)
    <3>1. m > 0 /\ m <= b /\ mRetrieved < mMax
      <4>1. m = IF b <= mMax - mRetrieved THEN b ELSE mMax - mRetrieved
        BY <1>7
      <4>2. k \in Nat /\ k <= mRetrieved + m /\ m \in Nat
        BY <1>1, <1>7
      <4> QED
        BY <1>1, <1>6, <1>9, <4>1, <4>2
    <3>2. mRetrieved = a
      BY <1>1, <1>6, <1>8, <3>1
    <3> QED
      BY <1>1, <1>6, <1>7, <1>9, <3>1, <3>2, SMTT(40)
  <2>2. u[k] = ids[k - mRetrieved]
    BY <2>1
  <2>3. ids[k - mRetrieved] \in S
    BY <1>5, <2>1 DEF b
  <2>4. mScans'[k] = CopiedScan(ids[k - mRetrieved])
    BY <1>1, <1>7, <1>9
  <2>5. cache \in Seq(Scans)
    BY DEF ScanTypeOK
  <2> HIDE DEF u
  <2> QED
    BY <1>4, <2>2, <2>3, <2>4, <2>5, CopiedFacts
<1>10. ASSUME NEW k \in 1..mRetrieved
       PROVE  /\ mScans'[k] = mScans[k] /\ u[k] = old[k]
              /\ mScans[k].scan_id \in 1..given /\ mScans[k].num_results \in 0..MaxAp
  <2>1. k \in 1..(mRetrieved + m) /\ k <= a /\ k \in 1..(a + b) /\ k <= mRetrieved
    BY <1>1, <1>6, <1>7, <1>8
  <2>2. mScans'[k] = mScans[k]
    BY <1>7, <2>1
  <2>3. u[k] = old[k]
    BY <2>1
  <2> QED
    BY <2>2, <2>3 DEF ScanTypeOK
<1> HIDE DEF u
<1>11. mRetrieved' = mRetrieved + m
  BY <1>7 DEF mRetrieved
<1>12. ScanTypeOK'
  <2>1. \A k \in 1..mRetrieved' :
           mScans'[k].scan_id \in 1..given' /\ mScans'[k].num_results \in 0..MaxAp
    <3> TAKE k \in 1..mRetrieved'
    <3>1. CASE k <= mRetrieved
      <4>1. k \in 1..mRetrieved
        BY <1>1, <1>7, <1>11, <3>1
      <4>2. mScans'[k] = mScans[k] /\ mScans[k].scan_id \in 1..given
            /\ mScans[k].num_results \in 0..MaxAp
        BY <1>10, <4>1
      <4> QED
        BY <1>1, <4>2
    <3>2. CASE k > mRetrieved
      BY <1>1, <1>9, <1>11, <3>2
    <3> QED
      BY <1>1, <1>7, <1>11, <3>1, <3>2
  <2>2. mRetrieved' \in Nat /\ mRetrieved' <= mMax' /\ given' \in 0..Len(cache')
    BY <1>1, <1>7, <1>11
  <2>3. prev_retrieved' \in 0..mRetrieved'
    BY <1>1, <1>7, <1>11 DEF handleScanResults, ScanTypeOK
  <2>4. replies' \in 0..MaxReplies /\ mCompleted' \in {0, 1}
    <3>1. replies \in Nat /\ replies < MaxReplies /\ replies' = replies + 1
      BY BoundsAreNat DEF handleScanResults, ScanTypeOK
    <3>2. mCompleted' \in {0, 1}
      BY DEF handleScanResults, ScanTypeOK
    <3> QED
      BY <3>1, <3>2, BoundsAreNat
  <2>5. cache' \in Seq(Scans) /\ mMax' \in 0..MaxMax /\ round' \in 0..MaxRounds
        /\ phase' \in {"idle", "waiting", "judging", "done"}
        /\ mNum' \in {NotSet} \cup 0..mMax' /\ barren' \in BOOLEAN
    BY DEF handleScanResults, ScanTypeOK
  <2> QED
    BY <1>7, <2>1, <2>2, <2>3, <2>4, <2>5 DEF ScanTypeOK, Entries
<1>13. StoredInOrder'
  <2>1. u \in InOrder(WithResults(1, given))'
    <3>1. InOrder(WithResults(1, given))' = InOrder(WithResults(1, given + n))
      BY <1>1, InOrderKept
    <3> QED
      BY <1>6, <3>1, Zenon
  <2>2. mRetrieved' = Min({Len(u), mMax'})
    <3>1. a + b \in Int /\ mMax \in Int
      BY <1>1, <1>6
    <3>2. Min({a + b, mMax}) = IF a + b <= mMax THEN a + b ELSE mMax
      BY <3>1, MinOfTwo, Zenon
    <3>3. mRetrieved' = IF a + b <= mMax THEN a + b ELSE mMax
      <4>1. /\ a \in Nat /\ b \in Nat /\ m \in Nat /\ mMax \in Nat /\ mRetrieved \in Nat
            /\ m = IF b <= mMax - mRetrieved THEN b ELSE mMax - mRetrieved
        BY <1>1, <1>6, <1>7
      <4>2. mRetrieved + m = IF a + b <= mMax THEN a + b ELSE mMax
        BY <1>8, <4>1
      <4> QED
        BY <1>11, <4>2, Zenon
    <3>4. Len(u) = a + b /\ mMax' = mMax
      BY <1>1, <1>6
    <3> QED
      BY <3>2, <3>3, <3>4, Zenon
  <2>3. \A k \in 1..mRetrieved' :
           mScans'[k].scan_id = u[k] /\ mScans'[k].num_results <= cache'[u[k]].len
    <3> TAKE k \in 1..mRetrieved'
    <3>1. CASE k <= mRetrieved
      <4>1. k \in 1..mRetrieved
        BY <1>1, <1>7, <1>11, <3>1
      <4>2. mScans'[k] = mScans[k] /\ u[k] = old[k]
        BY <1>10, <4>1
      <4> QED
        BY <1>1, <1>3, <4>1, <4>2
    <3>2. CASE k > mRetrieved
      BY <1>1, <1>9, <1>11, <3>2
    <3> QED
      BY <1>1, <1>7, <1>11, <3>1, <3>2
  <2> QED
    BY <2>1, <2>2, <2>3, Zenon DEF StoredInOrder
<1> QED
  BY <1>12, <1>13

\* Steps of execute itself store nothing.
LEMMA OtherStepStores ==
    ASSUME ScanInv,
           \/ Ask \/ LeaveLoop \/ ScanRequestFails \/ Acknowledged \/ Stop \/ GoOn
           \/ UNCHANGED scanVars
    PROVE  ScanTypeOK' /\ StoredInOrder'
<1> USE DEF ScanInv
<1>1. /\ UNCHANGED <<cache, given, mMax, mScans>> /\ mRetrieved' = mRetrieved
      /\ mRetrieved \in Nat /\ mMax \in Nat /\ mRetrieved <= mMax
  BY BoundsAreNat
  DEF Ask, LeaveLoop, ScanRequestFails, Acknowledged, Stop, GoOn, scanVars, mRetrieved, ScanTypeOK
<1>2. StoredInOrder'
  BY <1>1, StoredInOrderKept
<1>3. /\ replies' \in 0..MaxReplies /\ mCompleted' \in {0, 1}
      /\ prev_retrieved' \in 0..mRetrieved
  BY <1>1, BoundsAreNat
  DEF Ask, LeaveLoop, ScanRequestFails, Acknowledged, Stop, GoOn, scanVars, ScanTypeOK
<1>4. barren' \in BOOLEAN
  <2>1. barren' = barren \/ barren' = (mRetrieved = prev_retrieved)
    BY Zenon DEF Ask, LeaveLoop, ScanRequestFails, Acknowledged, Stop, GoOn, scanVars
  <2>2. (mRetrieved = prev_retrieved) \in BOOLEAN /\ barren \in BOOLEAN
    BY DEF ScanTypeOK
  <2> QED
    BY <2>1, <2>2, Zenon
<1>5. round' \in 0..MaxRounds
  <2>1. CASE GoOn
    <3>1. round \in 0..MaxRounds /\ round < MaxRounds /\ round' = round + 1
      BY <2>1 DEF GoOn, ScanTypeOK, ReportInv
    <3> QED
      BY <3>1, BoundsAreNat
  <2>2. CASE ~GoOn
    BY <2>2, BoundsAreNat DEF Ask, LeaveLoop, ScanRequestFails, Acknowledged, Stop, scanVars, ScanTypeOK
  <2> QED
    BY <2>1, <2>2
<1>6. phase' \in {"idle", "waiting", "judging", "done"} /\ mNum' \in {NotSet} \cup 0..mMax
  BY <1>1 DEF Ask, LeaveLoop, ScanRequestFails, Acknowledged, Stop, GoOn, Report, scanVars, ScanTypeOK
<1> QED
  BY <1>1, <1>2, <1>3, <1>4, <1>5, <1>6 DEF ScanTypeOK

\* An array that is not full holds every scan with results that was handed over.
LEMMA NotFullHasAll ==
    ASSUME ScanTypeOK, StoredInOrder, mRetrieved < mMax
    PROVE  mRetrieved = Cardinality(WithResults(1, given))
<1>1. PICK ids \in InOrder(WithResults(1, given)) : mRetrieved = Min({Len(ids), mMax})
  BY DEF StoredInOrder
<1>2. mMax \in Int /\ 1 \in Int /\ given \in Int
  BY BoundsAreNat DEF ScanTypeOK
<1> DEFINE c == Cardinality(WithResults(1, given))
<1>3. c \in Nat
  BY <1>2, WithResultsFinite
<1>4. ids \in [1..c -> WithResults(1, given)]
  BY <1>1 DEF InOrder
<1> HIDE DEF c
<1>5. Len(ids) = c
  BY <1>3, <1>4
<1>6. Min({c, mMax}) = IF c <= mMax THEN c ELSE mMax
  BY <1>2, <1>3, MinOfTwo
<1>7. mRetrieved = IF c <= mMax THEN c ELSE mMax
  BY <1>1, <1>5, <1>6
<1> QED
  BY <1>2, <1>3, <1>7 DEF c

LEMMA StepReports ==
    ASSUME ScanInv, [ScanNext]_scanVars
    PROVE  ReportInv'
<1> USE DEF ScanInv
<1>1. CASE Ask
  BY <1>1 DEF Ask, ReportInv, NothingMissed
\* The rounds have run out, or the array is full.
<1>2. CASE LeaveLoop
  <2>1. /\ round' = round /\ mMax' = mMax /\ mNum' = mRetrieved /\ phase' = "done"
        /\ mCompleted' = mCompleted /\ given' = given /\ cache' = cache
        /\ round >= MaxRounds \/ mRetrieved >= mMax
    BY <1>2 DEF LeaveLoop, Report
  <2>2. round \in Nat /\ mMax \in Nat /\ mRetrieved \in Nat
    BY BoundsAreNat DEF ScanTypeOK, mRetrieved
  <2>3. NothingMissed'
    BY <2>1, <2>2, BoundsAreNat DEF NothingMissed
  <2> QED
    BY <2>1, <2>3 DEF ReportInv
<1>3. CASE ScanRequestFails
  BY <1>3 DEF ScanRequestFails, ReportInv, NothingMissed
<1>4. CASE \E n \in 0..MaxCache, flagged \in BOOLEAN : handleScanResults(n, flagged)
  <2>1. PICK n \in Nat, flagged \in BOOLEAN : handleScanResults(n, flagged)
    BY <1>4, BoundsAreNat
  <2>2. /\ phase = "waiting" /\ phase' = phase /\ round' = round /\ mNum' = mNum
        /\ cache' = cache
    BY <2>1 DEF handleScanResults
  <2>3. mCompleted' = 1 => given' = Len(cache)
    BY <2>1 DEF handleScanResults, ReportInv, ScanTypeOK
  <2> QED
    BY <2>2, <2>3 DEF ReportInv, NothingMissed
<1>5. CASE Acknowledged
  BY <1>5 DEF Acknowledged, ReportInv, NothingMissed
\* A round that stored something and was the last has brought everything.
<1>6. CASE Stop
  <2>1. /\ round' = round /\ mMax' = mMax /\ mNum' = mRetrieved /\ phase' = "done"
        /\ mCompleted' = mCompleted /\ given' = given /\ cache' = cache
    BY <1>6 DEF Stop, Report
  <2>2. ASSUME mNum' < mMax', ~barren'
        PROVE  mNum' = Cardinality(WithResults(1, Len(cache)))'
    <3>1. mCompleted = 1
      BY <1>6, <2>2 DEF Stop, NothingNew, ScanTypeOK
    <3>2. given = Len(cache) /\ mRetrieved < mMax
      BY <2>1, <2>2, <3>1 DEF ReportInv
    <3>3. mRetrieved = Cardinality(WithResults(1, given))
      BY <3>2, NotFullHasAll
    <3>4. WithResults(1, Len(cache))' = WithResults(1, given)
      BY <2>1, <3>2 DEF WithResults
    <3> QED
      BY <2>1, <3>3, <3>4, Zenon
  <2>3. NothingMissed'
    BY <2>2 DEF NothingMissed
  <2> QED
    BY <2>1, <2>3 DEF ReportInv
<1>7. CASE GoOn
  BY <1>7 DEF GoOn, ReportInv, NothingMissed
<1>8. CASE UNCHANGED scanVars
  BY <1>8, Zenon DEF scanVars, ReportInv, NothingMissed, WithResults
<1> QED
  BY <1>1, <1>2, <1>3, <1>4, <1>5, <1>6, <1>7, <1>8 DEF ScanNext

LEMMA StepScan == ScanInv /\ [ScanNext]_scanVars => ScanInv'
<1> SUFFICES ASSUME ScanInv, [ScanNext]_scanVars PROVE ScanInv'
  OBVIOUS
<1>1. ScanTypeOK' /\ StoredInOrder'
  <2>1. CASE \E n \in 0..MaxCache, flagged \in BOOLEAN : handleScanResults(n, flagged)
    <3>1. PICK n \in Nat, flagged \in BOOLEAN : handleScanResults(n, flagged)
      BY <2>1, BoundsAreNat
    <3> QED
      BY <3>1, ResponseStores DEF ScanInv
  <2>2. CASE \/ Ask \/ LeaveLoop \/ ScanRequestFails \/ Acknowledged \/ Stop \/ GoOn
             \/ UNCHANGED scanVars
    BY <2>2, OtherStepStores
  <2> QED
    BY <2>1, <2>2, Zenon DEF ScanNext
<1> QED
  BY <1>1, StepReports DEF ScanInv

LEMMA ScanInvariant == ScanSpec => []ScanInv
BY InitScan, StepScan, PTL DEF ScanSpec

-----------------------------------------------------------------------------
(***************************************************************************)
(* The theorems.                                                           *)
(***************************************************************************)

\* Whatever the driver sends, the array is not written beyond its mMax places,
\* and no place gets more results than it has room for (handleResponse's excess
\* checks); every variable keeps its type.
THEOREM ScanTypeCorrect == ScanSpec => []ScanTypeOK
BY ScanInvariant, PTL DEF ScanInv

\* The array holds the first scans with results, in the driver's order and none
\* twice, however the driver cuts its cache into replies and rounds.
THEOREM ScansStoredInOrder == ScanSpec => []StoredInOrder
BY ScanInvariant, PTL DEF ScanInv

\* A caller who is told of fewer scans than he has room for has all of them,
\* unless execute ran out of rounds or took an empty round for the end.
THEOREM NoScanMissed == ScanSpec => []NothingMissed
<1>1. ScanInv => NothingMissed
  BY DEF ScanInv, ReportInv
<1> QED
  BY <1>1, ScanInvariant, PTL
=============================================================================
