--------------------------- MODULE RequestProofs ---------------------------
(***************************************************************************)
(* The list of pending requests: it stays a list, for every number of      *)
(* slots and wherever the comm thread interrupts the tcpip thread; and     *)
(* between list operations it implements RequestQueue.                     *)
(***************************************************************************)
EXTENDS MqttRequests, FiniteSetTheorems, TLAPS

-----------------------------------------------------------------------------
(* The list as a sequence.                                                 *)

(* The n slots of q are linked in this order: tl points at the first, the  *)
(* next of each at the one behind it, and no slot occurs twice.            *)
Linked(q, n, tl, nx) ==
    /\ n \in 0..MaxReq /\ q \in [1..n -> Slots]
    /\ \A i, j \in 1..n : q[i] = q[j] => i = j
    /\ tl = IF n = 0 THEN NULL ELSE q[1]
    /\ \A i \in 1..n : nx[q[i]] = IF i = n THEN NULL ELSE q[i + 1]

(* q with r behind its last slot, and without its i-th.                    *)
With(q, n, r) == [k \in 1..(n + 1) |-> IF k <= n THEN q[k] ELSE r]
Less(q, n, i) == [k \in 1..(n - 1) |-> IF k < i THEN q[k] ELSE q[k + 1]]

(* v has the sums of the differences d along q.                            *)
Summed(v, q, n, d) ==
    /\ v \in [0..n -> Int] /\ v[0] = 0
    /\ \A k \in 1..n : v[k] = v[k - 1] + d[q[k]]

(* The sums with x behind the last, without the i-th difference x, and     *)
(* with the i-th difference greater by x.                                  *)
SumWith(v, n, x) == [k \in 0..(n + 1) |-> IF k <= n THEN v[k] ELSE v[n] + x]
SumLess(v, n, i, x) == [k \in 0..(n - 1) |-> IF k < i THEN v[k] ELSE v[k + 1] - x]
SumMore(v, n, i, x) == [k \in 0..n |-> IF k < i THEN v[k] ELSE v[k] + x]

(* Every nonempty set of naturals has a least element.                     *)
LEMMA Least ==
    ASSUME NEW T \in SUBSET Nat, T # {}
    PROVE  \E x \in T : \A y \in T : x <= y
  <1> DEFINE R == OpToRel(<, Nat)
  <1>1. IsWellFoundedOn(R, Nat)
    BY NatLessThanWellFounded
  <1>2. \A x, y \in Nat : x < y => <<x, y>> \in R
    BY DEF OpToRel
  <1> HIDE DEF R
  <1>3. PICK x \in T : \A y \in T : ~ (<<y, x>> \in R)
    BY <1>1, WFMin, Zenon
  <1>4. ASSUME NEW y \in T PROVE x <= y
    <2>1. x \in Nat /\ y \in Nat
      OBVIOUS
    <2>2. ~(y < x)
      BY <1>2, <1>3, <2>1, Zenon
    <2> QED BY <2>1, <2>2
  <1> QED BY <1>4

(* The walk and the sums of the model, for any list.                       *)
WalkOf(tl, nx) ==
    LET w[k \in 1..(MaxReq + 1)] ==
            IF k = 1 THEN tl
            ELSE IF w[k - 1] = NULL THEN NULL ELSE nx[w[k - 1]]
    IN  w
QueueOf(w) ==
    LET len == CHOOSE n \in 0..MaxReq : \A k \in Slots : w[k] # NULL <=> k <= n
    IN  [k \in 1..len |-> w[k]]
SumOf(q, d) ==
    LET s[k \in 0..Len(q)] == IF k = 0 THEN 0 ELSE s[k - 1] + d[q[k]] IN s

(* The walk sees the slots of q in their order, and then the end.          *)
LEMMA WalkIs ==
    ASSUME NEW q, NEW n, NEW tl, NEW nx, Linked(q, n, tl, nx)
    PROVE  WalkOf(tl, nx) = [k \in 1..(MaxReq + 1) |-> IF k <= n THEN q[k] ELSE NULL]
  <1> DEFINE K == 1..(MaxReq + 1)
             Of(w) == [k \in K |-> IF k = 1 THEN tl
                                   ELSE IF w[k - 1] = NULL THEN NULL ELSE nx[w[k - 1]]]
             v == [k \in K |-> IF k <= n THEN q[k] ELSE NULL]
             u == WalkOf(tl, nx)
  <1>0. MaxReq \in Nat /\ MaxReq > 0 /\ n \in 0..MaxReq
    BY RequestsAssumption DEF Linked
  <1>1. v = Of(v)
    <2>1. ASSUME NEW k \in K PROVE v[k] = Of(v)[k]
      BY <1>0 DEF Linked, Slots, NULL
    <2> QED BY <2>1
  <1>2. u = Of(u)
    BY <1>1, Zenon DEF WalkOf
  <1> HIDE DEF u, v
  <1> DEFINE T == {k \in K : u[k] # v[k]}
  <1>3. T = {}
    <2> SUFFICES ASSUME T # {} PROVE FALSE
      OBVIOUS
    <2>1. T \in SUBSET Nat
      BY <1>0
    <2> HIDE DEF T
    <2>2. PICK m \in T : \A y \in T : m <= y
      BY <2>1, Least, Zenon
    <2>3. m \in K /\ u[m] # v[m] /\ \A k \in K : k < m => u[k] = v[k]
      BY <1>0, <2>2 DEF T
    <2>4. u[m] = Of(u)[m] /\ v[m] = Of(v)[m]
      BY <1>1, <1>2, Zenon
    <2>5. m = 1 \/ (m - 1 \in K /\ m - 1 < m)
      BY <1>0, <2>3
    <2>6. m = 1 \/ u[m - 1] = v[m - 1]
      BY <2>3, <2>5, Zenon
    <2>7. Of(u)[m] = Of(v)[m]
      BY <2>3, <2>6
    <2> QED BY <2>3, <2>4, <2>7, Zenon
  <1>4. \A k \in K : u[k] = v[k]
    BY <1>3
  <1>5. u = [k \in K |-> u[k]]
    <2> DEFINE e(k) == IF k = 1 THEN tl
                       ELSE IF u[k - 1] = NULL THEN NULL ELSE nx[u[k - 1]]
    <2>1. u = [k \in K |-> e(k)]
      BY <1>2
    <2> HIDE DEF e
    <2> QED BY <2>1
  <1>6. v = [k \in K |-> v[k]]
    BY DEF v
  <1>7. u = v
    BY <1>4, <1>5, <1>6
  <1> QED BY <1>7 DEF u, v

(* So the queue of the model is q.                                         *)
LEMMA QueueIs ==
    ASSUME NEW q, NEW n, NEW tl, NEW nx, Linked(q, n, tl, nx)
    PROVE  QueueOf(WalkOf(tl, nx)) = q /\ Len(q) = n
  <1> DEFINE w == WalkOf(tl, nx)
             P(m) == \A k \in Slots : w[k] # NULL <=> k <= m
             len == CHOOSE m \in 0..MaxReq : P(m)
  <1>0. /\ MaxReq \in Nat /\ MaxReq > 0 /\ n \in 0..MaxReq /\ q \in [1..n -> Slots]
        /\ \A k \in Slots : k \in Int
    BY RequestsAssumption DEF Linked, Slots
  <1>1. w = [k \in 1..(MaxReq + 1) |-> IF k <= n THEN q[k] ELSE NULL]
    BY WalkIs
  <1>2. \A k \in Slots : w[k] # NULL <=> k <= n
    BY <1>0, <1>1 DEF Slots, NULL
  <1> HIDE DEF w
  <1>3. \A m \in 0..MaxReq : P(m) => m = n
    BY <1>0, <1>2 DEF Slots
  <1>4. len = n
    BY <1>0, <1>2, <1>3
  <1> HIDE DEF len
  <1>5. [k \in 1..len |-> w[k]] = q
    <2>1. \A k \in 1..n : w[k] = q[k]
      BY <1>0, <1>1
    <2> QED BY <1>0, <1>4, <2>1
  <1>6. Len(q) = n
    BY <1>0
  <1> QED BY <1>5, <1>6, Zenon DEF QueueOf, len, w

(* And the sums of the model are those of v.                               *)
LEMMA SumIs ==
    ASSUME NEW q, NEW n \in Nat, NEW d, NEW v, Len(q) = n, Summed(v, q, n, d)
    PROVE  SumOf(q, d) = v
  <1> DEFINE K == 0..n
             Of(w) == [k \in K |-> IF k = 0 THEN 0 ELSE w[k - 1] + d[q[k]]]
             u == SumOf(q, d)
  <1>1. v = Of(v)
    <2>0. v = [k \in K |-> v[k]]
      BY DEF Summed
    <2>1. ASSUME NEW k \in K PROVE v[k] = Of(v)[k]
      BY DEF Summed
    <2> QED BY <2>0, <2>1
  <1>2. u = Of(u)
    BY <1>1, Zenon DEF SumOf
  <1> HIDE DEF u
  <1> DEFINE T == {k \in K : u[k] # v[k]}
  <1>3. T = {}
    <2> SUFFICES ASSUME T # {} PROVE FALSE
      OBVIOUS
    <2>1. T \in SUBSET Nat
      OBVIOUS
    <2> HIDE DEF T
    <2>2. PICK m \in T : \A y \in T : m <= y
      BY <2>1, Least, Zenon
    <2>3. m \in K /\ u[m] # v[m] /\ \A k \in K : k < m => u[k] = v[k]
      BY <2>2 DEF T
    <2>4. u[m] = Of(u)[m] /\ v[m] = Of(v)[m]
      BY <1>1, <1>2, Zenon
    <2>5. m = 0 \/ (m - 1 \in K /\ m - 1 < m)
      BY <2>3
    <2>6. m = 0 \/ u[m - 1] = v[m - 1]
      BY <2>3, <2>5, Zenon
    <2>7. Of(u)[m] = Of(v)[m]
      BY <2>3, <2>6
    <2> QED BY <2>3, <2>4, <2>7, Zenon
  <1>4. \A k \in K : u[k] = v[k]
    BY <1>3
  <1>5. u = [k \in K |-> u[k]]
    <2> DEFINE e(k) == IF k = 0 THEN 0 ELSE u[k - 1] + d[q[k]]
    <2>1. u = [k \in K |-> e(k)]
      BY <1>2
    <2> HIDE DEF e
    <2> QED BY <2>1
  <1>6. v = [k \in K |-> v[k]]
    BY DEF Summed
  <1> QED BY <1>4, <1>5, <1>6 DEF u

(* Differences along a list always have sums.                              *)
LEMMA SumExists ==
    ASSUME NEW q, NEW n \in Nat, NEW d, \A k \in 1..n : d[q[k]] \in Nat
    PROVE  \E v : Summed(v, q, n, d)
  <1> DEFINE T == {m \in 0..n : ~\E v : Summed(v, q, m, d)}
  <1> SUFFICES T = {}
    BY DEF T
  <1> SUFFICES ASSUME T # {} PROVE FALSE
    OBVIOUS
  <1>1. T \in SUBSET Nat
    OBVIOUS
  <1> HIDE DEF T
  <1>2. PICK m \in T : \A y \in T : m <= y
    BY <1>1, Least, Zenon
  <1>3. m \in 0..n /\ ~\E v : Summed(v, q, m, d)
    BY <1>2 DEF T
  <1>4. CASE m = 0
    <2>1. Summed([k \in 0..0 |-> 0], q, 0, d)
      BY DEF Summed
    <2> QED BY <1>3, <1>4, <2>1, Zenon
  <1>5. CASE m # 0
    <2>1. m - 1 \in 0..n /\ ~(m <= m - 1) /\ m \in 1..n /\ m - 1 \in Nat
      BY <1>3, <1>5
    <2>2. m - 1 \notin T
      BY <1>2, <2>1, Zenon
    <2>3. PICK v : Summed(v, q, m - 1, d)
      BY <2>1, <2>2, Zenon DEF T
    <2> DEFINE w == [k \in 0..m |-> IF k = m THEN v[m - 1] + d[q[m]] ELSE v[k]]
    <2>4. /\ v \in [0..(m - 1) -> Int] /\ v[0] = 0
          /\ \A k \in 1..(m - 1) : v[k] = v[k - 1] + d[q[k]]
      BY <2>3 DEF Summed
    <2>5. d[q[m]] \in Nat /\ v[m - 1] \in Int
      BY <2>1, <2>4
    <2>6. w \in [0..m -> Int] /\ w[0] = 0
      BY <1>3, <1>5, <2>4, <2>5
    <2>7. ASSUME NEW k \in 1..m PROVE w[k] = w[k - 1] + d[q[k]]
      <3>1. CASE k = m
        BY <1>3, <1>5, <3>1
      <3>2. CASE k # m
        <4>1. k \in 1..(m - 1) /\ k \in 0..m /\ k - 1 \in 0..m /\ k - 1 # m
          BY <1>3, <3>2
        <4>2. w[k] = v[k] /\ w[k - 1] = v[k - 1]
          BY <3>2, <4>1
        <4> QED BY <2>4, <4>1, <4>2
      <3> QED BY <3>1, <3>2
    <2> HIDE DEF w
    <2>8. Summed(w, q, m, d)
      BY <2>6, <2>7 DEF Summed
    <2> QED BY <1>3, <2>8, Zenon
  <1> QED BY <1>4, <1>5

(* A free slot leaves room on the list.                                    *)
LEMMA RoomForFree ==
    ASSUME NEW q, NEW n, NEW tl, NEW nx, Linked(q, n, tl, nx),
           NEW r \in Slots, nx[r] = r
    PROVE  n < MaxReq /\ \A i \in 1..n : q[i] # r
  <1>0. /\ MaxReq \in Nat /\ MaxReq > 0 /\ n \in 0..MaxReq /\ q \in [1..n -> Slots]
        /\ r \in 1..MaxReq /\ \A k \in Slots : k \in Int /\ k # NULL
    BY RequestsAssumption DEF Linked, Slots, NULL
  <1>1. ASSUME NEW i \in 1..n, q[i] = r PROVE FALSE
    <2>1. nx[q[i]] = IF i = n THEN NULL ELSE q[i + 1]
      BY DEF Linked
    <2>2. CASE i = n
      BY <1>0, <1>1, <2>1, <2>2
    <2>3. CASE i # n
      <3>1. i + 1 \in 1..n /\ q[i + 1] = q[i]
        BY <1>0, <1>1, <2>1, <2>3
      <3>2. i + 1 = i
        BY <3>1 DEF Linked
      <3> QED BY <3>2, <1>0
    <2> QED BY <2>2, <2>3
  <1>2. ASSUME n = MaxReq PROVE FALSE
    <2> DEFINE S == 1..n
               T == Slots \ {r}
    <2>1. IsFiniteSet(S) /\ Cardinality(S) = n
      BY <1>0, <1>2, FS_Interval
    <2>2. IsFiniteSet(Slots) /\ Cardinality(Slots) = MaxReq
      BY <1>0, FS_Interval DEF Slots
    <2>3. IsFiniteSet(T) /\ Cardinality(T) = MaxReq - 1
      BY <2>2, FS_RemoveElement
    <2>4. q \in [S -> T]
      BY <1>0, <1>1
    <2>5. Cardinality(T) < Cardinality(S)
      BY <1>0, <1>2, <2>1, <2>3
    <2> HIDE DEF S, T
    <2>6. \E x, y \in S : x # y /\ q[x] = q[y]
      BY <2>1, <2>3, <2>4, <2>5, FS_PigeonHole, ZenonT(30)
    <2> QED BY <2>6 DEF Linked, S
  <1> QED BY <1>0, <1>1, <1>2

(* A store into a slot off the list leaves the list as it is.              *)
LEMMA LinkedOff ==
    ASSUME NEW q, NEW n, NEW tl, NEW nx \in [Slots -> 0..MaxReq], Linked(q, n, tl, nx),
           NEW r, NEW y, \A i \in 1..n : q[i] # r
    PROVE  Linked(q, n, tl, [nx EXCEPT ![r] = y])
  BY DEF Linked

(* A slot put behind the last one.                                         *)
LEMMA LinkedBehind ==
    ASSUME NEW q, NEW n, NEW tl, NEW nx \in [Slots -> 0..MaxReq], Linked(q, n, tl, nx),
           NEW r \in Slots, \A i \in 1..n : q[i] # r, n < MaxReq
    PROVE  /\ n = 0 => Linked(With(q, n, r), n + 1, r, [nx EXCEPT ![r] = NULL])
           /\ n # 0 => Linked(With(q, n, r), n + 1, tl,
                              [nx EXCEPT ![r] = NULL, ![q[n]] = r])
  <1> DEFINE p == With(q, n, r)
  <1>0. /\ MaxReq \in Nat /\ n \in 0..MaxReq /\ q \in [1..n -> Slots]
        /\ \A i, j \in 1..n : q[i] = q[j] => i = j
        /\ tl = IF n = 0 THEN NULL ELSE q[1]
        /\ \A i \in 1..n : nx[q[i]] = IF i = n THEN NULL ELSE q[i + 1]
    BY RequestsAssumption DEF Linked
  <1>1. /\ n + 1 \in 0..MaxReq /\ p \in [1..(n + 1) -> Slots]
        /\ p[n + 1] = r /\ \A k \in 1..n : p[k] = q[k]
    BY <1>0 DEF With
  <1> HIDE DEF p
  <1>2. \A i, j \in 1..(n + 1) : p[i] = p[j] => i = j
    <2> TAKE i, j \in 1..(n + 1)
    <2>1. /\ i \in 1..n \/ i = n + 1
          /\ j \in 1..n \/ j = n + 1
      BY <1>0
    <2> QED BY <1>0, <1>1, <2>1
  <1>3. CASE n = 0
    <2> DEFINE mx == [nx EXCEPT ![r] = NULL]
    <2>1. mx[r] = NULL
      OBVIOUS
    <2>2. p[1] = r
      BY <1>0, <1>1, <1>3
    <2> HIDE DEF mx
    <2>3. Linked(p, n + 1, r, mx)
      BY <1>0, <1>1, <1>2, <1>3, <2>1, <2>2 DEF Linked
    <2> QED BY <1>3, <2>3 DEF p, mx
  <1>4. CASE n # 0
    <2> DEFINE mx == [nx EXCEPT ![r] = NULL, ![q[n]] = r]
    <2>0. n \in 1..n /\ q[n] \in Slots /\ q[n] # r
      BY <1>0, <1>4
    <2>1. /\ mx[r] = NULL /\ mx[q[n]] = r
          /\ \A k \in Slots : k # r /\ k # q[n] => mx[k] = nx[k]
      BY <2>0
    <2> HIDE DEF mx
    <2>2. p[1] = q[1] /\ tl = q[1]
      BY <1>0, <1>1, <1>4
    <2>3. ASSUME NEW i \in 1..(n + 1)
          PROVE  mx[p[i]] = IF i = n + 1 THEN NULL ELSE p[i + 1]
      <3>1. CASE i = n + 1
        BY <1>0, <1>1, <2>1, <3>1
      <3>2. CASE i = n
        BY <1>0, <1>1, <1>4, <2>1, <3>2
      <3>3. CASE i \in 1..(n - 1)
        <4>1. /\ i \in 1..n /\ i # n /\ i # n + 1 /\ i + 1 \in 1..n
              /\ p[i] = q[i] /\ p[i + 1] = q[i + 1]
          BY <1>0, <1>1, <3>3
        <4>2. q[i] # q[n] /\ q[i] # r /\ q[i] \in Slots
          BY <1>0, <2>0, <4>1
        <4>3. nx[q[i]] = q[i + 1]
          BY <1>0, <4>1
        <4> QED BY <2>1, <4>1, <4>2, <4>3
      <3> QED BY <1>0, <3>1, <3>2, <3>3
    <2>4. Linked(p, n + 1, tl, mx)
      BY <1>0, <1>1, <1>2, <1>4, <2>2, <2>3 DEF Linked
    <2> QED BY <1>4, <2>4 DEF p, mx
  <1> QED BY <1>3, <1>4

(* A slot taken off the list, its next carried over.                       *)
LEMMA LinkedWithout ==
    ASSUME NEW q, NEW n, NEW tl, NEW nx \in [Slots -> 0..MaxReq], Linked(q, n, tl, nx),
           NEW i \in 1..n
    PROVE  /\ i = 1 => Linked(Less(q, n, i), n - 1, nx[q[i]], nx)
           /\ i # 1 => Linked(Less(q, n, i), n - 1, tl,
                              [nx EXCEPT ![q[i - 1]] = nx[q[i]]])
  <1> DEFINE p == Less(q, n, i)
  <1>0. /\ MaxReq \in Nat /\ n \in 0..MaxReq /\ q \in [1..n -> Slots]
        /\ tl = IF n = 0 THEN NULL ELSE q[1]
        /\ \A j, k \in 1..n : q[j] = q[k] => j = k
        /\ \A k \in 1..n : nx[q[k]] = IF k = n THEN NULL ELSE q[k + 1]
    BY RequestsAssumption DEF Linked
  <1>1. /\ n - 1 \in 0..MaxReq /\ p \in [1..(n - 1) -> Slots]
        /\ \A k \in 1..(n - 1) : p[k] = IF k < i THEN q[k] ELSE q[k + 1]
    BY <1>0 DEF Less
  <1> HIDE DEF p
  <1>2. \A j, k \in 1..(n - 1) : p[j] = p[k] => j = k
    <2> TAKE j, k \in 1..(n - 1)
    <2> DEFINE jj == IF j < i THEN j ELSE j + 1
               kk == IF k < i THEN k ELSE k + 1
    <2>1. jj \in 1..n /\ kk \in 1..n /\ p[j] = q[jj] /\ p[k] = q[kk]
      BY <1>0, <1>1
    <2>2. jj = kk => j = k
      BY <1>0
    <2> HIDE DEF jj, kk
    <2> QED BY <1>0, <2>1, <2>2
  <1>3. CASE i = 1
    <2>1. nx[q[i]] = IF n - 1 = 0 THEN NULL ELSE p[1]
      BY <1>0, <1>1, <1>3
    <2>2. ASSUME NEW k \in 1..(n - 1)
          PROVE  nx[p[k]] = IF k = n - 1 THEN NULL ELSE p[k + 1]
      <3>1. k + 1 \in 1..n /\ p[k] = q[k + 1] /\ (k = n - 1 <=> k + 1 = n)
        BY <1>0, <1>1, <1>3
      <3>2. nx[q[k + 1]] = IF k + 1 = n THEN NULL ELSE q[(k + 1) + 1]
        BY <1>0, <3>1
      <3>3. k # n - 1 => p[k + 1] = q[(k + 1) + 1]
        BY <1>0, <1>1, <1>3
      <3> QED BY <3>1, <3>2, <3>3
    <2>3. Linked(p, n - 1, nx[q[i]], nx)
      BY <1>0, <1>1, <1>2, <2>1, <2>2 DEF Linked
    <2> QED BY <1>3, <2>3 DEF p
  <1>4. CASE i # 1
    <2> DEFINE mx == [nx EXCEPT ![q[i - 1]] = nx[q[i]]]
    <2>0. i - 1 \in 1..n /\ q[i - 1] \in Slots /\ i - 1 \in 1..(n - 1) /\ i - 1 < i
      BY <1>0, <1>4
    <2>1. /\ mx[q[i - 1]] = nx[q[i]]
          /\ \A k \in Slots : k # q[i - 1] => mx[k] = nx[k]
      BY <2>0
    <2> HIDE DEF mx
    <2>2. tl = IF n - 1 = 0 THEN NULL ELSE p[1]
      BY <1>0, <1>1, <1>4
    <2>3. ASSUME NEW k \in 1..(n - 1)
          PROVE  mx[p[k]] = IF k = n - 1 THEN NULL ELSE p[k + 1]
      <3>1. CASE k = i - 1
        <4>1. p[k] = q[i - 1]
          BY <1>1, <2>0, <3>1
        <4>2. nx[q[i]] = IF i = n THEN NULL ELSE q[i + 1]
          BY <1>0
        <4>3. i = n <=> k = n - 1
          BY <1>0, <3>1
        <4>4. i # n => p[k + 1] = q[i + 1]
          BY <1>0, <1>1, <3>1
        <4> QED BY <2>1, <4>1, <4>2, <4>3, <4>4
      <3>2. CASE k < i - 1
        <4>0. /\ k \in 1..n /\ k # n /\ k # i - 1 /\ k # n - 1
              /\ k < i /\ k + 1 < i /\ k + 1 \in 1..(n - 1)
          BY <1>0, <3>2
        <4>1. p[k] = q[k] /\ p[k + 1] = q[k + 1]
          BY <1>1, <4>0
        <4>2. q[k] # q[i - 1] /\ q[k] \in Slots
          BY <1>0, <2>0, <4>0
        <4>3. nx[q[k]] = q[k + 1]
          BY <1>0, <4>0
        <4> QED BY <2>1, <4>0, <4>1, <4>2, <4>3
      <3>3. CASE k >= i
        <4>0. /\ k + 1 \in 1..n /\ k + 1 # i - 1 /\ (k = n - 1 <=> k + 1 = n)
              /\ ~(k < i) /\ ~(k + 1 < i) /\ (k # n - 1 => k + 1 \in 1..(n - 1))
          BY <1>0, <3>3
        <4>1. p[k] = q[k + 1] /\ (k # n - 1 => p[k + 1] = q[(k + 1) + 1])
          BY <1>1, <4>0
        <4>2. q[k + 1] # q[i - 1] /\ q[k + 1] \in Slots
          BY <1>0, <2>0, <4>0
        <4>3. nx[q[k + 1]] = IF k + 1 = n THEN NULL ELSE q[(k + 1) + 1]
          BY <1>0, <4>0
        <4> QED BY <2>1, <4>0, <4>1, <4>2, <4>3
      <3> QED BY <1>0, <2>0, <3>1, <3>2, <3>3
    <2>4. Linked(p, n - 1, tl, mx)
      BY <1>0, <1>1, <1>2, <2>2, <2>3 DEF Linked
    <2> QED BY <1>4, <2>4 DEF p, mx
  <1> QED BY <1>3, <1>4

(* The list cut off in front of its i-th slot.                             *)
LEMMA LinkedCut ==
    ASSUME NEW q, NEW n, NEW tl, NEW nx \in [Slots -> 0..MaxReq], Linked(q, n, tl, nx),
           NEW i \in 1..n
    PROVE  LET p == [k \in 1..(i - 1) |-> q[k]]
           IN  /\ i = 1 => Linked(p, i - 1, NULL, nx)
               /\ i # 1 => Linked(p, i - 1, tl, [nx EXCEPT ![q[i - 1]] = NULL])
  <1> DEFINE p == [k \in 1..(i - 1) |-> q[k]]
  <1>0. /\ MaxReq \in Nat /\ n \in 0..MaxReq /\ q \in [1..n -> Slots]
        /\ tl = IF n = 0 THEN NULL ELSE q[1]
        /\ \A j, k \in 1..n : q[j] = q[k] => j = k
        /\ \A k \in 1..n : nx[q[k]] = IF k = n THEN NULL ELSE q[k + 1]
    BY RequestsAssumption DEF Linked
  <1>1. /\ i - 1 \in 0..MaxReq /\ p \in [1..(i - 1) -> Slots]
        /\ \A k \in 1..(i - 1) : p[k] = q[k]
    BY <1>0
  <1> HIDE DEF p
  <1>2. \A j, k \in 1..(i - 1) : p[j] = p[k] => j = k
    <2>1. \A k \in 1..(i - 1) : k \in 1..n
      BY <1>0
    <2> QED BY <1>0, <1>1, <2>1
  <1>3. CASE i = 1
    <2>1. Linked(p, i - 1, NULL, nx)
      BY <1>0, <1>1, <1>2, <1>3 DEF Linked
    <2> QED BY <1>3, <2>1 DEF p
  <1>4. CASE i # 1
    <2> DEFINE mx == [nx EXCEPT ![q[i - 1]] = NULL]
    <2>0. i - 1 \in 1..n /\ q[i - 1] \in Slots
      BY <1>0, <1>4
    <2>1. /\ mx[q[i - 1]] = NULL /\ \A k \in Slots : k # q[i - 1] => mx[k] = nx[k]
      BY <2>0
    <2> HIDE DEF mx
    <2>2. tl = IF i - 1 = 0 THEN NULL ELSE p[1]
      BY <1>0, <1>1, <1>4
    <2>3. ASSUME NEW k \in 1..(i - 1)
          PROVE  mx[p[k]] = IF k = i - 1 THEN NULL ELSE p[k + 1]
      <3>1. CASE k = i - 1
        BY <1>1, <2>1, <3>1
      <3>2. CASE k # i - 1
        <4>1. p[k] = q[k] /\ k \in 1..n /\ k # n /\ p[k + 1] = q[k + 1]
          BY <1>0, <1>1, <3>2
        <4>2. q[k] # q[i - 1] /\ q[k] \in Slots /\ nx[q[k]] = q[k + 1]
          BY <1>0, <2>0, <3>2, <4>1, SMTT(30)
        <4> QED BY <2>1, <3>2, <4>1, <4>2
      <3> QED BY <3>1, <3>2
    <2>4. Linked(p, i - 1, tl, mx)
      BY <1>1, <1>2, <2>2, <2>3 DEF Linked
    <2> QED BY <1>4, <2>4 DEF p, mx
  <1> QED BY <1>3, <1>4

(* Sums of naturals only grow.                                             *)
LEMMA SumGrows ==
    ASSUME NEW q, NEW n \in Nat, NEW d, NEW v, Summed(v, q, n, d),
           \A k \in 1..n : d[q[k]] \in Nat, NEW i \in 0..n, NEW j \in 0..n, i <= j
    PROVE  v[i] <= v[j]
  <1> DEFINE T == {m \in i..n : ~(v[i] <= v[m])}
  <1> SUFFICES T = {}
    BY DEF T
  <1> SUFFICES ASSUME T # {} PROVE FALSE
    OBVIOUS
  <1>1. T \in SUBSET Nat
    OBVIOUS
  <1> HIDE DEF T
  <1>2. PICK m \in T : \A y \in T : m <= y
    BY <1>1, Least, Zenon
  <1>3. m \in i..n /\ ~(v[i] <= v[m])
    BY <1>2 DEF T
  <1>4. v[i] \in Int /\ m # i
    BY <1>3 DEF Summed
  <1>5. m - 1 \in i..n /\ ~(m <= m - 1) /\ m \in 1..n /\ m - 1 \in 0..n
    BY <1>3, <1>4
  <1>6. v[i] <= v[m - 1]
    BY <1>2, <1>5, Zenon DEF T
  <1>7. v[m] = v[m - 1] + d[q[m]] /\ d[q[m]] \in Nat /\ v[m - 1] \in Int
    BY <1>5 DEF Summed
  <1> QED BY <1>3, <1>4, <1>6, <1>7

(* They are naturals, then, and each difference is at most the sum.        *)
LEMMA SumNat ==
    ASSUME NEW q, NEW n \in Nat, NEW d, NEW v, Summed(v, q, n, d),
           \A k \in 1..n : d[q[k]] \in Nat
    PROVE  /\ v \in [0..n -> Nat]
           /\ \A k \in 1..n : d[q[k]] <= v[k] /\ v[k] <= v[n]
  <1>1. \A i, j \in 0..n : i <= j => v[i] <= v[j]
    BY SumGrows
  <1>2. /\ v \in [0..n -> Int] /\ v[0] = 0
        /\ \A k \in 1..n : v[k] = v[k - 1] + d[q[k]]
    BY DEF Summed
  <1>3. \A k \in 0..n : v[k] \in Nat
    <2> TAKE k \in 0..n
    <2>1. v[0] <= v[k]
      BY <1>1
    <2> QED BY <1>2, <2>1
  <1>4. ASSUME NEW k \in 1..n PROVE d[q[k]] <= v[k] /\ v[k] <= v[n]
    <2>1. k - 1 \in 0..n /\ k \in 0..n /\ n \in 0..n /\ k <= n
      OBVIOUS
    <2>2. v[k - 1] \in Nat /\ v[k] <= v[n] /\ d[q[k]] \in Nat
      BY <1>1, <1>3, <2>1
    <2> QED BY <1>2, <2>2
  <1> QED BY <1>2, <1>3, <1>4

(* Differences that agree along the list have the same sums.               *)
LEMMA SumOff ==
    ASSUME NEW q, NEW n \in Nat, NEW d, NEW e, NEW v, Summed(v, q, n, d),
           \A k \in 1..n : e[q[k]] = d[q[k]]
    PROVE  Summed(v, q, n, e)
  BY DEF Summed

(* One more request behind the last.                                       *)
LEMMA SumBehind ==
    ASSUME NEW q, NEW n \in Nat, NEW d \in [Slots -> 0..MaxDiff], NEW v,
           Summed(v, q, n, d), q \in [1..n -> Slots],
           NEW r \in Slots, \A i \in 1..n : q[i] # r, NEW x \in Int
    PROVE  Summed(SumWith(v, n, x), With(q, n, r), n + 1, [d EXCEPT ![r] = x])
  <1> DEFINE w == SumWith(v, n, x)
             p == With(q, n, r)
             e == [d EXCEPT ![r] = x]
  <1>1. /\ v \in [0..n -> Int] /\ v[0] = 0
        /\ \A k \in 1..n : v[k] = v[k - 1] + d[q[k]]
    BY DEF Summed
  <1>2. /\ w \in [0..(n + 1) -> Int] /\ w[n + 1] = v[n] + x
        /\ \A k \in 0..n : w[k] = v[k]
    BY <1>1 DEF SumWith
  <1>3. p[n + 1] = r /\ \A k \in 1..n : p[k] = q[k]
    BY DEF With
  <1>4. e[r] = x /\ \A k \in 1..n : e[q[k]] = d[q[k]]
    OBVIOUS
  <1> HIDE DEF w, p, e
  <1>5. ASSUME NEW k \in 1..(n + 1) PROVE w[k] = w[k - 1] + e[p[k]]
    <2>1. CASE k = n + 1
      <3>1. k - 1 = n /\ n \in 0..n
        BY <2>1
      <3> QED BY <1>2, <1>3, <1>4, <2>1, <3>1
    <2>2. CASE k # n + 1
      <3>1. k \in 1..n /\ k \in 0..n /\ k - 1 \in 0..n
        BY <2>2
      <3> QED BY <1>1, <1>2, <1>3, <1>4, <3>1, ZenonT(30)
    <2> QED BY <2>1, <2>2
  <1>6. w[0] = 0
    BY <1>1, <1>2
  <1>7. Summed(w, p, n + 1, e)
    BY <1>2, <1>5, <1>6 DEF Summed
  <1> QED BY <1>7 DEF w, p, e

(* A request taken out: those behind it have its difference less.          *)
LEMMA SumWithout ==
    ASSUME NEW q, NEW n \in Nat, NEW d, NEW v, Summed(v, q, n, d),
           \A k \in 1..n : d[q[k]] \in Nat, NEW i \in 1..n
    PROVE  Summed(SumLess(v, n, i, d[q[i]]), Less(q, n, i), n - 1, d)
  <1> DEFINE x == d[q[i]]
             w == SumLess(v, n, i, x)
             p == Less(q, n, i)
  <1>0. \A k \in 1..(n - 1) : p[k] = IF k < i THEN q[k] ELSE q[k + 1]
    BY DEF Less
  <1>1. /\ v \in [0..n -> Int] /\ v[0] = 0 /\ x \in Int
        /\ \A k \in 1..n : v[k] = v[k - 1] + d[q[k]]
    BY DEF Summed
  <1>2. /\ w \in [0..(n - 1) -> Int]
        /\ \A k \in 0..(n - 1) : w[k] = IF k < i THEN v[k] ELSE v[k + 1] - x
    <2> HIDE DEF x
    <2>1. \A k \in 0..(n - 1) : k \in 0..n /\ k + 1 \in 0..n
      OBVIOUS
    <2>2. \A k \in 0..(n - 1) : v[k] \in Int /\ v[k + 1] - x \in Int
      BY <1>1, <2>1
    <2> QED BY <2>2 DEF SumLess
  <1>3. v[i] = v[i - 1] + x
    BY <1>1
  <1> HIDE DEF w, x, p
  <1>4. ASSUME NEW k \in 1..(n - 1) PROVE w[k] = w[k - 1] + d[p[k]]
    <2>0. k \in 0..(n - 1) /\ k - 1 \in 0..(n - 1) /\ k \in 1..n /\ k + 1 \in 1..n
      OBVIOUS
    <2>1. CASE k < i
      <3>1. k - 1 < i
        BY <2>0, <2>1
      <3> QED BY <1>0, <1>1, <1>2, <2>0, <2>1, <3>1
    <2>2. CASE k >= i
      <3>1. v[k + 1] = v[k] + d[q[k + 1]] /\ p[k] = q[k + 1]
        <4>1. (k + 1) - 1 = k /\ ~(k < i)
          BY <2>0, <2>2
        <4> QED BY <1>0, <1>1, <2>0, <4>1
      <3>2. w[k] = v[k + 1] - x
        <4>1. ~(k < i)
          BY <2>0, <2>2
        <4> QED BY <1>2, <2>0, <4>1
      <3>3. w[k - 1] = v[k] - x
        <4>1. CASE k = i
          BY <1>1, <1>2, <1>3, <2>0, <4>1
        <4>2. CASE k # i
          <5>1. ~(k - 1 < i) /\ (k - 1) + 1 = k
            BY <2>0, <2>2, <4>2
          <5> QED BY <1>2, <2>0, <5>1
        <4> QED BY <4>1, <4>2
      <3>4. v[k] \in Int /\ v[k + 1] \in Int
        BY <1>1, <2>0
      <3>5. d[q[k + 1]] = v[k + 1] - v[k]
        <4>1. d[q[k + 1]] \in Int
          BY <2>0
        <4> QED BY <3>1, <3>4, <4>1
      <3>6. x \in Int /\ d[p[k]] = v[k + 1] - v[k]
        BY <1>1, <3>1, <3>5
      <3> QED BY <3>2, <3>3, <3>4, <3>6
    <2> QED BY <2>0, <2>1, <2>2
  <1>5. w[0] = 0
    BY <1>1, <1>2
  <1>6. n - 1 \in Nat
    OBVIOUS
  <1>7. Summed(w, p, n - 1, d)
    BY <1>2, <1>4, <1>5 DEF Summed
  <1> QED BY <1>7 DEF w, x, p

(* A difference that grows by x: so do the sums from there on.             *)
LEMMA SumAdded ==
    ASSUME NEW q, NEW n \in Nat, NEW d, NEW v, Summed(v, q, n, d),
           d \in [Slots -> 0..MaxDiff], q \in [1..n -> Slots],
           \A j, k \in 1..n : q[j] = q[k] => j = k,
           NEW i \in 1..n, NEW x \in Int
    PROVE  Summed(SumMore(v, n, i, x), q, n, [d EXCEPT ![q[i]] = d[q[i]] + x])
  <1> DEFINE w == SumMore(v, n, i, x)
             e == [d EXCEPT ![q[i]] = d[q[i]] + x]
  <1>0. /\ e[q[i]] = d[q[i]] + x /\ \A k \in 1..n : k # i => e[q[k]] = d[q[k]]
        /\ \A k \in 1..n : d[q[k]] \in Int
    BY RequestsAssumption
  <1>1. /\ v \in [0..n -> Int] /\ v[0] = 0
        /\ \A k \in 1..n : v[k] = v[k - 1] + d[q[k]]
    BY DEF Summed
  <1>2. /\ w \in [0..n -> Int]
        /\ \A k \in 0..n : w[k] = IF k < i THEN v[k] ELSE v[k] + x
    BY <1>1 DEF SumMore
  <1> HIDE DEF w, e
  <1>3. ASSUME NEW k \in 1..n PROVE w[k] = w[k - 1] + e[q[k]]
    <2>0. k \in 0..n /\ k - 1 \in 0..n /\ v[k - 1] \in Int /\ d[q[k]] \in Int
      BY <1>0, <1>1
    <2>1. v[k] = v[k - 1] + d[q[k]]
      BY <1>1
    <2>2. CASE k < i
      <3>1. k - 1 < i /\ k # i
        BY <2>0, <2>2
      <3>2. w[k] = v[k] /\ w[k - 1] = v[k - 1] /\ e[q[k]] = d[q[k]]
        BY <1>0, <1>2, <2>0, <2>2, <3>1
      <3> QED BY <2>1, <3>2
    <2>3. CASE k = i
      <3>1. k - 1 < i /\ ~(k < i)
        BY <2>0, <2>3
      <3>2. w[k] = v[k] + x /\ w[k - 1] = v[k - 1] /\ e[q[k]] = d[q[k]] + x
        BY <1>0, <1>2, <2>0, <2>3, <3>1
      <3> QED BY <2>0, <2>1, <3>2
    <2>4. CASE k > i
      <3>1. ~(k - 1 < i) /\ ~(k < i) /\ k # i
        BY <2>0, <2>4
      <3>2. w[k] = v[k] + x /\ w[k - 1] = v[k - 1] + x /\ e[q[k]] = d[q[k]]
        BY <1>0, <1>2, <2>0, <3>1
      <3> QED BY <2>0, <2>1, <3>2
    <2> QED BY <2>0, <2>2, <2>3, <2>4
  <1>4. w[0] = 0
    BY <1>1, <1>2
  <1>5. Summed(w, q, n, e)
    BY <1>2, <1>3, <1>4 DEF Summed
  <1> QED BY <1>5 DEF w, e

-----------------------------------------------------------------------------
(* The invariant.                                                          *)

Pcs == {"idle", "search", "load", "unchain", "pass", "free", "elapsed", "expire"}

ListTypes ==
    /\ next \in [Slots -> 0..MaxReq] /\ pkt_id \in [Slots -> Ids]
    /\ timeout_diff \in [Slots -> 0..MaxDiff]
    /\ iter \in 0..MaxReq /\ loaded \in 0..MaxReq /\ prev \in 0..MaxReq
    /\ t \in Nat /\ now \in Nat /\ tp \in Pcs

Before(i) == IF i = 1 THEN NULL ELSE Queue[i - 1]
At(i) == iter = Queue[i] /\ prev = Before(i)

(* What the tcpip thread holds at each of its positions, interrupted or    *)
(* not: an append leaves alone what is in front of the end of the list.    *)
Position ==
    /\ tp \in {"load", "unchain"} => \E i \in 1..Len(Queue) : At(i)
    /\ tp = "expire" => Len(Queue) > 0 /\ iter = Queue[1]
    /\ tp \in {"unchain", "expire"} => loaded \in {NULL, next[iter]}
    /\ tp \in {"pass", "free"} =>
          /\ iter \in Slots /\ next[iter] # iter
          /\ \A k \in 1..Len(Queue) : Queue[k] # iter

Sound ==
    /\ Linked(Queue, Len(Queue), tail, next)
    /\ Position

Sought == IF again THEN 0 ELSE 1

Held == IF tp \in {"pass", "free"} THEN {iter} ELSE {}

(* What else holds as long as no request is made inside an operation.      *)
Undisturbed ==
    /\ tp \in {"unchain", "expire"} => loaded = next[iter]
    /\ \A n \in Slots : \/ next[n] = n \/ n \in Held
                        \/ \E k \in 1..Len(Queue) : Queue[k] = n
    /\ tp \in {"load", "unchain"} =>
          \E i \in 1..Len(Queue) :
             /\ At(i) /\ pkt_id[iter] = Sought
             /\ \A j \in 1..(i - 1) : pkt_id[Queue[j]] # Sought
    /\ tp = "pass" =>
          \E i \in 1..(Len(Queue) + 1) :
             /\ prev = Before(i)
             /\ next[iter] = IF i <= Len(Queue) THEN Queue[i] ELSE NULL
    /\ Elapsing[Len(Queue)] + (IF tp = "pass" THEN timeout_diff[iter] ELSE 0)
          <= ReqTimeout
    /\ tp \notin {"elapsed", "expire"} => t = 0

RInv == ListTypes /\ Sound /\ (~preempt => ~halted /\ Undisturbed)

-----------------------------------------------------------------------------
(* The queue of the model, before a step.                                  *)
LEMMA QueueNow ==
    ASSUME NEW q, NEW n, Linked(q, n, tail, next)
    PROVE  Queue = q /\ Len(Queue) = n /\ Linked(Queue, Len(Queue), tail, next)
  <1>1. Queue = QueueOf(WalkOf(tail, next))
    BY Zenon DEF Queue, QueueOf, Walk, WalkOf
  <1> QED BY <1>1, QueueIs, ZenonT(30)

(* The queue after a step.                                                 *)
LEMMA QueueAfter ==
    ASSUME NEW q, NEW n, Linked(q, n, tail', next')
    PROVE  Queue' = q /\ Len(Queue') = n /\ Linked(Queue', Len(Queue'), tail', next')
  <1>1. Queue' = QueueOf(WalkOf(tail', next'))
    BY Zenon DEF Queue, QueueOf, Walk, WalkOf
  <1> QED BY <1>1, QueueIs, ZenonT(30)

(* The sums of the model, before a step.                                   *)
LEMMA ElapsingNow ==
    ASSUME NEW v, Len(Queue) \in Nat, Summed(v, Queue, Len(Queue), timeout_diff)
    PROVE  Elapsing = v
  <1>1. Elapsing = SumOf(Queue, timeout_diff)
    BY Zenon DEF Elapsing, SumOf
  <1> QED BY <1>1, SumIs, Zenon

(* And after it.                                                           *)
LEMMA ElapsingAfter ==
    ASSUME NEW v, Len(Queue') \in Nat, Summed(v, Queue', Len(Queue'), timeout_diff')
    PROVE  Elapsing' = v
  <1>1. Elapsing' = SumOf(Queue', timeout_diff')
    BY Zenon DEF Elapsing, SumOf
  <1> QED BY <1>1, SumIs, Zenon

(* What the invariant says of the list.                                    *)
LEMMA ListFacts ==
    ASSUME ListTypes, Linked(Queue, Len(Queue), tail, next)
    PROVE  /\ MaxReq \in Nat /\ MaxReq > 0 /\ Len(Queue) \in 0..MaxReq
           /\ Len(Queue) \in Nat /\ Queue \in [1..Len(Queue) -> Slots]
           /\ \A i, j \in 1..Len(Queue) : Queue[i] = Queue[j] => i = j
           /\ tail = IF Len(Queue) = 0 THEN NULL ELSE Queue[1]
           /\ \A i \in 1..Len(Queue) :
                 next[Queue[i]] = IF i = Len(Queue) THEN NULL ELSE Queue[i + 1]
           /\ \A k \in 1..Len(Queue) : timeout_diff[Queue[k]] \in Nat
           /\ Summed(Elapsing, Queue, Len(Queue), timeout_diff)
           /\ Elapsing \in [0..Len(Queue) -> Nat]
           /\ \A k \in 1..Len(Queue) : /\ timeout_diff[Queue[k]] <= Elapsing[k]
                                       /\ Elapsing[k] <= Elapsing[Len(Queue)]
  <1>1. /\ MaxReq \in Nat /\ MaxReq > 0 /\ Len(Queue) \in 0..MaxReq
        /\ Len(Queue) \in Nat /\ Queue \in [1..Len(Queue) -> Slots]
        /\ \A i, j \in 1..Len(Queue) : Queue[i] = Queue[j] => i = j
        /\ tail = IF Len(Queue) = 0 THEN NULL ELSE Queue[1]
        /\ \A i \in 1..Len(Queue) :
              next[Queue[i]] = IF i = Len(Queue) THEN NULL ELSE Queue[i + 1]
    <2>1. MaxReq \in Nat /\ MaxReq > 0
      BY RequestsAssumption
    <2>2. Len(Queue) \in 0..MaxReq /\ Queue \in [1..Len(Queue) -> Slots]
      BY Zenon DEF Linked
    <2>3. Len(Queue) \in Nat
      BY <2>1, <2>2
    <2> QED BY <2>1, <2>2, <2>3, Zenon DEF Linked
  <1>2. \A k \in 1..Len(Queue) : timeout_diff[Queue[k]] \in Nat
    BY <1>1, RequestsAssumption DEF ListTypes
  <1>3. PICK v : Summed(v, Queue, Len(Queue), timeout_diff)
    BY <1>1, <1>2, SumExists, Zenon
  <1>4. Elapsing = v
    BY <1>1, <1>3, ElapsingNow, Zenon
  <1>5. Summed(Elapsing, Queue, Len(Queue), timeout_diff)
    BY <1>3, <1>4, Zenon
  <1>6. /\ Elapsing \in [0..Len(Queue) -> Nat]
        /\ \A k \in 1..Len(Queue) : /\ timeout_diff[Queue[k]] <= Elapsing[k]
                                    /\ Elapsing[k] <= Elapsing[Len(Queue)]
    BY <1>1, <1>2, <1>5, SumNat, Zenon
  <1> QED BY <1>1, <1>2, <1>5, <1>6, Zenon

(* A step that leaves the links alone leaves the list as it is.            *)
LEMMA SameQueue ==
    ASSUME Linked(Queue, Len(Queue), tail, next), UNCHANGED <<tail, next>>
    PROVE  /\ Queue' = Queue /\ Len(Queue') = Len(Queue)
           /\ Linked(Queue', Len(Queue'), tail', next')
  <1>1. Linked(Queue, Len(Queue), tail', next')
    BY Zenon
  <1> QED BY <1>1, QueueAfter, Zenon

(* And the sums, if it leaves the differences alone as well.               *)
LEMMA SameSums ==
    ASSUME ListTypes, Linked(Queue, Len(Queue), tail, next),
           Queue' = Queue, timeout_diff' = timeout_diff
    PROVE  Elapsing' = Elapsing
  <1>1. /\ Summed(Elapsing, Queue, Len(Queue), timeout_diff)
        /\ Len(Queue) \in Nat
    BY ListFacts
  <1>2. /\ Summed(Elapsing, Queue', Len(Queue'), timeout_diff')
        /\ Len(Queue') \in Nat
    BY <1>1, Zenon
  <1> QED BY <1>2, ElapsingAfter, ZenonT(30)

-----------------------------------------------------------------------------
(* The steps of the comm thread.                                           *)

(* mqtt_create_request finds a free slot if there is one.                  *)
LEMMA FirstFree ==
    ASSUME Free # {}
    PROVE  mqtt_create_request \in Slots /\ next[mqtt_create_request] = mqtt_create_request
  <1>1. Free \in SUBSET Nat
    BY RequestsAssumption DEF Free, Slots
  <1>2. \E n \in Free : \A k \in Free : n <= k
    BY <1>1, Least, Zenon
  <1>3. mqtt_create_request \in Free
    BY <1>2, Zenon DEF mqtt_create_request
  <1> QED BY <1>3 DEF Free

(* The list after an append.                                               *)
LEMMA Appended ==
    ASSUME ListTypes, Linked(Queue, Len(Queue), tail, next),
           NEW r \in Slots, next[r] = r,
           time_before <= ReqTimeout, LinkLast(r),
           timeout_diff' = [timeout_diff EXCEPT ![r] = ReqTimeout - time_before]
    PROVE  /\ Linked(Queue', Len(Queue'), tail', next')
           /\ Len(Queue') = Len(Queue) + 1 /\ Queue'[Len(Queue) + 1] = r
           /\ \A k \in 1..Len(Queue) : Queue'[k] = Queue[k] /\ Queue[k] # r
           /\ next' \in [Slots -> 0..MaxReq] /\ timeout_diff' \in [Slots -> 0..MaxDiff]
           /\ \A k \in Slots : k # r /\ (\A i \in 1..Len(Queue) : Queue[i] # k)
                                  => next'[k] = next[k]
           /\ \A i \in 1..Len(Queue) : i # Len(Queue) => next'[Queue[i]] = next[Queue[i]]
           /\ Elapsing'[Len(Queue) + 1] = ReqTimeout
           /\ \A k \in 0..Len(Queue) : Elapsing'[k] = Elapsing[k]
  <1> DEFINE n == Len(Queue)
             q == Queue
             p == With(q, n, r)
             x == ReqTimeout - time_before
             w == SumWith(Elapsing, n, x)
  <1>1. /\ MaxReq \in Nat /\ MaxReq > 0 /\ n \in 0..MaxReq /\ n \in Nat
        /\ q \in [1..n -> Slots] /\ Summed(Elapsing, q, n, timeout_diff)
        /\ Elapsing \in [0..n -> Nat]
    BY ListFacts, Zenon
  <1>2. n < MaxReq /\ \A i \in 1..n : q[i] # r
    BY RoomForFree, Zenon
  <1>3. /\ next \in [Slots -> 0..MaxReq] /\ timeout_diff \in [Slots -> 0..MaxDiff]
        /\ time_before \in Nat /\ x \in 0..ReqTimeout /\ x \in Int
        /\ x \in 0..MaxDiff /\ time_before = Elapsing[n]
    <2>1. time_before = Elapsing[n] /\ Elapsing[n] \in Nat
      BY <1>1 DEF time_before
    <2> QED BY <2>1, RequestsAssumption DEF ListTypes
  <1> HIDE DEF q, n, x
  <1>4. /\ n = 0 => tail' = r /\ next' = [next EXCEPT ![r] = NULL]
        /\ n # 0 => tail' = tail /\ next' = [next EXCEPT ![r] = NULL, ![q[n]] = r]
    <2>1. Queue = <<>> <=> n = 0
      BY <1>1 DEF n, q
    <2> QED BY <2>1 DEF LinkLast, n, q
  <1>5. Linked(p, n + 1, tail', next')
    <2>1. Linked(q, n, tail, next)
      BY DEF q, n
    <2>2. /\ n = 0 => Linked(p, n + 1, r, [next EXCEPT ![r] = NULL])
          /\ n # 0 => Linked(p, n + 1, tail, [next EXCEPT ![r] = NULL, ![q[n]] = r])
      BY <1>2, <1>3, <2>1, LinkedBehind, Zenon
    <2> QED BY <1>4, <2>2, Zenon
  <1>6. p[n + 1] = r /\ \A k \in 1..n : p[k] = q[k]
    BY <1>1 DEF With
  <1> HIDE DEF p
  <1>7. Queue' = p /\ Len(Queue') = n + 1 /\ Linked(Queue', Len(Queue'), tail', next')
    BY <1>5, QueueAfter, Zenon
  <1>8. timeout_diff'[r] = x /\ \A k \in 1..n : timeout_diff'[q[k]] = timeout_diff[q[k]]
    BY <1>1, <1>2, <1>3 DEF x
  <1>9. Summed(w, p, n + 1, timeout_diff')
    <2>1. timeout_diff' = [timeout_diff EXCEPT ![r] = x]
      BY DEF x
    <2>2. /\ n \in Nat /\ Summed(Elapsing, q, n, timeout_diff) /\ x \in Int
          /\ q \in [1..n -> Slots] /\ timeout_diff \in [Slots -> 0..MaxDiff]
      BY <1>1, <1>3
    <2>3. Summed(SumWith(Elapsing, n, x), With(q, n, r), n + 1,
                 [timeout_diff EXCEPT ![r] = x])
      BY <1>2, <2>2, SumBehind, Zenon
    <2> QED BY <2>1, <2>3, Zenon DEF w, p
  <1>10. w[n + 1] = ReqTimeout /\ \A k \in 0..n : w[k] = Elapsing[k]
    <2>1. w[n + 1] = Elapsing[n] + x
      BY <1>1 DEF SumWith
    <2>2. Elapsing[n] + x = ReqTimeout
      BY <1>1, <1>3, RequestsAssumption DEF x
    <2> QED BY <1>1, <2>1, <2>2 DEF SumWith
  <1> HIDE DEF w
  <1>11. Elapsing' = w
    <2>1. Len(Queue') \in Nat /\ Summed(w, Queue', Len(Queue'), timeout_diff')
      BY <1>1, <1>7, <1>9
    <2> QED BY <2>1, ElapsingAfter, Zenon
  <1>12. next' \in [Slots -> 0..MaxReq]
    <2>1. NULL \in 0..MaxReq /\ r \in 0..MaxReq
      BY <1>1 DEF NULL, Slots
    <2> QED BY <1>3, <1>4, <2>1
  <1>13. timeout_diff' \in [Slots -> 0..MaxDiff]
    BY <1>3 DEF x
  <1>14. \A k \in Slots : k # r /\ (\A i \in 1..n : q[i] # k) => next'[k] = next[k]
    <2> TAKE k \in Slots
    <2> HAVE k # r /\ \A i \in 1..n : q[i] # k
    <2>1. n # 0 => n \in 1..n
      BY <1>1
    <2> QED BY <1>3, <1>4, <2>1
  <1>15. \A i \in 1..n : i # n => next'[q[i]] = next[q[i]]
    <2> TAKE i \in 1..n
    <2> HAVE i # n
    <2>1. n # 0 /\ n \in 1..n
      BY <1>1, SMTT(30)
    <2>2. q[i] # r /\ q[i] # q[n] /\ q[i] \in Slots
      BY <1>1, <1>2, <2>1 DEF Linked, q, n
    <2> QED BY <1>3, <1>4, <2>1, <2>2
  <1> QED BY <1>2, <1>6, <1>7, <1>10, <1>11, <1>12, <1>13, <1>14, <1>15 DEF q, n

(* The parts of the invariant after a step.                                *)
Kept == ListTypes' /\ Sound' /\ (~preempt => ~halted' /\ Undisturbed')

(* A request made, and dropped, refused or appended.                       *)
LEMMA RequestStep ==
    ASSUME RInv, NEW id \in Ids, NEW fits \in BOOLEAN, Request(id, fits)
    PROVE  Kept
  <1> DEFINE r == mqtt_create_request
             n == Len(Queue)
  <1>0. ListTypes /\ Linked(Queue, n, tail, next) /\ Position
    BY DEF RInv, Sound
  <1>1. /\ n \in 0..MaxReq /\ n \in Nat /\ Queue \in [1..n -> Slots]
        /\ \A i \in 1..n : next[Queue[i]] = IF i = n THEN NULL ELSE Queue[i + 1]
        /\ Elapsing \in [0..n -> Nat]
    BY <1>0, ListFacts, Zenon
  <1>2. r \in Slots /\ next[r] = r
    BY FirstFree DEF Request
  <1>3. /\ UNCHANGED <<iter, prev, loaded, t, again, tp, now>>
        /\ pkt_id' = [pkt_id EXCEPT ![r] = id]
        /\ ~preempt => tp = "idle"
    BY Zenon DEF Request, locals
  <1>4. /\ pkt_id' \in [Slots -> Ids] /\ iter' \in 0..MaxReq
        /\ loaded' \in 0..MaxReq /\ prev' \in 0..MaxReq
        /\ t' \in Nat /\ now' \in Nat /\ tp' \in Pcs
    BY <1>0, <1>2, <1>3 DEF ListTypes
  <1> HIDE DEF r, n
  <1>5. CASE UNCHANGED <<next, timeout_diff, tail>>
    <2>1. /\ Queue' = Queue /\ Len(Queue') = n
          /\ Linked(Queue', Len(Queue'), tail', next')
      BY <1>0, <1>5, SameQueue DEF n
    <2>2. Elapsing' = Elapsing
      BY <1>0, <1>5, <2>1, SameSums DEF n
    <2>3. ListTypes'
      BY <1>0, <1>4, <1>5 DEF ListTypes
    <2>4. Position'
      BY <1>0, <1>3, <1>5, <2>1 DEF Position, At, Before, n
    <2>5. ASSUME ~preempt PROVE ~halted' /\ Undisturbed'
      <3>1. ~halted /\ Undisturbed /\ tp = "idle"
        BY <1>3, <2>5, Zenon DEF RInv
      <3>2. ~halted'
        <4>1. time_before <= ReqTimeout
          <5>0. Elapsing[n] + (IF tp = "pass" THEN timeout_diff[iter] ELSE 0)
                   <= ReqTimeout
            BY <3>1, Zenon DEF Undisturbed, n
          <5>1. Elapsing[n] + 0 <= ReqTimeout /\ n \in 0..n
            BY <1>1, <3>1, <5>0
          <5>2. Elapsing[n] \in Nat
            BY <1>1, <5>1
          <5> QED BY <5>1, <5>2 DEF time_before, n
        <4>2. CASE fits
          <5>1. mqtt_append_request(r)
            BY <4>2, Zenon DEF Request, r
          <5> QED BY <3>1, <4>1, <5>1, Zenon DEF mqtt_append_request
        <4>3. CASE ~fits
          <5>1. halted' = halted
            BY <4>3, Zenon DEF Request
          <5> QED BY <3>1, <5>1, Zenon
        <4> QED BY <4>2, <4>3
      <3>3. Undisturbed'
        BY <1>3, <1>5, <2>1, <2>2, <3>1 DEF Undisturbed, Held, n
      <3> QED BY <3>2, <3>3
    <2> QED BY <2>1, <2>3, <2>4, <2>5 DEF Kept, Sound
  <1>6. CASE ~UNCHANGED <<next, timeout_diff, tail>>
    <2>0. /\ time_before <= ReqTimeout /\ LinkLast(r) /\ halted' = halted
          /\ timeout_diff' = [timeout_diff EXCEPT ![r] = ReqTimeout - time_before]
      BY <1>6, Zenon DEF Request, mqtt_append_request, r
    <2>1. /\ Linked(Queue', Len(Queue'), tail', next')
          /\ Len(Queue') = n + 1 /\ Queue'[n + 1] = r
          /\ \A k \in 1..n : Queue'[k] = Queue[k] /\ Queue[k] # r
          /\ next' \in [Slots -> 0..MaxReq] /\ timeout_diff' \in [Slots -> 0..MaxDiff]
          /\ \A k \in Slots : k # r /\ (\A i \in 1..n : Queue[i] # k) => next'[k] = next[k]
          /\ \A i \in 1..n : i # n => next'[Queue[i]] = next[Queue[i]]
          /\ Elapsing'[n + 1] = ReqTimeout
      BY <1>0, <1>2, <2>0, Appended, Zenon DEF n
    <2>2. ListTypes'
      BY <1>4, <2>1 DEF ListTypes
    <2>3. Position'
      <3>1. ASSUME NEW i \in 1..n, At(i) PROVE i \in 1..(n + 1) /\ At(i)'
        <4>1. i \in 1..(n + 1) /\ (i # 1 => i - 1 \in 1..n)
          BY <1>1
        <4> QED BY <1>3, <2>1, <3>1, <4>1 DEF At, Before
      <3>2. ASSUME NEW i \in 1..n, iter = Queue[i], loaded \in {NULL, next[iter]}
            PROVE  loaded \in {NULL, next'[iter]}
        BY <1>1, <2>1, <3>2, SMTT(30)
      <3>3. tp' \in {"load", "unchain"} => \E i \in 1..Len(Queue') : At(i)'
        BY <1>0, <1>3, <2>1, <3>1 DEF Position, n
      <3>4. tp' = "expire" => Len(Queue') > 0 /\ iter' = Queue'[1]
        <4> HAVE tp' = "expire"
        <4>1. n > 0 /\ iter = Queue[1]
          BY <1>0, <1>3 DEF Position, n
        <4>2. 1 \in 1..n
          BY <1>1, <4>1
        <4> QED BY <1>1, <1>3, <2>1, <4>1, <4>2
      <3>5. tp' \in {"unchain", "expire"} => loaded' \in {NULL, next'[iter']}
        <4> HAVE tp' \in {"unchain", "expire"}
        <4>1. \E i \in 1..n : iter = Queue[i]
          <5>1. CASE tp = "unchain"
            BY <1>0, <5>1, Zenon DEF Position, At, n
          <5>2. CASE tp = "expire"
            <6>1. n > 0 /\ iter = Queue[1]
              BY <1>0, <5>2, Zenon DEF Position, n
            <6>2. 1 \in 1..n
              BY <1>1, <6>1
            <6> QED BY <6>1, <6>2
          <5> QED BY <1>3, <5>1, <5>2
        <4>2. loaded \in {NULL, next[iter]}
          BY <1>0, <1>3 DEF Position
        <4> QED BY <1>3, <3>2, <4>1, <4>2
      <3>6. tp' \in {"pass", "free"} =>
               /\ iter' \in Slots /\ next'[iter'] # iter'
               /\ \A k \in 1..Len(Queue') : Queue'[k] # iter'
        <4> HAVE tp' \in {"pass", "free"}
        <4>1. /\ iter \in Slots /\ next[iter] # iter
              /\ \A k \in 1..n : Queue[k] # iter
          BY <1>0, <1>3 DEF Position, n
        <4>2. iter # r /\ next'[iter] = next[iter]
          BY <1>2, <2>1, <4>1
        <4>3. \A k \in 1..(n + 1) : k \in 1..n \/ k = n + 1
          BY <1>1
        <4> QED BY <1>3, <2>1, <4>1, <4>2, <4>3
      <3> QED BY <3>3, <3>4, <3>5, <3>6 DEF Position
    <2>4. ASSUME ~preempt PROVE ~halted' /\ Undisturbed'
      <3>1. ~halted /\ Undisturbed /\ tp = "idle" /\ tp' = "idle"
        BY <1>3, <2>4, Zenon DEF RInv
      <3>2. ~halted'
        BY <2>0, <3>1, Zenon
      <3>3. ASSUME NEW m \in Slots
            PROVE  \/ next'[m] = m \/ \E k \in 1..Len(Queue') : Queue'[k] = m
        <4>1. next[m] = m \/ \E k \in 1..n : Queue[k] = m
          BY <3>1 DEF Undisturbed, Held, n
        <4>2. n + 1 \in 1..(n + 1) /\ \A k \in 1..n : k \in 1..(n + 1)
          BY <1>1
        <4> QED BY <2>1, <4>1, <4>2
      <3>4. Elapsing'[Len(Queue')] <= ReqTimeout /\ Elapsing'[Len(Queue')] \in Int
        BY <2>1, RequestsAssumption
      <3>5. t' = 0
        BY <1>3, <3>1 DEF Undisturbed
      <3>6. Undisturbed'
        BY <3>1, <3>3, <3>4, <3>5 DEF Undisturbed
      <3> QED BY <3>2, <3>6
    <2> QED BY <2>1, <2>2, <2>3, <2>4 DEF Kept, Sound
  <1> QED BY <1>5, <1>6

(* The list is emptied between list operations.                            *)
LEMMA Emptied ==
    ASSUME ListTypes', tail' = NULL
    PROVE  /\ Queue' = <<>> /\ Len(Queue') = 0
           /\ Linked(Queue', Len(Queue'), tail', next') /\ Elapsing'[0] = 0
  <1>1. Linked(<<>>, 0, tail', next')
    BY RequestsAssumption DEF Linked
  <1>2. Queue' = <<>> /\ Len(Queue') = 0 /\ Linked(Queue', Len(Queue'), tail', next')
    BY <1>1, QueueAfter, Zenon
  <1> DEFINE v == [k \in 0..0 |-> 0]
  <1>3. Summed(v, <<>>, 0, timeout_diff')
    BY DEF Summed
  <1>4. v[0] = 0
    OBVIOUS
  <1> HIDE DEF v
  <1>5. Len(Queue') \in Nat /\ Summed(v, Queue', Len(Queue'), timeout_diff')
    BY <1>2, <1>3
  <1>6. Elapsing' = v
    BY <1>5, ElapsingAfter, Zenon
  <1> QED BY <1>2, <1>4, <1>6

(* The invariant holds of an empty list between list operations.           *)
LEMMA EmptyKept ==
    ASSUME ListTypes', tail' = NULL, tp' = "idle",
           ~preempt => ~halted' /\ t' = 0 /\ \A m \in Slots : next'[m] = m
    PROVE  Kept
  <1>1. /\ Len(Queue') = 0 /\ Elapsing'[0] = 0
        /\ Linked(Queue', Len(Queue'), tail', next')
    BY Emptied, Zenon
  <1>2. Position'
    BY DEF Position
  <1>3. ASSUME ~preempt PROVE Undisturbed'
    <2>1. Elapsing'[Len(Queue')] + 0 <= ReqTimeout
      BY <1>1, RequestsAssumption
    <2> QED BY <1>3, <2>1 DEF Undisturbed
  <1> QED BY <1>1, <1>2, <1>3 DEF Kept, Sound

(* A new connection starts with an empty list and every slot free.         *)
LEMMA ReconnectStep ==
    ASSUME RInv, Reconnect
    PROVE  Kept
  <1>1. /\ tail' = NULL /\ tp' = "idle" /\ tp = "idle" /\ t' = t /\ halted' = halted
        /\ next' = [n \in Slots |-> n] /\ iter' = iter /\ prev' = prev
        /\ loaded' = loaded /\ now' = now /\ pkt_id' = [n \in Slots |-> 0]
        /\ timeout_diff' = [n \in Slots |-> 0]
    BY DEF Reconnect, locals
  <1>2. ListTypes
    BY DEF RInv
  <1>3. ListTypes'
    <2>1. next' \in [Slots -> 0..MaxReq]
      BY <1>1, RequestsAssumption DEF Slots
    <2>2. pkt_id' \in [Slots -> Ids] /\ timeout_diff' \in [Slots -> 0..MaxDiff]
      BY <1>1, RequestsAssumption DEF Ids
    <2> QED BY <1>1, <1>2, <2>1, <2>2 DEF ListTypes
  <1>4. ~preempt => ~halted' /\ t' = 0 /\ \A m \in Slots : next'[m] = m
    <2> HAVE ~preempt
    <2>1. ~halted /\ Undisturbed
      BY Zenon DEF RInv
    <2>2. t = 0
      BY <1>1, <2>1 DEF Undisturbed
    <2>3. ~halted'
      BY <1>1, <2>1, Zenon
    <2> QED BY <1>1, <2>2, <2>3
  <1> QED BY <1>1, <1>3, <1>4, EmptyKept, Zenon

(* mqtt_clear_requests frees the slots of the list.                        *)
LEMMA ClearStep ==
    ASSUME RInv, mqtt_clear_requests
    PROVE  Kept
  <1>1. /\ tail' = NULL /\ tp' = "idle" /\ tp = "idle" /\ t' = t /\ halted' = halted
        /\ next' = [n \in Slots |-> IF \E k \in DOMAIN Queue : Queue[k] = n
                                    THEN n ELSE next[n]]
        /\ iter' = iter /\ prev' = prev
        /\ loaded' = loaded /\ now' = now /\ pkt_id' = pkt_id
        /\ timeout_diff' = timeout_diff
    BY DEF mqtt_clear_requests, locals
  <1>2. ListTypes /\ Linked(Queue, Len(Queue), tail, next)
    BY DEF RInv, Sound
  <1>3. ListTypes'
    <2>1. next' \in [Slots -> 0..MaxReq]
      <3>1. \A m \in Slots : m \in 0..MaxReq /\ next[m] \in 0..MaxReq
        BY <1>2, RequestsAssumption DEF Slots, ListTypes
      <3> QED BY <1>1, <3>1, Zenon
    <2> QED BY <1>1, <1>2, <2>1 DEF ListTypes
  <1>4. ~preempt => ~halted' /\ t' = 0 /\ \A m \in Slots : next'[m] = m
    <2> HAVE ~preempt
    <2>1. ~halted /\ Undisturbed
      BY Zenon DEF RInv
    <2>2. t = 0 /\ \A m \in Slots : next[m] = m \/ \E k \in 1..Len(Queue) : Queue[k] = m
      BY <1>1, <2>1 DEF Undisturbed, Held
    <2>3. ~halted'
      BY <1>1, <2>1, ZenonT(30)
    <2>4. DOMAIN Queue = 1..Len(Queue)
      BY <1>2, ListFacts
    <2>5. \A m \in Slots : next'[m] = m
      BY <1>1, <2>2, <2>4, Zenon
    <2> QED BY <1>1, <2>2, <2>3, <2>5
  <1> QED BY <1>1, <1>3, <1>4, EmptyKept, Zenon

-----------------------------------------------------------------------------
(* The steps of the tcpip thread.                                          *)

(* What holds before any of them.                                          *)
LEMMA Facts ==
    ASSUME RInv
    PROVE  /\ ListTypes /\ Linked(Queue, Len(Queue), tail, next) /\ Position
           /\ ~preempt => ~halted /\ Undisturbed
           /\ DOMAIN Queue = 1..Len(Queue)
  <1>1. ListTypes /\ Linked(Queue, Len(Queue), tail, next) /\ Position
    BY Zenon DEF RInv, Sound
  <1>2. ~preempt => ~halted /\ Undisturbed
    BY ZenonT(30) DEF RInv
  <1>3. DOMAIN Queue = 1..Len(Queue)
    BY <1>1, ListFacts
  <1> QED BY <1>1, <1>2, <1>3, Zenon

(* A step that leaves the list alone.                                      *)
LEMMA SameList ==
    ASSUME RInv, UNCHANGED <<next, tail, timeout_diff>>
    PROVE  /\ Queue' = Queue /\ Len(Queue') = Len(Queue) /\ Elapsing' = Elapsing
           /\ Linked(Queue', Len(Queue'), tail', next')
  <1>1. /\ Queue' = Queue /\ Len(Queue') = Len(Queue)
        /\ Linked(Queue', Len(Queue'), tail', next')
    BY Facts, SameQueue, Zenon
  <1>2. Elapsing' = Elapsing
    BY <1>1, Facts, SameSums, Zenon
  <1> QED BY <1>1, <1>2, Zenon

(* No time is held back outside a take.                                    *)
LEMMA SumInBound ==
    ASSUME RInv, ~preempt
    PROVE  /\ Elapsing[Len(Queue)] \in Nat /\ Elapsing[Len(Queue)] <= ReqTimeout
           /\ Elapsing[Len(Queue)] + 0 <= ReqTimeout
  <1>1. Elapsing[Len(Queue)] \in Nat
    <2>1. ListTypes /\ Linked(Queue, Len(Queue), tail, next)
      BY Facts, Zenon
    <2>2. Len(Queue) \in Nat /\ Elapsing \in [0..Len(Queue) -> Nat]
      BY <2>1, ListFacts, Zenon
    <2> QED BY <2>2
  <1>2. Elapsing[Len(Queue)] + (IF tp = "pass" THEN timeout_diff[iter] ELSE 0)
           <= ReqTimeout
    BY Zenon DEF RInv, Undisturbed
  <1>3. (IF tp = "pass" THEN timeout_diff[iter] ELSE 0) \in Nat
    <2>1. CASE tp = "pass"
      <3>1. iter \in Slots /\ timeout_diff \in [Slots -> 0..MaxDiff]
        BY <2>1, Facts DEF Position, ListTypes
      <3> QED BY <2>1, <3>1, RequestsAssumption
    <2> QED BY <2>1
  <1> DEFINE x == IF tp = "pass" THEN timeout_diff[iter] ELSE 0
             y == Elapsing[Len(Queue)]
  <1>4. x \in Nat /\ y \in Nat /\ y + x <= ReqTimeout
    BY <1>1, <1>2, <1>3
  <1> HIDE DEF x, y
  <1>5. y \in Nat /\ y <= ReqTimeout /\ y + 0 <= ReqTimeout
    BY <1>4, RequestsAssumption
  <1> QED BY <1>5 DEF y

(* An answer arrives.                                                      *)
LEMMA StartTakeStep ==
    ASSUME RInv, NEW id \in Ids, StartTake(id)
    PROVE  Kept
  <1>1. /\ UNCHANGED <<next, tail, timeout_diff, pkt_id, iter, prev, loaded, t, now>>
        /\ tp = "idle" /\ tp' = "search" /\ halted' = halted
    BY DEF StartTake, list
  <1>2. /\ Queue' = Queue /\ Len(Queue') = Len(Queue) /\ Elapsing' = Elapsing
        /\ Linked(Queue', Len(Queue'), tail', next')
    BY <1>1, SameList, Zenon
  <1>3. ListTypes' /\ Position'
    BY <1>1, Facts DEF ListTypes, Position, Pcs
  <1>4. ASSUME ~preempt PROVE ~halted' /\ Undisturbed'
    <2>1. ~halted' /\ Undisturbed
      BY <1>1, <1>4, Facts, Zenon
    <2>2. Elapsing[Len(Queue)] + 0 <= ReqTimeout
      BY <1>4, SumInBound
    <2>3. Undisturbed'
      BY <1>1, <1>2, <2>1, <2>2 DEF Undisturbed, Held
    <2> QED BY <2>1, <2>3
  <1> QED BY <1>2, <1>3, <1>4 DEF Kept, Sound

(* The search finds the first request with the id.                         *)
LEMMA SearchStep ==
    ASSUME RInv, Search
    PROVE  Kept
  <1> DEFINE hits == {k \in DOMAIN Queue : pkt_id[Queue[k]] = Sought}
             first == CHOOSE a \in hits : \A b \in hits : a <= b
  <1>1. /\ UNCHANGED <<next, tail, timeout_diff, pkt_id, loaded, t, now, again>>
        /\ tp = "search" /\ halted' = halted
        /\ IF hits = {} THEN tp' = "idle" /\ UNCHANGED <<iter, prev>>
           ELSE /\ iter' = Queue[first] /\ prev' = Before(first) /\ tp' = "load"
    BY Zenon DEF Search, list, Sought, Before
  <1>2. /\ Queue' = Queue /\ Len(Queue') = Len(Queue) /\ Elapsing' = Elapsing
        /\ Linked(Queue', Len(Queue'), tail', next')
    BY <1>1, SameList, Zenon
  <1>3. /\ ListTypes /\ DOMAIN Queue = 1..Len(Queue) /\ Len(Queue) \in Nat
        /\ Queue \in [1..Len(Queue) -> Slots]
        /\ ~preempt => ~halted /\ Undisturbed
    <2>1. ListTypes /\ Linked(Queue, Len(Queue), tail, next)
      BY Facts, Zenon
    <2> QED BY <2>1, Facts, ListFacts, Zenon
  <1>4. CASE hits = {}
    <2>1. tp' = "idle" /\ UNCHANGED <<iter, prev>>
      BY <1>1, <1>4, Zenon
    <2>2. ListTypes' /\ Position'
      BY <1>1, <1>3, <2>1 DEF ListTypes, Position, Pcs
    <2>3. ASSUME ~preempt PROVE ~halted' /\ Undisturbed'
      <3>1. ~halted' /\ Undisturbed
        BY <1>1, <1>3, <2>3, Zenon
      <3>2. Elapsing[Len(Queue)] + 0 <= ReqTimeout
        BY <2>3, SumInBound, SMTT(30)
      <3>3. Undisturbed'
        BY <1>1, <1>2, <2>1, <3>1, <3>2 DEF Undisturbed, Held
      <3> QED BY <3>1, <3>3
    <2> QED BY <1>2, <2>2, <2>3 DEF Kept, Sound
  <1>5. CASE hits # {}
    <2>0. PICK i : i = first
      OBVIOUS
    <2>1. iter' = Queue[i] /\ prev' = Before(i) /\ tp' = "load"
      BY <1>1, <1>5, <2>0, Zenon
    <2>2. hits \in SUBSET Nat
      BY <1>3
    <2>3. i \in hits /\ \A b \in hits : i <= b
      <3>1. \E a \in hits : \A b \in hits : a <= b
        BY <1>5, <2>2, Least, Zenon
      <3> HIDE DEF hits
      <3> QED BY <2>0, <3>1, Zenon
    <2>4. i \in 1..Len(Queue) /\ pkt_id[Queue[i]] = Sought
      BY <1>3, <2>3, Zenon
    <2>5. ASSUME NEW j \in 1..(i - 1) PROVE pkt_id[Queue[j]] # Sought
      <3>1. j \in 1..Len(Queue) /\ ~(i <= j)
        BY <1>3, <2>4
      <3> QED BY <1>3, <2>3, <3>1, Zenon
    <2> HIDE DEF first, hits
    <2>6. Queue[i] \in 0..MaxReq /\ Before(i) \in 0..MaxReq
      <3>1. \A m \in Slots : m \in 0..MaxReq
        BY RequestsAssumption DEF Slots
      <3>2. i # 1 => i - 1 \in 1..Len(Queue)
        BY <1>3, <2>4
      <3>3. NULL \in 0..MaxReq
        BY RequestsAssumption DEF NULL
      <3> QED BY <1>3, <2>4, <3>1, <3>2, <3>3 DEF Before
    <2>7. At(i)' /\ i \in 1..Len(Queue')
      BY <1>2, <2>1, <2>4 DEF At, Before
    <2>8. ListTypes'
      BY <1>1, <1>3, <2>1, <2>6 DEF ListTypes, Pcs
    <2>9. Position'
      BY <2>1, <2>7 DEF Position
    <2>10. ASSUME ~preempt PROVE ~halted' /\ Undisturbed'
      <3>1. ~halted' /\ Undisturbed
        BY <1>1, <1>3, <2>10, Zenon
      <3>2. Elapsing[Len(Queue)] + 0 <= ReqTimeout
        BY <2>10, SumInBound, SMTT(30)
      <3>3. /\ At(i)' /\ pkt_id'[iter'] = Sought'
            /\ \A j \in 1..(i - 1) : pkt_id'[Queue'[j]] # Sought'
        BY <1>1, <1>2, <2>1, <2>4, <2>5, <2>7, SMTT(30) DEF Sought
      <3>4. Undisturbed'
        BY <1>1, <1>2, <2>1, <2>7, <3>1, <3>2, <3>3 DEF Undisturbed, Held
      <3> QED BY <3>1, <3>4
    <2> QED BY <1>2, <2>8, <2>9, <2>10 DEF Kept, Sound
  <1> QED BY <1>4, <1>5

(* The successor of the request found is loaded.                           *)
LEMMA LoadStep ==
    ASSUME RInv, Load
    PROVE  Kept
  <1>1. /\ UNCHANGED <<next, tail, timeout_diff, pkt_id, iter, prev, t, now, again>>
        /\ tp = "load" /\ tp' = "unchain" /\ halted' = halted /\ loaded' = next[iter]
    BY DEF Load, list
  <1>2. /\ Queue' = Queue /\ Len(Queue') = Len(Queue) /\ Elapsing' = Elapsing
        /\ Linked(Queue', Len(Queue'), tail', next')
    BY <1>1, SameList, Zenon
  <1>3. ListTypes /\ Position /\ Queue \in [1..Len(Queue) -> Slots]
    <2>1. ListTypes /\ Position /\ Linked(Queue, Len(Queue), tail, next)
      BY Facts, Zenon
    <2> QED BY <2>1, ListFacts, Zenon
  <1>4. PICK i \in 1..Len(Queue) : At(i)
    BY <1>1, <1>3 DEF Position
  <1>5. loaded' \in 0..MaxReq
    BY <1>1, <1>3, <1>4 DEF At, ListTypes
  <1>6. ListTypes'
    BY <1>1, <1>3, <1>5 DEF ListTypes, Pcs
  <1>7. At(i)'
    BY <1>1, <1>2, <1>4 DEF At, Before
  <1>8. Position'
    BY <1>1, <1>2, <1>7 DEF Position
  <1>9. ASSUME ~preempt PROVE ~halted' /\ Undisturbed'
    <2>1. ~halted' /\ Undisturbed
      BY <1>1, <1>9, Facts, Zenon
    <2>2. Elapsing[Len(Queue)] + 0 <= ReqTimeout
      BY <1>9, SumInBound
    <2>3. PICK j \in 1..Len(Queue) :
             /\ At(j) /\ pkt_id[iter] = Sought
             /\ \A k \in 1..(j - 1) : pkt_id[Queue[k]] # Sought
      BY <1>1, <2>1 DEF Undisturbed
    <2>4. /\ At(j)' /\ pkt_id'[iter'] = Sought'
          /\ \A k \in 1..(j - 1) : pkt_id'[Queue'[k]] # Sought'
      BY <1>1, <1>2, <2>3 DEF Sought, At, Before
    <2>5. Undisturbed'
      BY <1>1, <1>2, <2>1, <2>2, <2>4 DEF Undisturbed, Held
    <2> QED BY <2>1, <2>5
  <1> QED BY <1>2, <1>6, <1>8, <1>9 DEF Kept, Sound

(* The cyclic timer runs.                                                  *)
LEMMA StartElapsedStep ==
    ASSUME RInv, StartElapsed
    PROVE  Kept
  <1>1. /\ UNCHANGED <<next, tail, timeout_diff, pkt_id, iter, prev, loaded>>
        /\ tp = "idle" /\ tp' = "elapsed" /\ halted' = halted /\ t' = 1
        /\ now' = now + 1
    BY DEF StartElapsed, list
  <1>2. /\ Queue' = Queue /\ Len(Queue') = Len(Queue) /\ Elapsing' = Elapsing
        /\ Linked(Queue', Len(Queue'), tail', next')
    BY <1>1, SameList, Zenon
  <1>3. ListTypes' /\ Position'
    BY <1>1, Facts DEF ListTypes, Position, Pcs
  <1>4. ASSUME ~preempt PROVE ~halted' /\ Undisturbed'
    <2>1. ~halted' /\ Undisturbed
      BY <1>1, <1>4, Facts, Zenon
    <2>2. Elapsing[Len(Queue)] + 0 <= ReqTimeout
      BY <1>4, SumInBound, SMTT(30)
    <2>3. Undisturbed'
      BY <1>1, <1>2, <2>1, <2>2 DEF Undisturbed, Held
    <2> QED BY <2>1, <2>3
  <1> QED BY <1>2, <1>3, <1>4 DEF Kept, Sound

(* The deadline of the oldest request comes nearer by t.                   *)
LEMMA Nearer ==
    ASSUME RInv, UNCHANGED <<next, tail>>, tail # NULL, t < timeout_diff[tail],
           timeout_diff' = [timeout_diff EXCEPT ![tail] = @ - t]
    PROVE  /\ Queue' = Queue /\ Len(Queue') = Len(Queue) /\ Len(Queue) > 0
           /\ Linked(Queue', Len(Queue'), tail', next')
           /\ timeout_diff' \in [Slots -> 0..MaxDiff]
           /\ \A k \in 1..Len(Queue) : Elapsing'[k] = Elapsing[k] - t
  <1> DEFINE n == Len(Queue)
             q == Queue
             w == SumMore(Elapsing, n, 1, -t)
  <1>1. /\ ListTypes /\ Linked(Queue, Len(Queue), tail, next) /\ t \in Nat
        /\ timeout_diff \in [Slots -> 0..MaxDiff]
    BY Facts DEF ListTypes
  <1>2. /\ n \in Nat /\ q \in [1..n -> Slots]
        /\ \A i, j \in 1..n : q[i] = q[j] => i = j
        /\ tail = IF n = 0 THEN NULL ELSE q[1]
        /\ Summed(Elapsing, q, n, timeout_diff)
        /\ Elapsing \in [0..n -> Nat]
    BY <1>1, ListFacts, Zenon
  <1>3. /\ Queue' = q /\ Len(Queue') = n
        /\ Linked(Queue', Len(Queue'), tail', next')
    BY <1>1, SameQueue, Zenon
  <1> HIDE DEF n, q
  <1>4. n > 0 /\ 1 \in 1..n /\ tail = q[1] /\ -t \in Int
    BY <1>1, <1>2
  <1>5. tail \in Slots
    BY <1>2, <1>4
  <1>6. /\ timeout_diff[tail] \in 0..MaxDiff
        /\ timeout_diff[tail] - t \in 0..MaxDiff
        /\ timeout_diff[tail] + (-t) = timeout_diff[tail] - t
    <2>1. timeout_diff[tail] \in 0..MaxDiff
      BY <1>1, <1>5
    <2> QED BY <1>1, <2>1, RequestsAssumption
  <1>7. timeout_diff' \in [Slots -> 0..MaxDiff]
    BY <1>1, <1>5, <1>6
  <1>8. timeout_diff' = [timeout_diff EXCEPT ![q[1]] = timeout_diff[q[1]] + (-t)]
    BY <1>1, <1>4, <1>6
  <1>9. Summed(w, q, n, [timeout_diff EXCEPT ![q[1]] = timeout_diff[q[1]] + (-t)])
    BY <1>1, <1>2, <1>4, SumAdded, Zenon
  <1>10. \A k \in 1..n : w[k] = Elapsing[k] - t
    <2>1. \A k \in 1..n : w[k] = Elapsing[k] + (-t)
      BY <1>2, <1>4 DEF SumMore
    <2>2. \A k \in 1..n : Elapsing[k] \in Nat
      BY <1>2
    <2> QED BY <1>1, <2>1, <2>2
  <1> HIDE DEF w
  <1>11. Elapsing' = w
    <2>1. Len(Queue') \in Nat /\ Summed(w, Queue', Len(Queue'), timeout_diff')
      BY <1>2, <1>3, <1>8, <1>9, Zenon
    <2> QED BY <2>1, ElapsingAfter, Zenon
  <1> QED BY <1>3, <1>4, <1>7, <1>10, <1>11, Zenon DEF n, q

(* The oldest request is due, or comes nearer, or nothing is left to do.   *)
LEMMA ElapsedStep ==
    ASSUME RInv, Elapsed
    PROVE  Kept
  <1>1. /\ UNCHANGED <<next, tail, pkt_id, prev, now>>
        /\ tp = "elapsed" /\ halted' = halted
    BY DEF Elapsed
  <1>2. /\ ListTypes /\ Linked(Queue, Len(Queue), tail, next)
        /\ ~preempt => ~halted /\ Undisturbed
    BY Facts, Zenon
  <1>3. /\ Len(Queue) \in Nat /\ tail = IF Len(Queue) = 0 THEN NULL ELSE Queue[1]
        /\ Queue \in [1..Len(Queue) -> Slots]
    BY <1>2, ListFacts, Zenon
  <1>4. CASE /\ tail # NULL /\ t >= timeout_diff[tail]
             /\ iter' = tail /\ loaded' = next[tail]
             /\ t' = t - timeout_diff[tail] /\ tp' = "expire"
             /\ UNCHANGED timeout_diff
    <2>1. /\ Queue' = Queue /\ Len(Queue') = Len(Queue) /\ Elapsing' = Elapsing
          /\ Linked(Queue', Len(Queue'), tail', next')
      BY <1>1, <1>4, SameList, Zenon
    <2>2. Len(Queue) > 0 /\ 1 \in 1..Len(Queue) /\ tail = Queue[1]
      BY <1>3, <1>4
    <2>3. tail \in Slots
      BY <1>3, <2>2
    <2>4. timeout_diff[tail] \in 0..MaxDiff /\ next[tail] \in 0..MaxReq
      BY <1>2, <2>3 DEF ListTypes
    <2>5. t' \in Nat /\ iter' \in 0..MaxReq /\ loaded' \in 0..MaxReq
      BY <1>2, <1>4, <2>3, <2>4, RequestsAssumption DEF ListTypes, Slots
    <2>6. ListTypes'
      BY <1>1, <1>2, <1>4, <2>5 DEF ListTypes, Pcs
    <2>7. Position'
      BY <1>1, <1>4, <2>1, <2>2 DEF Position
    <2>8. ASSUME ~preempt PROVE ~halted' /\ Undisturbed'
      <3>1. ~halted' /\ Undisturbed
        BY <1>1, <1>2, <2>8, Zenon
      <3>2. Elapsing[Len(Queue)] + 0 <= ReqTimeout
        BY <2>8, SumInBound, SMTT(30)
      <3>3. Undisturbed'
        BY <1>1, <1>4, <2>1, <3>1, <3>2 DEF Undisturbed, Held
      <3> QED BY <3>1, <3>3
    <2> QED BY <2>1, <2>6, <2>7, <2>8 DEF Kept, Sound
  <1>5. CASE /\ tail # NULL /\ t < timeout_diff[tail]
             /\ timeout_diff' = [timeout_diff EXCEPT ![tail] = @ - t]
             /\ t' = 0 /\ tp' = "idle" /\ UNCHANGED <<iter, loaded>>
    <2>1. /\ Queue' = Queue /\ Len(Queue') = Len(Queue) /\ Len(Queue) > 0
          /\ Linked(Queue', Len(Queue'), tail', next')
          /\ timeout_diff' \in [Slots -> 0..MaxDiff]
          /\ \A k \in 1..Len(Queue) : Elapsing'[k] = Elapsing[k] - t
      BY <1>1, <1>5, Nearer, Zenon
    <2>2. ListTypes'
      BY <1>1, <1>2, <1>5, <2>1 DEF ListTypes, Pcs
    <2>3. Position'
      BY <1>5 DEF Position
    <2>4. ASSUME ~preempt PROVE ~halted' /\ Undisturbed'
      <3>1. ~halted' /\ Undisturbed
        BY <1>1, <1>2, <2>4, Zenon
      <3>2. Elapsing[Len(Queue)] \in Nat /\ Elapsing[Len(Queue)] <= ReqTimeout
        BY <2>4, SumInBound
      <3>3. Len(Queue) \in 1..Len(Queue)
        BY <1>3, <2>1
      <3>4. Elapsing'[Len(Queue)] = Elapsing[Len(Queue)] - t
        BY <2>1, <3>3, Zenon
      <3>5. Elapsing[Len(Queue)] - t + 0 <= ReqTimeout
        BY <1>2, <3>2, RequestsAssumption DEF ListTypes
      <3>6. Elapsing'[Len(Queue')] + 0 <= ReqTimeout
        BY <2>1, <3>4, <3>5, SMTT(30)
      <3>7. Undisturbed'
        BY <1>1, <1>5, <2>1, <3>1, <3>6 DEF Undisturbed, Held
      <3> QED BY <3>1, <3>7
    <2> QED BY <2>1, <2>2, <2>3, <2>4 DEF Kept, Sound
  <1>6. CASE t' = 0 /\ tp' = "idle" /\ UNCHANGED <<timeout_diff, iter, loaded>>
    <2>1. /\ Queue' = Queue /\ Len(Queue') = Len(Queue) /\ Elapsing' = Elapsing
          /\ Linked(Queue', Len(Queue'), tail', next')
      BY <1>1, <1>6, SameList, Zenon
    <2>2. ListTypes' /\ Position'
      BY <1>1, <1>2, <1>6 DEF ListTypes, Position, Pcs
    <2>3. ASSUME ~preempt PROVE ~halted' /\ Undisturbed'
      <3>1. ~halted' /\ Undisturbed
        BY <1>1, <1>2, <2>3, Zenon
      <3>2. Elapsing[Len(Queue)] + 0 <= ReqTimeout
        BY <2>3, SumInBound, SMTT(30)
      <3>3. Undisturbed'
        BY <1>1, <1>6, <2>1, <3>1, <3>2 DEF Undisturbed, Held
      <3> QED BY <3>1, <3>3
    <2> QED BY <2>1, <2>2, <2>3 DEF Kept, Sound
  <1> QED BY <1>4, <1>5, <1>6, Zenon DEF Elapsed

(* The request taken is freed.                                             *)
LEMMA DeleteStep ==
    ASSUME RInv, Delete
    PROVE  /\ Queue' = Queue /\ Len(Queue') = Len(Queue) /\ Elapsing' = Elapsing
           /\ Kept
  <1>1. /\ UNCHANGED <<tail, timeout_diff, pkt_id, t, now, again>>
        /\ next' = [next EXCEPT ![iter] = iter] /\ tp = "free"
        /\ tp' \in {"idle", "search"} /\ halted' = halted
        /\ iter' = NULL /\ prev' = NULL /\ loaded' = NULL
    BY DEF Delete
  <1>2. /\ ListTypes /\ Linked(Queue, Len(Queue), tail, next)
        /\ ~preempt => ~halted /\ Undisturbed
    BY Facts, Zenon
  <1>3. iter \in Slots /\ \A k \in 1..Len(Queue) : Queue[k] # iter
    BY <1>1, Facts DEF Position
  <1>4. next \in [Slots -> 0..MaxReq]
    BY <1>2 DEF ListTypes
  <1>5. Linked(Queue, Len(Queue), tail', next')
    <2>1. Linked(Queue, Len(Queue), tail, [next EXCEPT ![iter] = iter])
      BY <1>2, <1>3, <1>4, LinkedOff, Zenon
    <2> QED BY <1>1, <2>1, Zenon
  <1>6. /\ Queue' = Queue /\ Len(Queue') = Len(Queue)
        /\ Linked(Queue', Len(Queue'), tail', next')
    BY <1>5, QueueAfter, Zenon
  <1>7. Elapsing' = Elapsing
    BY <1>1, <1>2, <1>6, SameSums, Zenon
  <1>8. ListTypes'
    <2>1. iter \in 0..MaxReq /\ NULL \in 0..MaxReq
      BY <1>3, RequestsAssumption DEF Slots, NULL
    <2>2. next' \in [Slots -> 0..MaxReq]
      BY <1>1, <1>4, <2>1
    <2> QED BY <1>1, <1>2, <2>1, <2>2 DEF ListTypes, Pcs
  <1>9. Position'
    BY <1>1 DEF Position
  <1>10. ASSUME ~preempt PROVE ~halted' /\ Undisturbed'
    <2>1. ~halted' /\ Undisturbed
      BY <1>1, <1>2, <1>10, Zenon
    <2>2. Elapsing[Len(Queue)] + 0 <= ReqTimeout
      BY <1>10, SumInBound
    <2>3. ASSUME NEW m \in Slots
          PROVE  \/ next'[m] = m \/ \E k \in 1..Len(Queue') : Queue'[k] = m
      <3>1. next[m] = m \/ m = iter \/ \E k \in 1..Len(Queue) : Queue[k] = m
        BY <1>1, <2>1, SMTT(30) DEF Undisturbed, Held
      <3> QED BY <1>1, <1>4, <1>6, <3>1
    <2>4. Undisturbed'
      BY <1>1, <1>6, <1>7, <2>1, <2>2, <2>3, SMTT(30) DEF Undisturbed, Held
    <2> QED BY <2>1, <2>4
  <1> QED BY <1>6, <1>7, <1>8, <1>9, <1>10 DEF Kept, Sound

(* The request taken is unlinked from its successor; the list stays.       *)
LEMMA Unlinked ==
    ASSUME RInv, PassTimeout
    PROVE  /\ Queue' = Queue /\ Len(Queue') = Len(Queue)
           /\ Linked(Queue', Len(Queue'), tail', next')
           /\ next' \in [Slots -> 0..MaxReq] /\ next'[iter] = NULL /\ iter \in Slots
           /\ \A m \in Slots : m # iter => next'[m] = next[m]
           /\ \A k \in 1..Len(Queue) : Queue[k] # iter
  <1>1. tail' = tail /\ next' = [next EXCEPT ![iter] = NULL] /\ tp = "pass"
    BY DEF PassTimeout
  <1>2. ListTypes /\ Linked(Queue, Len(Queue), tail, next) /\ Position
    BY Facts, Zenon
  <1>3. iter \in Slots /\ \A k \in 1..Len(Queue) : Queue[k] # iter
    BY <1>1, <1>2 DEF Position
  <1>4. next \in [Slots -> 0..MaxReq] /\ NULL \in 0..MaxReq
    BY <1>2, RequestsAssumption DEF ListTypes, NULL
  <1>5. Linked(Queue, Len(Queue), tail', next')
    <2>1. Linked(Queue, Len(Queue), tail, [next EXCEPT ![iter] = NULL])
      BY <1>2, <1>3, <1>4, LinkedOff, Zenon
    <2> QED BY <1>1, <2>1, Zenon
  <1>6. /\ Queue' = Queue /\ Len(Queue') = Len(Queue)
        /\ Linked(Queue', Len(Queue'), tail', next')
    BY <1>5, QueueAfter, Zenon
  <1>7. /\ next' \in [Slots -> 0..MaxReq] /\ next'[iter] = NULL
        /\ \A m \in Slots : m # iter => next'[m] = next[m]
    BY <1>1, <1>3, <1>4
  <1> QED BY <1>3, <1>6, <1>7

(* Its remaining time goes to its successor, without wrapping.             *)
LEMMA PassedOn ==
    ASSUME RInv, PassTimeout, ~preempt
    PROVE  \E i \in 1..(Len(Queue) + 1) :
              /\ prev = Before(i)
              /\ \A k \in 0..Len(Queue) :
                    Elapsing'[k] = IF k < i THEN Elapsing[k]
                                   ELSE Elapsing[k] + timeout_diff[iter]
  <1> DEFINE n == Len(Queue)
             q == Queue
             x == timeout_diff[iter]
  <1>1. /\ timeout_diff' = IF next[iter] = NULL THEN timeout_diff
                           ELSE [timeout_diff EXCEPT ![next[iter]] =
                                    (@ + timeout_diff[iter]) % (MaxDiff + 1)]
        /\ tp = "pass"
    BY DEF PassTimeout
  <1>2. ListTypes /\ Linked(Queue, Len(Queue), tail, next) /\ Undisturbed
    BY Facts, Zenon
  <1>3. /\ Queue' = q /\ Len(Queue') = n /\ iter \in Slots
    BY Unlinked, Zenon
  <1>4. /\ n \in Nat /\ q \in [1..n -> Slots]
        /\ \A i, j \in 1..n : q[i] = q[j] => i = j
        /\ Summed(Elapsing, q, n, timeout_diff)
        /\ Elapsing \in [0..n -> Nat]
        /\ \A k \in 1..n : timeout_diff[q[k]] <= Elapsing[k] /\ Elapsing[k] <= Elapsing[n]
    BY <1>2, ListFacts, Zenon
  <1>5. timeout_diff \in [Slots -> 0..MaxDiff]
    BY <1>2 DEF ListTypes
  <1>6. x \in 0..MaxDiff /\ x \in Int
    BY <1>3, <1>5, RequestsAssumption
  <1>7. Elapsing[n] + x <= ReqTimeout
    <2>1. Elapsing[n] + (IF tp = "pass" THEN timeout_diff[iter] ELSE 0) <= ReqTimeout
      BY <1>2, ZenonT(30) DEF Undisturbed
    <2> QED BY <1>1, <2>1
  <1>8. PICK i \in 1..(n + 1) :
           prev = Before(i) /\ next[iter] = IF i <= n THEN q[i] ELSE NULL
    BY <1>1, <1>2 DEF Undisturbed
  <1>9. CASE i <= n
    <2> DEFINE w == SumMore(Elapsing, n, i, x)
    <2>1. i \in 1..n
      BY <1>4, <1>9
    <2>2. next[iter] = q[i] /\ q[i] \in Slots /\ q[i] # NULL
      BY <1>4, <1>8, <1>9, <2>1 DEF NULL, Slots
    <2>3. /\ timeout_diff[q[i]] \in 0..MaxDiff
          /\ timeout_diff[q[i]] <= Elapsing[i] /\ Elapsing[i] <= Elapsing[n]
          /\ Elapsing[i] \in Nat /\ Elapsing[n] \in Nat
      BY <1>4, <1>5, <2>1, <2>2
    <2> HIDE DEF x, n, q
    <2>4. (timeout_diff[q[i]] + x) % (MaxDiff + 1) = timeout_diff[q[i]] + x
      <3>1. timeout_diff[q[i]] + x \in 0..MaxDiff
        BY <1>6, <1>7, <2>3, RequestsAssumption
      <3> QED BY <3>1, RequestsAssumption
    <2>5. timeout_diff' = [timeout_diff EXCEPT ![q[i]] = timeout_diff[q[i]] + x]
      <3>1. timeout_diff' = [timeout_diff EXCEPT ![q[i]] =
                                (timeout_diff[q[i]] + x) % (MaxDiff + 1)]
        BY <1>1, <1>5, <2>2 DEF x
      <3> QED BY <2>4, <3>1, Zenon
    <2>6. Summed(w, q, n, [timeout_diff EXCEPT ![q[i]] = timeout_diff[q[i]] + x])
      BY <1>4, <1>5, <1>6, <2>1, SumAdded, Zenon
    <2>7. \A k \in 0..n : w[k] = IF k < i THEN Elapsing[k] ELSE Elapsing[k] + x
      BY Zenon DEF SumMore
    <2> HIDE DEF w
    <2>8. Elapsing' = w
      <3>1. Len(Queue') \in Nat /\ Summed(w, Queue', Len(Queue'), timeout_diff')
        BY <1>3, <1>4, <2>5, <2>6, Zenon
      <3> QED BY <3>1, ElapsingAfter, Zenon
    <2> QED BY <1>8, <2>7, <2>8, Zenon DEF n, q, x
  <1>10. CASE ~(i <= n)
    <2>1. timeout_diff' = timeout_diff
      BY <1>1, <1>8, <1>10
    <2>2. Elapsing' = Elapsing
      BY <1>2, <1>3, <2>1, SameSums, ZenonT(30)
    <2>3. \A k \in 0..n : k < i
      BY <1>4, <1>8, <1>10
    <2> QED BY <1>8, <2>2, <2>3, Zenon
  <1> QED BY <1>9, <1>10

(* Passing the remaining time on keeps the invariant.                      *)
LEMMA PassTimeoutStep ==
    ASSUME RInv, PassTimeout
    PROVE  Kept
  <1>1. /\ UNCHANGED <<tail, pkt_id, iter, prev, loaded, t, now, again>>
        /\ tp = "pass" /\ tp' = "free" /\ halted' = halted
        /\ timeout_diff' = IF next[iter] = NULL THEN timeout_diff
                           ELSE [timeout_diff EXCEPT ![next[iter]] =
                                    (@ + timeout_diff[iter]) % (MaxDiff + 1)]
    BY DEF PassTimeout, locals
  <1>2. /\ ListTypes /\ Linked(Queue, Len(Queue), tail, next)
        /\ ~preempt => ~halted /\ Undisturbed
    BY Facts, Zenon
  <1>3. /\ Queue' = Queue /\ Len(Queue') = Len(Queue)
        /\ Linked(Queue', Len(Queue'), tail', next')
        /\ next' \in [Slots -> 0..MaxReq] /\ next'[iter] = NULL /\ iter \in Slots
        /\ \A m \in Slots : m # iter => next'[m] = next[m]
        /\ \A k \in 1..Len(Queue) : Queue[k] # iter
    BY Unlinked, Zenon
  <1>4. timeout_diff' \in [Slots -> 0..MaxDiff]
    <2>1. timeout_diff \in [Slots -> 0..MaxDiff] /\ next[iter] \in 0..MaxReq
      BY <1>2, <1>3 DEF ListTypes
    <2>2. CASE next[iter] = NULL
      BY <1>1, <2>1, <2>2
    <2>3. CASE next[iter] # NULL
      <3>1. next[iter] \in Slots
        BY <2>1, <2>3, RequestsAssumption DEF NULL, Slots
      <3>2. timeout_diff[next[iter]] \in Nat /\ timeout_diff[iter] \in Nat
        BY <1>3, <2>1, <3>1, RequestsAssumption
      <3>3. (timeout_diff[next[iter]] + timeout_diff[iter]) % (MaxDiff + 1) \in 0..MaxDiff
        BY <3>2, RequestsAssumption
      <3> QED BY <1>1, <2>1, <2>3, <3>3
    <2> QED BY <2>2, <2>3
  <1>5. ListTypes'
    BY <1>1, <1>2, <1>3, <1>4 DEF ListTypes, Pcs
  <1>6. Position'
    <2>1. NULL # iter
      BY <1>3 DEF Slots, NULL
    <2> QED BY <1>1, <1>3, <2>1 DEF Position
  <1>7. ASSUME ~preempt PROVE ~halted' /\ Undisturbed'
    <2>1. ~halted' /\ Undisturbed
      BY <1>1, <1>2, <1>7, ZenonT(30)
    <2>2. Elapsing'[Len(Queue')] + 0 <= ReqTimeout
      <3>1. PICK i \in 1..(Len(Queue) + 1) :
               \A k \in 0..Len(Queue) :
                  Elapsing'[k] = IF k < i THEN Elapsing[k]
                                 ELSE Elapsing[k] + timeout_diff[iter]
        BY <1>7, PassedOn, Zenon
      <3>2. Len(Queue) \in 0..Len(Queue)
        <4>1. Len(Queue) \in Nat
          BY <1>2, ListFacts, Zenon
        <4> QED BY <4>1
      <3>3. Elapsing'[Len(Queue)] \in {Elapsing[Len(Queue)],
                                       Elapsing[Len(Queue)] + timeout_diff[iter]}
        BY <3>1, <3>2
      <3>4. Elapsing[Len(Queue)] + timeout_diff[iter] <= ReqTimeout
        <4>1. Elapsing[Len(Queue)] + (IF tp = "pass" THEN timeout_diff[iter] ELSE 0)
                 <= ReqTimeout
          BY <2>1, Zenon DEF Undisturbed
        <4> QED BY <1>1, <4>1
      <3>5. Elapsing[Len(Queue)] <= ReqTimeout /\ Elapsing[Len(Queue)] \in Nat
        BY <1>7, SumInBound
      <3>6. timeout_diff[iter] \in Nat
        BY <1>2, <1>3, RequestsAssumption DEF ListTypes
      <3> DEFINE y == Elapsing[Len(Queue)]
                 x == timeout_diff[iter]
      <3> HIDE DEF y, x
      <3>7. y + 0 <= ReqTimeout /\ y + x + 0 <= ReqTimeout
        BY <3>4, <3>5, <3>6, RequestsAssumption DEF y, x
      <3> QED BY <1>3, <3>3, <3>7 DEF y, x
    <2>3. ASSUME NEW m \in Slots
          PROVE  \/ next'[m] = m \/ m = iter' \/ \E k \in 1..Len(Queue') : Queue'[k] = m
      <3>1. next[m] = m \/ m = iter \/ \E k \in 1..Len(Queue) : Queue[k] = m
        BY <1>1, <2>1, SMTT(30) DEF Undisturbed, Held
      <3> QED BY <1>1, <1>3, <3>1, SMTT(30)
    <2>4. Undisturbed'
      BY <1>1, <1>3, <2>1, <2>2, <2>3 DEF Undisturbed, Held
    <2> QED BY <2>1, <2>4
  <1> QED BY <1>3, <1>5, <1>6, <1>7 DEF Kept, Sound

(* The links tm and mx with the i-th request taken off by way of y.        *)
Skips(q, i, tl, nx, y, tm, mx) ==
    /\ y \in {NULL, nx[q[i]]}
    /\ IF i = 1 THEN tm = y /\ mx = nx
       ELSE tm = tl /\ mx = [nx EXCEPT ![q[i - 1]] = y]

(* What is left of the list.                                               *)
Leaves(q, n, i, nx, y, tm, mx) ==
    \E p, m : /\ Linked(p, m, tm, mx)
              /\ \A k \in 1..m : p[k] # q[i]
              /\ y = nx[q[i]] => p = Less(q, n, i) /\ m = n - 1

(* The i-th request taken off the list by way of y, its successor or, when *)
(* a request was appended behind it in the meantime, NULL.                 *)
LEMMA TakenOff ==
    ASSUME NEW q, NEW n, NEW tl, NEW nx \in [Slots -> 0..MaxReq], Linked(q, n, tl, nx),
           NEW i \in 1..n, NEW y, NEW tm, NEW mx,
           Skips(q, i, tl, nx, y, tm, mx)
    PROVE  Leaves(q, n, i, nx, y, tm, mx)
  <1>0. /\ MaxReq \in Nat /\ n \in 0..MaxReq /\ n \in Nat /\ i \in Nat
        /\ \A a, b \in 1..n : q[a] = q[b] => a = b
    <2>1. MaxReq \in Nat
      BY RequestsAssumption
    <2>2. n \in 0..MaxReq /\ \A a, b \in 1..n : q[a] = q[b] => a = b
      BY Zenon DEF Linked
    <2>3. n \in Nat /\ i \in Nat
      BY <2>1, <2>2
    <2> QED BY <2>1, <2>2, <2>3 DEF Leaves
  <1>1. CASE y = nx[q[i]]
    <2> DEFINE p == Less(q, n, i)
               m == n - 1
    <2>1. Linked(p, m, tm, mx)
      <3>1. /\ i = 1 => Linked(p, m, nx[q[i]], nx)
            /\ i # 1 => Linked(p, m, tl, [nx EXCEPT ![q[i - 1]] = nx[q[i]]])
        BY LinkedWithout, Zenon
      <3> HIDE DEF p, m
      <3> QED BY <1>1, <3>1, Zenon DEF Skips
    <2>2. ASSUME NEW k \in 1..m PROVE p[k] # q[i]
      <3>1. k \in 1..n /\ k + 1 \in 1..n /\ (k < i => k # i) /\ (~(k < i) => k + 1 # i)
        BY <1>0
      <3>2. p[k] = IF k < i THEN q[k] ELSE q[k + 1]
        BY Zenon DEF Less
      <3> HIDE DEF p
      <3> QED BY <1>0, <3>1, <3>2
    <2> HIDE DEF m
    <2>3. p = Less(q, n, i) /\ m = n - 1
      BY DEF m
    <2> HIDE DEF p
    <2> QED BY <2>1, <2>2, <2>3 DEF Leaves
  <1>2. CASE y = NULL /\ y # nx[q[i]]
    <2> DEFINE p == [k \in 1..(i - 1) |-> q[k]]
               m == i - 1
    <2>1. Linked(p, m, tm, mx)
      <3>1. /\ i = 1 => Linked(p, m, NULL, nx)
            /\ i # 1 => Linked(p, m, tl, [nx EXCEPT ![q[i - 1]] = NULL])
        BY LinkedCut, ZenonT(30)
      <3> HIDE DEF p, m
      <3> QED BY <1>2, <3>1, Zenon DEF Skips
    <2>2. ASSUME NEW k \in 1..m PROVE p[k] # q[i]
      <3>1. k \in 1..n /\ k # i
        BY <1>0
      <3>2. p[k] = q[k]
        BY ZenonT(30)
      <3> HIDE DEF p
      <3> QED BY <1>0, <3>1, <3>2
    <2> HIDE DEF m, p
    <2> QED BY <1>2, <2>1, <2>2 DEF Leaves
  <1> QED BY <1>1, <1>2 DEF Skips

(* The sums without the i-th request.                                      *)
LEMMA SumsWithout ==
    ASSUME RInv, NEW i \in 1..Len(Queue), timeout_diff' = timeout_diff,
           Queue' = Less(Queue, Len(Queue), i), Len(Queue') = Len(Queue) - 1
    PROVE  /\ Elapsing' = SumLess(Elapsing, Len(Queue), i, timeout_diff[Queue[i]])
           /\ Elapsing'[Len(Queue')] + timeout_diff[Queue[i]] = Elapsing[Len(Queue)]
           /\ timeout_diff[Queue[i]] \in Nat /\ Elapsing'[Len(Queue')] \in Int
  <1> DEFINE n == Len(Queue)
             q == Queue
             x == timeout_diff[q[i]]
             w == SumLess(Elapsing, n, i, x)
  <1>1. ListTypes /\ Linked(Queue, Len(Queue), tail, next)
    BY Facts, Zenon
  <1>2. /\ n \in Nat /\ Summed(Elapsing, q, n, timeout_diff)
        /\ Elapsing \in [0..n -> Nat]
        /\ \A k \in 1..n : timeout_diff[q[k]] \in Nat
    BY <1>1, ListFacts, Zenon
  <1> HIDE DEF n, q
  <1>3. i \in 1..n /\ Queue' = Less(q, n, i) /\ Len(Queue') = n - 1 /\ x \in Nat
    BY <1>2 DEF n, q
  <1>4. Summed(w, Less(q, n, i), n - 1, timeout_diff)
    BY <1>2, <1>3, SumWithout, ZenonT(30)
  <1>5. w[n - 1] = Elapsing[n] - x
    <2>1. CASE i = n
      <3>1. n - 1 \in 0..(n - 1) /\ n - 1 < i /\ n - 1 \in 0..n
        BY <1>2, <1>3, <2>1
      <3>2. w[n - 1] = Elapsing[n - 1]
        BY <3>1 DEF SumLess
      <3>3. Elapsing[n] = Elapsing[n - 1] + x
        BY <1>2, <1>3, <2>1 DEF Summed
      <3>4. Elapsing[n - 1] \in Nat
        BY <1>2, <3>1, SMTT(30)
      <3> QED BY <1>3, <3>2, <3>3, <3>4
    <2>2. CASE i # n
      <3>1. n - 1 \in 0..(n - 1) /\ ~(n - 1 < i) /\ (n - 1) + 1 = n
        BY <1>2, <1>3, <2>2
      <3>2. w[n - 1] = Elapsing[(n - 1) + 1] - x
        BY <3>1 DEF SumLess
      <3> QED BY <3>1, <3>2
    <2> QED BY <2>1, <2>2
  <1>6. Elapsing[n] \in Nat /\ n - 1 \in Nat
    BY <1>2, <1>3
  <1> HIDE DEF w, x
  <1>7. Elapsing' = w
    <2>1. Len(Queue') \in Nat /\ Summed(w, Queue', Len(Queue'), timeout_diff')
      BY <1>3, <1>4, <1>6, Zenon
    <2> QED BY <2>1, ElapsingAfter, Zenon
  <1>8. w[n - 1] + x = Elapsing[n] /\ w[n - 1] \in Int
    BY <1>3, <1>5, <1>6
  <1> QED BY <1>3, <1>7, <1>8 DEF n, q, x, w

(* A request of the list does not point at itself.                         *)
LEMMA NotFree ==
    ASSUME ListTypes, Linked(Queue, Len(Queue), tail, next), NEW i \in 1..Len(Queue)
    PROVE  next[Queue[i]] # Queue[i] /\ Queue[i] \in Slots /\ Queue[i] # NULL
  <1>1. /\ Len(Queue) \in Nat /\ Queue \in [1..Len(Queue) -> Slots]
        /\ \A a, b \in 1..Len(Queue) : Queue[a] = Queue[b] => a = b
        /\ next[Queue[i]] = IF i = Len(Queue) THEN NULL ELSE Queue[i + 1]
    BY ListFacts, Zenon
  <1>2. Queue[i] \in Slots
    BY <1>1
  <1>3. Queue[i] # NULL
    BY <1>2 DEF Slots, NULL
  <1>4. ASSUME NEW n \in Nat, i \in 1..n, i # n PROVE i + 1 \in 1..n /\ i + 1 # i
    BY <1>4
  <1>5. i # Len(Queue) => i + 1 \in 1..Len(Queue) /\ i + 1 # i
    BY <1>1, <1>4, Zenon
  <1> QED BY <1>1, <1>2, <1>3, <1>5

(* The list after mqtt_take_request has unchained the request it found.    *)
LEMMA Unchained ==
    ASSUME RInv, Unchain
    PROVE  \E i \in 1..Len(Queue) :
              /\ At(i)
              /\ Linked(Queue', Len(Queue'), tail', next')
              /\ \A k \in 1..Len(Queue') : Queue'[k] # Queue[i]
              /\ ~preempt =>
                    /\ Queue' = Less(Queue, Len(Queue), i)
                    /\ Len(Queue') = Len(Queue) - 1
                    /\ pkt_id[Queue[i]] = Sought
                    /\ \A j \in 1..(i - 1) : pkt_id[Queue[j]] # Sought
  <1>1. /\ tp = "unchain"
        /\ IF prev = NULL THEN tail' = loaded /\ next' = next
           ELSE next' = [next EXCEPT ![prev] = loaded] /\ tail' = tail
    BY DEF Unchain
  <1>2. /\ ListTypes /\ Linked(Queue, Len(Queue), tail, next) /\ Position
        /\ ~preempt => Undisturbed
    BY Facts, Zenon
  <1>3. PICK i \in 1..Len(Queue) :
           /\ At(i)
           /\ ~preempt => /\ pkt_id[iter] = Sought
                          /\ \A j \in 1..(i - 1) : pkt_id[Queue[j]] # Sought
    <2>1. CASE preempt
      BY <1>1, <1>2, <2>1, SMTT(30) DEF Position
    <2>2. CASE ~preempt
      BY <1>1, <1>2, <2>2 DEF Undisturbed
    <2> QED BY <2>1, <2>2
  <1>4. iter = Queue[i] /\ prev = IF i = 1 THEN NULL ELSE Queue[i - 1]
    BY <1>3, Zenon DEF At, Before
  <1>5. i # 1 => Queue[i - 1] # NULL
    <2> HAVE i # 1
    <2>1. i - 1 \in 1..Len(Queue)
      BY <1>2, ListFacts
    <2> QED BY <1>2, <2>1, NotFree, Zenon
  <1>6. IF i = 1 THEN tail' = loaded /\ next' = next
        ELSE tail' = tail /\ next' = [next EXCEPT ![Queue[i - 1]] = loaded]
    BY <1>1, <1>4, <1>5, Zenon
  <1>7. loaded \in {NULL, next[Queue[i]]} /\ (~preempt => loaded = next[Queue[i]])
    <2>1. loaded \in {NULL, next[iter]}
      BY <1>1, <1>2 DEF Position
    <2>2. ~preempt => loaded = next[iter]
      BY <1>1, <1>2 DEF Undisturbed
    <2> QED BY <1>4, <2>1, <2>2, ZenonT(30)
  <1>8. next \in [Slots -> 0..MaxReq]
    BY <1>2 DEF ListTypes
  <1>9. PICK p, m : /\ Linked(p, m, tail', next')
                    /\ \A k \in 1..m : p[k] # Queue[i]
                    /\ loaded = next[Queue[i]] =>
                          p = Less(Queue, Len(Queue), i) /\ m = Len(Queue) - 1
    <2>0. PICK tm, mx : tm = tail' /\ mx = next'
      OBVIOUS
    <2>1. PICK y : y = loaded
      OBVIOUS
    <2>2. /\ next \in [Slots -> 0..MaxReq] /\ Linked(Queue, Len(Queue), tail, next)
          /\ Skips(Queue, i, tail, next, y, tm, mx)
      BY <1>2, <1>6, <1>7, <1>8, <2>0, <2>1, ZenonT(30) DEF Skips
    <2>3. Leaves(Queue, Len(Queue), i, next, y, tm, mx)
      BY <2>2, TakenOff, Zenon
    <2> QED BY <2>0, <2>1, <2>3, Zenon DEF Leaves
  <1>10. Queue' = p /\ Len(Queue') = m /\ Linked(Queue', Len(Queue'), tail', next')
    BY <1>9, QueueAfter, ZenonT(30)
  <1> QED BY <1>3, <1>4, <1>7, <1>9, <1>10, ZenonT(30)

(* So does unchaining the request found.                                   *)
LEMMA UnchainStep ==
    ASSUME RInv, Unchain
    PROVE  Kept
  <1> DEFINE n == Len(Queue)
  <1>1. /\ UNCHANGED <<pkt_id, timeout_diff, iter, prev, loaded, t, now, again>>
        /\ tp = "unchain" /\ tp' = "pass" /\ halted' = halted
        /\ next' \in {next, [next EXCEPT ![prev] = loaded]}
    BY DEF Unchain, locals
  <1>2. /\ ListTypes /\ Linked(Queue, n, tail, next) /\ Position
        /\ ~preempt => ~halted /\ Undisturbed
    BY Facts, Zenon
  <1>3. PICK i \in 1..n :
              /\ At(i)
              /\ Linked(Queue', Len(Queue'), tail', next')
              /\ \A k \in 1..Len(Queue') : Queue'[k] # Queue[i]
              /\ ~preempt => Queue' = Less(Queue, n, i) /\ Len(Queue') = n - 1
    BY Unchained, Zenon
  <1>4. /\ n \in Nat /\ Queue \in [1..n -> Slots]
        /\ \A a, b \in 1..n : Queue[a] = Queue[b] => a = b
        /\ \A k \in 1..n : next[Queue[k]] = IF k = n THEN NULL ELSE Queue[k + 1]
    BY <1>2, ListFacts, Zenon
  <1>5. iter = Queue[i] /\ iter \in Slots /\ next[iter] # iter
    BY <1>2, <1>3, NotFree, Zenon DEF At
  <1> HIDE DEF n
  <1>6. (prev # iter /\ next[prev] # prev) \/ prev = NULL
    <2>1. CASE i = 1
      BY <1>3, <2>1 DEF At, Before
    <2>2. CASE i # 1
      <3>1. i - 1 \in 1..n /\ i - 1 # i
        BY <1>4, <2>2
      <3>2. prev = Queue[i - 1]
        BY <1>3, <2>2, Zenon DEF At, Before
      <3>3. next[Queue[i - 1]] # Queue[i - 1]
        BY <1>2, <3>1, NotFree, Zenon DEF n
      <3> QED BY <1>4, <1>5, <3>1, <3>2, <3>3, SMTT(30)
    <2> QED BY <2>1, <2>2
  <1>7. next \in [Slots -> 0..MaxReq] /\ loaded \in 0..MaxReq
    BY <1>2 DEF ListTypes
  <1>8. next' \in [Slots -> 0..MaxReq]
    BY <1>1, <1>7
  <1>9. ListTypes'
    BY <1>1, <1>2, <1>8 DEF ListTypes, Pcs
  <1>10. \A m \in Slots : m # prev => next'[m] = next[m]
    BY <1>1, <1>7
  <1>11. prev # iter /\ next'[iter] = next[iter]
    <2>1. iter # NULL
      BY <1>5 DEF Slots, NULL
    <2> QED BY <1>5, <1>6, <1>10, <2>1
  <1>12. Position'
    BY <1>1, <1>3, <1>5, <1>11 DEF Position
  <1>13. ASSUME ~preempt PROVE ~halted' /\ Undisturbed'
    <2>1. ~halted' /\ Undisturbed
      BY <1>1, <1>2, <1>13, Zenon
    <2>2. Queue' = Less(Queue, n, i) /\ Len(Queue') = n - 1
      BY <1>3, <1>13, Zenon
    <2>3. \A k \in 1..(n - 1) : Queue'[k] = IF k < i THEN Queue[k] ELSE Queue[k + 1]
      BY <2>2 DEF Less
    <2>4. ASSUME NEW m \in Slots
          PROVE  next'[m] = m \/ m = iter' \/ \E k \in 1..Len(Queue') : Queue'[k] = m
      <3>1. next[m] = m \/ \E k \in 1..n : Queue[k] = m
        BY <1>1, <2>1 DEF Undisturbed, Held, n
      <3>2. CASE next[m] = m
        <4>1. m # prev
          <5>1. m # NULL
            BY DEF Slots, NULL
          <5> QED BY <1>6, <3>2, <5>1
        <4> QED BY <1>10, <3>2, <4>1
      <3>3. ASSUME NEW k \in 1..n, Queue[k] = m
            PROVE  m = iter' \/ \E j \in 1..(n - 1) : Queue'[j] = m
        <4>1. CASE k < i
          <5>1. k \in 1..(n - 1)
            BY <1>4, <4>1
          <5>2. Queue'[k] = m
            BY <2>3, <3>3, <4>1, <5>1
          <5> QED BY <5>1, <5>2
        <4>2. CASE k = i
          BY <1>1, <1>5, <3>3, <4>2
        <4>3. CASE k > i
          <5>1. k - 1 \in 1..(n - 1) /\ ~(k - 1 < i) /\ (k - 1) + 1 = k
            BY <1>4, <4>3
          <5>2. Queue'[k - 1] = m
            BY <2>3, <3>3, <5>1
          <5> QED BY <5>1, <5>2
        <4> QED BY <1>4, <4>1, <4>2, <4>3
      <3> QED BY <2>2, <3>1, <3>2, <3>3, SMTT(30)
    <2>5. /\ i \in 1..(Len(Queue') + 1) /\ prev' = Before(i)'
          /\ next'[iter'] = IF i <= Len(Queue') THEN Queue'[i] ELSE NULL
      <3>1. (n - 1) + 1 = n /\ (i <= n - 1 <=> i # n) /\ (i # n => i \in 1..(n - 1))
            /\ ~(i < i) /\ (i # 1 => i - 1 \in 1..(n - 1) /\ i - 1 < i)
        BY <1>4
      <3>2. i # 1 => Queue'[i - 1] = Queue[i - 1]
        BY <2>3, <3>1
      <3>3. i # n => Queue'[i] = Queue[i + 1]
        BY <2>3, <3>1
      <3>4. prev' = Before(i)'
        BY <1>1, <1>3, <3>2 DEF At, Before
      <3>5. next'[iter'] = IF i = n THEN NULL ELSE Queue[i + 1]
        BY <1>1, <1>4, <1>5, <1>11
      <3>6. next'[iter'] = IF i <= n - 1 THEN Queue'[i] ELSE NULL
        BY <3>1, <3>3, <3>5
      <3> QED BY <2>2, <3>1, <3>4, <3>6
    <2>6. Elapsing'[Len(Queue')] + timeout_diff'[iter'] <= ReqTimeout
      <3>1. Elapsing'[Len(Queue')] + timeout_diff[Queue[i]] = Elapsing[n]
        BY <1>1, <2>2, SumsWithout, Zenon DEF n
      <3>2. Elapsing[n] <= ReqTimeout
        BY <1>13, SumInBound, SMTT(30) DEF n
      <3> QED BY <1>1, <1>5, <3>1, <3>2
    <2>7. Undisturbed'
      BY <1>1, <2>1, <2>4, <2>5, <2>6 DEF Undisturbed, Held
    <2> QED BY <2>1, <2>7
  <1> QED BY <1>3, <1>9, <1>12, <1>13 DEF Kept, Sound

(* The list after mqtt_request_time_elapsed has dropped the oldest request.*)
LEMMA Expired ==
    ASSUME RInv, ExpireOldest
    PROVE  /\ 1 \in 1..Len(Queue) /\ iter = Queue[1]
           /\ Linked(Queue', Len(Queue'), tail', next')
           /\ ~preempt => /\ Queue' = Less(Queue, Len(Queue), 1)
                          /\ Len(Queue') = Len(Queue) - 1
  <1>1. /\ tp = "expire" /\ tail' = loaded /\ next' = [next EXCEPT ![iter] = iter]
    BY DEF ExpireOldest
  <1>2. /\ ListTypes /\ Linked(Queue, Len(Queue), tail, next) /\ Position
        /\ ~preempt => Undisturbed
    BY Facts, Zenon
  <1>3. Len(Queue) > 0 /\ iter = Queue[1]
    BY <1>1, <1>2 DEF Position
  <1>4. 1 \in 1..Len(Queue)
    <2>1. Len(Queue) \in Nat
      BY <1>2, ListFacts, Zenon
    <2> QED BY <1>3, <2>1
  <1>5. loaded \in {NULL, next[Queue[1]]} /\ (~preempt => loaded = next[Queue[1]])
    <2>1. loaded \in {NULL, next[iter]}
      BY <1>1, <1>2, SMTT(30) DEF Position
    <2>2. ~preempt => loaded = next[iter]
      BY <1>1, <1>2 DEF Undisturbed
    <2> QED BY <1>3, <2>1, <2>2, Zenon
  <1>6. next \in [Slots -> 0..MaxReq]
    BY <1>2 DEF ListTypes
  <1>7. PICK i, y : i = 1 /\ y = loaded
    OBVIOUS
  <1>8. Skips(Queue, i, tail, next, y, y, next) /\ i \in 1..Len(Queue)
    BY <1>4, <1>5, <1>7, ZenonT(30) DEF Skips
  <1>9. Leaves(Queue, Len(Queue), i, next, y, y, next)
    BY <1>2, <1>6, <1>8, TakenOff, Zenon
  <1>10. PICK p, m : /\ Linked(p, m, y, next)
                     /\ \A k \in 1..m : p[k] # Queue[i]
                     /\ y = next[Queue[i]] =>
                           p = Less(Queue, Len(Queue), i) /\ m = Len(Queue) - 1
    BY <1>9, Zenon DEF Leaves
  <1>11. Linked(p, m, y, [next EXCEPT ![Queue[i]] = iter])
    BY <1>6, <1>10, LinkedOff, Zenon
  <1>12. Linked(p, m, tail', next')
    BY <1>1, <1>3, <1>7, <1>11, Zenon
  <1>13. Queue' = p /\ Len(Queue') = m /\ Linked(Queue', Len(Queue'), tail', next')
    BY <1>12, QueueAfter, Zenon
  <1> QED BY <1>3, <1>4, <1>5, <1>7, <1>10, <1>13, ZenonT(30)

(* And dropping the oldest request.                                        *)
LEMMA ExpireStep ==
    ASSUME RInv, ExpireOldest
    PROVE  Kept
  <1> DEFINE n == Len(Queue)
  <1>1. /\ UNCHANGED <<pkt_id, timeout_diff, prev, t, now>>
        /\ tp = "expire" /\ tp' = "elapsed" /\ halted' = halted
        /\ next' = [next EXCEPT ![iter] = iter] /\ iter' = NULL /\ loaded' = NULL
    BY DEF ExpireOldest
  <1>2. /\ ListTypes /\ Linked(Queue, n, tail, next)
        /\ ~preempt => ~halted /\ Undisturbed
    BY Facts, Zenon
  <1>3. /\ 1 \in 1..n /\ iter = Queue[1]
        /\ Linked(Queue', Len(Queue'), tail', next')
        /\ ~preempt => Queue' = Less(Queue, n, 1) /\ Len(Queue') = n - 1
    BY Expired, Zenon
  <1>4. n \in Nat /\ Queue \in [1..n -> Slots]
    BY <1>2, ListFacts, ZenonT(30)
  <1> HIDE DEF n
  <1>5. iter \in Slots /\ next \in [Slots -> 0..MaxReq]
    BY <1>2, <1>3, <1>4 DEF ListTypes
  <1>6. iter \in 0..MaxReq /\ NULL \in 0..MaxReq
    BY <1>5, RequestsAssumption DEF Slots, NULL
  <1>7. next' \in [Slots -> 0..MaxReq]
    BY <1>1, <1>5, <1>6
  <1>8. ListTypes'
    BY <1>1, <1>2, <1>6, <1>7 DEF ListTypes, Pcs
  <1>9. Position'
    BY <1>1 DEF Position
  <1>10. ASSUME ~preempt PROVE ~halted' /\ Undisturbed'
    <2>1. ~halted' /\ Undisturbed
      BY <1>1, <1>2, <1>10, Zenon
    <2>2. Queue' = Less(Queue, n, 1) /\ Len(Queue') = n - 1
      BY <1>3, <1>10, Zenon
    <2>3. \A k \in 1..(n - 1) : Queue'[k] = IF k < 1 THEN Queue[k] ELSE Queue[k + 1]
      BY <2>2 DEF Less
    <2>4. ASSUME NEW m \in Slots
          PROVE  next'[m] = m \/ \E k \in 1..Len(Queue') : Queue'[k] = m
      <3>1. next[m] = m \/ \E k \in 1..n : Queue[k] = m
        BY <1>1, <2>1 DEF Undisturbed, Held, n
      <3>2. ASSUME NEW k \in 1..n, Queue[k] = m
            PROVE  m = iter \/ \E j \in 1..(n - 1) : Queue'[j] = m
        <4>1. CASE k = 1
          BY <1>3, <3>2, <4>1
        <4>2. CASE k # 1
          <5>1. k - 1 \in 1..(n - 1) /\ ~(k - 1 < 1) /\ (k - 1) + 1 = k
            BY <1>4, <4>2
          <5>2. Queue'[k - 1] = m
            BY <2>3, <3>2, <5>1
          <5> QED BY <5>1, <5>2
        <4> QED BY <4>1, <4>2
      <3> QED BY <1>1, <1>5, <2>2, <3>1, <3>2, SMTT(30)
    <2>5. Elapsing'[Len(Queue')] + 0 <= ReqTimeout
      <3>1. /\ Elapsing'[Len(Queue')] + timeout_diff[Queue[1]] = Elapsing[n]
            /\ timeout_diff[Queue[1]] \in Nat /\ Elapsing'[Len(Queue')] \in Int
        BY <1>1, <1>3, <2>2, SumsWithout, Zenon DEF n
      <3>2. Elapsing[n] <= ReqTimeout
        BY <1>10, SumInBound DEF n
      <3> QED BY <3>1, <3>2, RequestsAssumption
    <2>6. Undisturbed'
      BY <1>1, <2>1, <2>4, <2>5 DEF Undisturbed, Held
    <2> QED BY <2>1, <2>6
  <1> QED BY <1>3, <1>8, <1>9, <1>10 DEF Kept, Sound

-----------------------------------------------------------------------------
(* RInv holds at the start.                                                *)
LEMMA RInvInit ==
    ASSUME Init
    PROVE  RInv
  <1>1. Linked(<<>>, 0, tail, next)
    BY RequestsAssumption DEF Linked, Init
  <1>2. Queue = <<>> /\ Len(Queue) = 0 /\ Linked(Queue, Len(Queue), tail, next)
    BY <1>1, QueueNow, Zenon
  <1>3. ListTypes
    <2>1. next \in [Slots -> 0..MaxReq]
      BY RequestsAssumption DEF Slots, Init
    <2>2. pkt_id \in [Slots -> Ids] /\ timeout_diff \in [Slots -> 0..MaxDiff]
      BY RequestsAssumption DEF Ids, Init
    <2>3. NULL \in 0..MaxReq
      BY RequestsAssumption DEF NULL
    <2> QED BY <2>1, <2>2, <2>3 DEF ListTypes, Pcs, Init
  <1>4. Position
    BY DEF Position, Init
  <1>5. Elapsing[0] = 0
    BY <1>2, <1>3, ListFacts DEF Summed
  <1>6. Undisturbed
    <2>1. Elapsing[Len(Queue)] + 0 <= ReqTimeout
      BY <1>2, <1>5, RequestsAssumption
    <2> QED BY <2>1 DEF Undisturbed, Init
  <1>7. ~halted
    BY Zenon DEF Init
  <1> QED BY <1>2, <1>3, <1>4, <1>6, <1>7 DEF RInv, Sound

(* And every step keeps it.                                                *)
LEMMA RInvKept ==
    ASSUME RInv, [Next]_vars
    PROVE  RInv'
  <1>1. CASE Next
    <2>1. preempt' = preempt
      BY <1>1, Zenon DEF Next
    <2>2. Kept => RInv'
      BY <2>1, Zenon DEF Kept, RInv
    <2>3. CASE \E id \in Ids, fits \in BOOLEAN : Request(id, fits)
      BY <2>2, <2>3, RequestStep, Zenon
    <2>4. CASE Reconnect
      BY <2>2, <2>4, ReconnectStep, Zenon
    <2>5. CASE Tcpip
      <3>1. CASE \E id \in Ids : StartTake(id)
        BY <2>2, <3>1, StartTakeStep, Zenon
      <3>2. CASE Search
        BY <2>2, <3>2, SearchStep, Zenon
      <3>3. CASE Load
        BY <2>2, <3>3, LoadStep, Zenon
      <3>4. CASE Unchain
        BY <2>2, <3>4, UnchainStep, Zenon
      <3>5. CASE PassTimeout
        BY <2>2, <3>5, PassTimeoutStep, Zenon
      <3>6. CASE Delete
        BY <2>2, <3>6, DeleteStep, Zenon
      <3>7. CASE StartElapsed
        BY <2>2, <3>7, StartElapsedStep, Zenon
      <3>8. CASE Elapsed
        BY <2>2, <3>8, ElapsedStep, Zenon
      <3>9. CASE ExpireOldest
        BY <2>2, <3>9, ExpireStep, Zenon
      <3>10. CASE mqtt_clear_requests
        BY <2>2, <3>10, ClearStep, Zenon
      <3> QED BY <2>5, <3>1, <3>2, <3>3, <3>4, <3>5, <3>6, <3>7, <3>8, <3>9, <3>10, ZenonT(30)
              DEF Tcpip
    <2>6. CASE UNCHANGED vars
      <3>1. Queue' = Queue /\ Elapsing' = Elapsing
        BY <2>6, SameList, Zenon DEF vars, list
      <3> QED BY <2>6, <3>1, ZenonT(30) DEF vars, list, locals, RInv, ListTypes, Sound,
              Position, Undisturbed, Held, Sought, At, Before
    <2> QED BY <1>1, <2>3, <2>4, <2>5, <2>6, Zenon DEF Next, Halted
  <1>2. CASE UNCHANGED vars
    <2>1. Queue' = Queue /\ Elapsing' = Elapsing
      BY <1>2, SameList, Zenon DEF vars, list
    <2> QED BY <1>2, <2>1, Zenon DEF vars, list, locals, RInv, ListTypes, Sound,
            Position, Undisturbed, Held, Sought, At, Before
  <1> QED BY <1>1, <1>2

(* RInv is an invariant.                                                   *)
THEOREM RequestsInvariant == Spec => []RInv
  BY RInvInit, RInvKept, PTL DEF Spec

(* Wherever the comm thread's appends fall between the pointer operations  *)
(* of the tcpip thread, every walk of the list ends and never meets a free *)
(* slot, for any number of slots.                                          *)
THEOREM RequestsListSound == Spec => []ListIsSound
  <1>1. ASSUME RInv PROVE ListIsSound
    <2>1. /\ ListTypes /\ Linked(Queue, Len(Queue), tail, next)
          /\ DOMAIN Queue = 1..Len(Queue)
      BY <1>1, Facts, Zenon
    <2>2. Walk = [k \in 1..(MaxReq + 1) |-> IF k <= Len(Queue) THEN Queue[k] ELSE NULL]
      <3>1. Walk = WalkOf(tail, next)
        BY Zenon DEF Walk, WalkOf
      <3>2. WalkOf(tail, next) =
              [k \in 1..(MaxReq + 1) |-> IF k <= Len(Queue) THEN Queue[k] ELSE NULL]
        BY <2>1, WalkIs
      <3> QED BY <3>1, <3>2, Zenon
    <2>3. Len(Queue) \in 0..MaxReq /\ MaxReq \in Nat
      BY <2>1, ListFacts, Zenon
    <2>4. MaxReq + 1 \in 1..(MaxReq + 1) /\ ~(MaxReq + 1 <= Len(Queue))
      BY <2>3
    <2>5. Walk[MaxReq + 1] = NULL
      BY <2>2, <2>4, Zenon
    <2>6. \A k \in DOMAIN Queue : Queue[k] \notin Free
      BY <2>1, NotFree, Zenon DEF Free
    <2> QED BY <2>5, <2>6 DEF ListIsSound
  <1> QED BY <1>1, RequestsInvariant, PTL

(* The assertion of mqtt_append_request holds as long as no request is     *)
(* made inside a list operation: the differences on the list never add up  *)
(* to more than the timeout.                                               *)
THEOREM RequestsTimeBound == Spec => []TimeBeforeInBound
  <1>1. ASSUME RInv PROVE TimeBeforeInBound
    BY <1>1, Zenon DEF RInv, TimeBeforeInBound
  <1> QED BY <1>1, RequestsInvariant, PTL

(* Nor is a slot lost then: each is free or on the list whenever the tcpip *)
(* thread is between two takes or expiries.                                *)
THEOREM RequestsNoSlotLost == Spec => []NoSlotLost
  <1>1. ASSUME RInv PROVE NoSlotLost
    <2> SUFFICES ASSUME ~preempt, tp \in {"idle", "search", "elapsed"}
                 PROVE  Slots = Free \cup {Queue[k] : k \in DOMAIN Queue}
      BY DEF NoSlotLost
    <2>1. /\ ListTypes /\ Linked(Queue, Len(Queue), tail, next) /\ Undisturbed
          /\ DOMAIN Queue = 1..Len(Queue)
      BY <1>1, Facts, Zenon
    <2>2. Held = {}
      BY DEF Held
    <2>3. \A m \in Slots : next[m] = m \/ \E k \in 1..Len(Queue) : Queue[k] = m
      BY <2>1, <2>2 DEF Undisturbed
    <2>4. \A k \in 1..Len(Queue) : Queue[k] \in Slots
      BY <2>1, NotFree, Zenon
    <2> QED BY <2>1, <2>3, <2>4, Zenon DEF Free
  <1> QED BY <1>1, RequestsInvariant, PTL

-----------------------------------------------------------------------------
(* The refinement.                                                         *)

(* The parts of the mapping, one by one.                                   *)
Ahead == IF prev = NULL THEN 0 ELSE CHOOSE k \in DOMAIN Queue : Queue[k] = prev
Carried(k) == CASE tp = "pass" /\ k > Ahead -> timeout_diff[iter]
                [] tp = "expire" -> -timeout_diff[iter]
                [] OTHER -> 0
Deadline(k) == now - t + Elapsing[k] + Carried(k)
Entry(k) == [id |-> pkt_id[Queue[k]], deadline |-> Deadline(k)]

(* They make up the mapping.                                               *)
LEMMA PendingIs ==
    Pending = [k \in 1..Len(Queue) |-> Entry(k)]
  BY Zenon DEF Pending, Entry, Deadline, Carried, Ahead

(* After a step as well.                                                   *)
LEMMA PendingAfter ==
    Pending' = [k \in 1..Len(Queue') |-> Entry(k)']
  BY Zenon DEF Pending, Entry, Deadline, Carried, Ahead

(* The time a request still carries.                                       *)
LEMMA CarriedNone ==
    ASSUME tp \notin {"pass", "expire"}, NEW k
    PROVE  Carried(k) = 0
  BY DEF Carried

(* The same after a step.                                                  *)
LEMMA CarriedNoneAfter ==
    ASSUME tp' \notin {"pass", "expire"}, NEW k
    PROVE  Carried(k)' = 0
  BY DEF Carried

(* The number of requests in front of the one taken, which stood behind p. *)
AheadOf(q, p) == IF p = NULL THEN 0 ELSE CHOOSE k \in DOMAIN q : q[k] = p
Behind(q, i) == IF i = 1 THEN NULL ELSE q[i - 1]

(* There are i - 1 in front of the i-th.                                   *)
LEMMA AheadIs ==
    ASSUME NEW n \in Nat, NEW q \in [1..n -> Slots], NEW i \in 1..(n + 1),
           \A a, b \in 1..n : q[a] = q[b] => a = b
    PROVE  AheadOf(q, Behind(q, i)) = i - 1
  <1> DEFINE p == Behind(q, i)
  <1>1. CASE i = 1
    BY <1>1 DEF AheadOf, Behind
  <1>2. CASE i # 1
    <2>1. i - 1 \in 1..n
      BY <1>2
    <2>2. p = q[i - 1] /\ DOMAIN q = 1..n
      BY <1>2 DEF Behind
    <2> HIDE DEF p
    <2>3. p # NULL
      BY <2>1, <2>2 DEF Slots, NULL
    <2>4. (CHOOSE a \in DOMAIN q : q[a] = p) = i - 1
      BY <2>1, <2>2, Zenon
    <2>5. AheadOf(q, p) = i - 1
      BY <2>3, <2>4, Zenon DEF AheadOf
    <2> QED BY <2>5 DEF p
  <1> QED BY <1>1, <1>2

(* In the middle of a take the requests behind the one taken carry its     *)
(* time.                                                                   *)
LEMMA CarriedPass ==
    ASSUME ListTypes, Linked(Queue, Len(Queue), tail, next), tp = "pass",
           NEW i \in 1..(Len(Queue) + 1), prev = Before(i), NEW k \in 1..Len(Queue)
    PROVE  Carried(k) = IF k < i THEN 0 ELSE timeout_diff[iter]
  <1>1. /\ Len(Queue) \in Nat /\ Queue \in [1..Len(Queue) -> Slots]
        /\ \A a, b \in 1..Len(Queue) : Queue[a] = Queue[b] => a = b
    BY ListFacts, Zenon
  <1>2. prev = Behind(Queue, i)
    BY Zenon DEF Before, Behind
  <1>3. AheadOf(Queue, Behind(Queue, i)) = i - 1
    BY <1>1, AheadIs, Zenon
  <1>4. Ahead = i - 1
    BY <1>2, <1>3, Zenon DEF Ahead, AheadOf
  <1>5. k > i - 1 <=> ~(k < i)
    OBVIOUS
  <1> QED BY <1>4, <1>5 DEF Carried

(* The same after a step.                                                  *)
LEMMA CarriedPassAfter ==
    ASSUME ListTypes', Linked(Queue', Len(Queue'), tail', next'), tp' = "pass",
           NEW i \in 1..(Len(Queue') + 1), prev' = Before(i)', NEW k \in 1..Len(Queue')
    PROVE  Carried(k)' = IF k < i THEN 0 ELSE timeout_diff'[iter']
  <1>1. /\ Len(Queue') \in Nat /\ Queue' \in [1..Len(Queue') -> Slots]
        /\ \A a, b \in 1..Len(Queue') : Queue'[a] = Queue'[b] => a = b
    <2>1. /\ Len(Queue') \in 0..MaxReq /\ Queue' \in [1..Len(Queue') -> Slots]
          /\ \A a, b \in 1..Len(Queue') : Queue'[a] = Queue'[b] => a = b
      BY Zenon DEF Linked
    <2> QED BY <2>1, RequestsAssumption
  <1>2. prev' = Behind(Queue', i)
    BY Zenon DEF Before, Behind
  <1>3. AheadOf(Queue', Behind(Queue', i)) = i - 1
    BY <1>1, AheadIs, Zenon
  <1>4. Ahead' = i - 1
    BY <1>2, <1>3, Zenon DEF Ahead, AheadOf
  <1>5. k > i - 1 <=> ~(k < i)
    OBVIOUS
  <1> QED BY <1>4, <1>5 DEF Carried

(* The pending requests stay as they are.                                  *)
LEMMA SamePending ==
    ASSUME Queue' = Queue, Len(Queue') = Len(Queue),
           \A k \in 1..Len(Queue) : /\ pkt_id'[Queue[k]] = pkt_id[Queue[k]]
                                    /\ Deadline(k)' = Deadline(k)
    PROVE  Pending' = Pending
  <1>1. \A k \in 1..Len(Queue) : Entry(k)' = Entry(k)
    BY DEF Entry
  <1>2. /\ Pending = [k \in 1..Len(Queue) |-> Entry(k)]
        /\ Pending' = [k \in 1..Len(Queue) |-> Entry(k)']
    BY PendingIs, PendingAfter
  <1> QED BY <1>1, <1>2

(* A deadline, with its parts.                                             *)
LEMMA Deadlines ==
    ASSUME RInv, NEW k \in 1..Len(Queue)
    PROVE  /\ Elapsing[k] \in Nat /\ now \in Nat /\ t \in Nat
           /\ timeout_diff[Queue[k]] \in Nat /\ Queue[k] \in Slots
  <1>1. ListTypes /\ Linked(Queue, Len(Queue), tail, next)
    BY Facts, Zenon
  <1>2. /\ Elapsing \in [0..Len(Queue) -> Nat] /\ Len(Queue) \in Nat
        /\ timeout_diff[Queue[k]] \in Nat /\ Queue \in [1..Len(Queue) -> Slots]
    BY <1>1, ListFacts, Zenon
  <1>3. now \in Nat /\ t \in Nat
    BY <1>1 DEF ListTypes
  <1> QED BY <1>2, <1>3

-----------------------------------------------------------------------------
(* What each step does to the pending requests.                            *)

(* Starting a take, searching, loading and freeing do nothing to them.     *)
LEMMA QuietMaps ==
    ASSUME RInv, (\E id \in Ids : StartTake(id)) \/ Search \/ Load \/ Delete
    PROVE  Pending' = Pending /\ now' = now
  <1>1. /\ UNCHANGED <<pkt_id, now, t>> /\ tp \notin {"pass", "expire"}
        /\ tp' \notin {"pass", "expire"}
    BY DEF StartTake, Search, Load, Delete, list
  <1>2. Queue' = Queue /\ Len(Queue') = Len(Queue) /\ Elapsing' = Elapsing
    <2>1. CASE Delete
      BY <2>1, DeleteStep, Zenon
    <2>2. CASE ~Delete
      <3>1. UNCHANGED <<next, tail, timeout_diff>>
        BY <2>2 DEF StartTake, Search, Load, list
      <3> QED BY <3>1, SameList, ZenonT(30)
    <2> QED BY <2>1, <2>2
  <1>3. \A k \in 1..Len(Queue) : Deadline(k)' = Deadline(k)
    BY <1>1, <1>2, CarriedNone, CarriedNoneAfter DEF Deadline
  <1> QED BY <1>1, <1>2, <1>3, SamePending, SMTT(30)

(* Passing the time on is what the mapping has already done.               *)
LEMMA PassMaps ==
    ASSUME RInv, ~preempt, PassTimeout
    PROVE  Pending' = Pending /\ now' = now
  <1>1. /\ UNCHANGED <<pkt_id, now, t>> /\ tp = "pass"
        /\ tp' \notin {"pass", "expire"}
    BY DEF PassTimeout, locals
  <1>2. ListTypes /\ Linked(Queue, Len(Queue), tail, next)
    BY Facts, Zenon
  <1>3. Queue' = Queue /\ Len(Queue') = Len(Queue) /\ iter \in Slots
    BY Unlinked, Zenon
  <1>4. PICK i \in 1..(Len(Queue) + 1) :
              /\ prev = Before(i)
              /\ \A k \in 0..Len(Queue) :
                    Elapsing'[k] = IF k < i THEN Elapsing[k]
                                   ELSE Elapsing[k] + timeout_diff[iter]
    BY PassedOn, Zenon
  <1>5. ASSUME NEW k \in 1..Len(Queue) PROVE Deadline(k)' = Deadline(k)
    <2>1. Carried(k) = IF k < i THEN 0 ELSE timeout_diff[iter]
      BY <1>1, <1>2, <1>4, CarriedPass, Zenon
    <2>2. Carried(k)' = 0
      BY <1>1, CarriedNoneAfter
    <2>3. Elapsing[k] \in Nat /\ now \in Nat /\ t \in Nat
      BY Deadlines, Zenon
    <2>4. timeout_diff[iter] \in Nat
      BY <1>2, <1>3, RequestsAssumption DEF ListTypes
    <2>5. k \in 0..Len(Queue)
      OBVIOUS
    <2>6. Elapsing'[k] = IF k < i THEN Elapsing[k] ELSE Elapsing[k] + timeout_diff[iter]
      BY <1>4, <2>5, Zenon
    <2>7. now' - t' + Elapsing'[k] + 0 = now - t + Elapsing[k] + Carried(k)
      <3>1. CASE k < i
        BY <1>1, <2>1, <2>3, <2>6, <3>1
      <3>2. CASE ~(k < i)
        BY <1>1, <2>1, <2>3, <2>4, <2>6, <3>2
      <3> QED BY <3>1, <3>2
    <2> QED BY <2>2, <2>7 DEF Deadline
  <1> QED BY <1>1, <1>3, <1>5, SamePending, SMTT(30)

(* Nor does the time paid before an expiry change a deadline, nor the time *)
(* taken off the oldest request.                                           *)
LEMMA ElapsedMaps ==
    ASSUME RInv, Elapsed
    PROVE  Pending' = Pending /\ now' = now
  <1>1. /\ UNCHANGED <<next, tail, pkt_id, now>> /\ tp = "elapsed"
    BY DEF Elapsed
  <1>2. ListTypes /\ Linked(Queue, Len(Queue), tail, next)
    BY Facts, Zenon
  <1>3. Len(Queue) \in Nat /\ tail = IF Len(Queue) = 0 THEN NULL ELSE Queue[1]
    BY <1>2, ListFacts, Zenon
  <1>4. \A k \in 1..Len(Queue) : Carried(k) = 0
    BY <1>1, CarriedNone
  <1>5. CASE /\ tail # NULL
             /\ iter' = tail /\ t' = t - timeout_diff[tail] /\ tp' = "expire"
             /\ UNCHANGED timeout_diff
    <2>1. Queue' = Queue /\ Len(Queue') = Len(Queue) /\ Elapsing' = Elapsing
      BY <1>1, <1>5, SameList, ZenonT(30)
    <2>2. 1 \in 1..Len(Queue) /\ tail = Queue[1]
      BY <1>3, <1>5
    <2>3. timeout_diff[tail] \in Nat
      BY <2>2, Deadlines, Zenon
    <2>4. ASSUME NEW k \in 1..Len(Queue) PROVE Deadline(k)' = Deadline(k)
      <3>1. Elapsing[k] \in Nat /\ now \in Nat /\ t \in Nat
        BY Deadlines, Zenon
      <3>2. Carried(k)' = -timeout_diff[tail]
        BY <1>5 DEF Carried
      <3>3. now' - t' + Elapsing'[k] + (-timeout_diff[tail]) = now - t + Elapsing[k] + 0
        <4>1. PICK d \in Nat, e \in Nat : d = timeout_diff[tail] /\ e = Elapsing[k]
          BY <2>3, <3>1, Zenon
        <4>2. now - (t - d) + e + (-d) = now - t + e + 0
          BY <3>1
        <4> QED BY <1>1, <1>5, <2>1, <4>1, <4>2, ZenonT(30)
      <3> QED BY <1>4, <3>2, <3>3 DEF Deadline
    <2> QED BY <1>1, <2>1, <2>4, SamePending
  <1>6. CASE /\ tail # NULL /\ t < timeout_diff[tail]
             /\ timeout_diff' = [timeout_diff EXCEPT ![tail] = @ - t]
             /\ t' = 0 /\ tp' = "idle"
    <2>1. /\ Queue' = Queue /\ Len(Queue') = Len(Queue)
          /\ \A k \in 1..Len(Queue) : Elapsing'[k] = Elapsing[k] - t
      BY <1>1, <1>6, Nearer, ZenonT(30)
    <2>2. ASSUME NEW k \in 1..Len(Queue) PROVE Deadline(k)' = Deadline(k)
      <3>1. Elapsing[k] \in Nat /\ now \in Nat /\ t \in Nat
        BY Deadlines, Zenon
      <3>2. Carried(k)' = 0
        BY <1>6, CarriedNoneAfter
      <3>3. now' - t' + Elapsing'[k] + 0 = now - t + Elapsing[k] + 0
        BY <1>1, <1>6, <2>1, <3>1
      <3> QED BY <1>4, <3>2, <3>3 DEF Deadline
    <2> QED BY <1>1, <2>1, <2>2, SamePending
  <1>7. CASE /\ t = 0 \/ tail = NULL
             /\ t' = 0 /\ tp' = "idle" /\ UNCHANGED timeout_diff
    <2>1. Queue' = Queue /\ Len(Queue') = Len(Queue) /\ Elapsing' = Elapsing
      BY <1>1, <1>7, SameList, ZenonT(30)
    <2>2. ASSUME NEW k \in 1..Len(Queue) PROVE Deadline(k)' = Deadline(k)
      <3>1. tail # NULL
        <4>1. 1 \in 1..Len(Queue) /\ Len(Queue) # 0
          BY <1>3
        <4>2. Queue[1] # NULL
          BY <1>2, <4>1, NotFree, Zenon
        <4> QED BY <1>3, <4>1, <4>2
      <3>2. Carried(k)' = 0
        BY <1>7, CarriedNoneAfter
      <3> QED BY <1>1, <1>4, <1>7, <2>1, <3>1, <3>2 DEF Deadline
    <2> QED BY <1>1, <2>1, <2>2, SamePending
  <1> QED BY <1>5, <1>6, <1>7, ZenonT(30) DEF Elapsed

(* A run of the cyclic timer: no request is overdue when it comes.         *)
LEMMA TickMaps ==
    ASSUME RInv, ~preempt, StartElapsed
    PROVE  /\ Pending' = Pending /\ now' = now + 1 /\ now < MaxNow
           /\ \A k \in 1..Len(Queue) : Deadline(k) >= now
  <1>1. /\ UNCHANGED <<next, tail, timeout_diff, pkt_id>> /\ tp = "idle"
        /\ tp' = "elapsed" /\ t' = 1 /\ now' = now + 1 /\ now < MaxNow
    BY DEF StartElapsed, list
  <1>2. Queue' = Queue /\ Len(Queue') = Len(Queue) /\ Elapsing' = Elapsing
    BY <1>1, SameList, ZenonT(30)
  <1>3. t = 0
    BY <1>1, Facts DEF Undisturbed
  <1>4. ASSUME NEW k \in 1..Len(Queue)
        PROVE  Deadline(k)' = Deadline(k) /\ Deadline(k) >= now
    <2>1. Elapsing[k] \in Nat /\ now \in Nat
      BY Deadlines, Zenon
    <2>2. Carried(k) = 0 /\ Carried(k)' = 0
      BY <1>1, CarriedNone, CarriedNoneAfter
    <2>3. now' - t' + Elapsing'[k] + 0 = now - t + Elapsing[k] + 0
      BY <1>1, <1>2, <1>3, <2>1
    <2>4. now - t + Elapsing[k] + 0 >= now
      BY <1>3, <2>1
    <2> QED BY <2>2, <2>3, <2>4 DEF Deadline
  <1> QED BY <1>1, <1>2, <1>4, SamePending, SMTT(30)

(* A request made is the last pending one, with the full timeout.          *)
LEMMA RequestMaps ==
    ASSUME RInv, ~preempt, NEW id \in Ids, NEW fits \in BOOLEAN, Request(id, fits)
    PROVE  /\ now' = now
           /\ \/ Pending' = Pending
              \/ /\ Len(Queue) < MaxReq
                 /\ Pending' = With(Pending, Len(Queue),
                                    [id |-> id, deadline |-> now + ReqTimeout])
  <1> DEFINE r == mqtt_create_request
             n == Len(Queue)
  <1>0. ListTypes /\ Linked(Queue, n, tail, next) /\ Undisturbed
    BY Facts, ZenonT(30)
  <1>1. r \in Slots /\ next[r] = r
    BY FirstFree DEF Request
  <1>2. n < MaxReq /\ \A k \in 1..n : Queue[k] # r
    BY <1>0, <1>1, RoomForFree, Zenon
  <1>3. /\ UNCHANGED <<t, tp, now>> /\ tp = "idle"
        /\ pkt_id' = [pkt_id EXCEPT ![r] = id]
    BY Zenon DEF Request, locals
  <1>4. \A k : Carried(k) = 0 /\ Carried(k)' = 0
    BY <1>3, CarriedNone, CarriedNoneAfter
  <1>5. n \in Nat /\ Queue \in [1..n -> Slots]
    BY <1>0, ListFacts, ZenonT(30)
  <1>6. pkt_id \in [Slots -> Ids] /\ t = 0 /\ now \in Nat
    BY <1>0, <1>3, SMTT(30) DEF ListTypes, Undisturbed
  <1> HIDE DEF r
  <1>7. pkt_id'[r] = id /\ \A k \in 1..n : pkt_id'[Queue[k]] = pkt_id[Queue[k]]
    BY <1>1, <1>2, <1>3, <1>5, <1>6, SMTT(30)
  <1>8. CASE UNCHANGED <<next, timeout_diff, tail>>
    <2>1. Queue' = Queue /\ Len(Queue') = Len(Queue) /\ Elapsing' = Elapsing
      BY <1>8, SameList, ZenonT(30)
    <2>2. \A k \in 1..n : Deadline(k)' = Deadline(k)
      BY <1>3, <1>4, <2>1 DEF Deadline
    <2>3. Pending' = Pending
      BY <1>7, <2>1, <2>2, SamePending, SMTT(30)
    <2> QED BY <1>3, <2>3
  <1>9. CASE ~UNCHANGED <<next, timeout_diff, tail>>
    <2>0. /\ time_before <= ReqTimeout /\ LinkLast(r)
          /\ timeout_diff' = [timeout_diff EXCEPT ![r] = ReqTimeout - time_before]
      BY <1>9, Zenon DEF Request, mqtt_append_request, r
    <2>1. /\ Len(Queue') = n + 1 /\ Queue'[n + 1] = r
          /\ \A k \in 1..n : Queue'[k] = Queue[k]
          /\ Elapsing'[n + 1] = ReqTimeout
          /\ \A k \in 0..n : Elapsing'[k] = Elapsing[k]
      BY <1>0, <1>1, <2>0, Appended, ZenonT(30)
    <2>2. PICK m : m = n + 1
      OBVIOUS
    <2>3. \A k \in 1..n : Entry(k)' = Entry(k)
      <3>1. \A k \in 1..n : k \in 0..n
        OBVIOUS
      <3>2. \A k \in 1..n : Deadline(k)' = Deadline(k)
        BY <1>3, <1>4, <2>1, <3>1, SMTT(30) DEF Deadline
      <3> QED BY <1>7, <2>1, <3>2 DEF Entry
    <2>4. Entry(m)' = [id |-> id, deadline |-> now + ReqTimeout]
      <3>1. now' - t' + Elapsing'[m] + 0 = now + ReqTimeout
        BY <1>3, <1>6, <2>1, <2>2, RequestsAssumption, SMTT(30)
      <3>2. Deadline(m)' = now + ReqTimeout
        BY <1>4, <3>1 DEF Deadline
      <3> QED BY <1>7, <2>1, <2>2, <3>2, ZenonT(30) DEF Entry
    <2>5. /\ Pending = [k \in 1..n |-> Entry(k)]
          /\ Pending' = [k \in 1..m |-> Entry(k)']
      BY <2>1, <2>2, PendingIs, PendingAfter, ZenonT(30)
    <2> DEFINE e == [id |-> id, deadline |-> now + ReqTimeout]
    <2>6. ASSUME NEW k \in 1..m PROVE Entry(k)' = IF k <= n THEN Pending[k] ELSE e
      <3>1. k <= n => k \in 1..n
        BY <1>5, <2>2
      <3>2. ~(k <= n) => k = m
        BY <1>5, <2>2
      <3> HIDE DEF e, n
      <3>3. CASE k <= n
        BY <2>3, <2>5, <3>1, <3>3, SMTT(30)
      <3>4. CASE ~(k <= n)
        BY <2>4, <3>2, <3>4 DEF e
      <3> QED BY <3>3, <3>4
    <2>7. Pending' = [k \in 1..m |-> IF k <= n THEN Pending[k] ELSE e]
      BY <2>5, <2>6, Zenon
    <2>8. Pending' = With(Pending, n, e)
      BY <2>2, <2>7, ZenonT(30) DEF With
    <2> QED BY <1>2, <1>3, <2>8
  <1> QED BY <1>8, <1>9

(* The unchaining of a take takes the oldest pending request with the id   *)
(* sought; those behind it keep their deadlines.                           *)
LEMMA UnchainMaps ==
    ASSUME RInv, ~preempt, Unchain
    PROVE  /\ now' = now
           /\ \E i \in 1..Len(Queue) :
                 /\ pkt_id[Queue[i]] = Sought
                 /\ \A j \in 1..(i - 1) : pkt_id[Queue[j]] # Sought
                 /\ Pending' = Less(Pending, Len(Queue), i)
  <1>1. /\ UNCHANGED <<pkt_id, timeout_diff, iter, prev, t, now>>
        /\ tp = "unchain" /\ tp' = "pass"
    BY DEF Unchain, locals
  <1>2. ListTypes /\ Linked(Queue, Len(Queue), tail, next) /\ ListTypes'
    BY Facts, UnchainStep, Zenon DEF Kept
  <1>3. PICK i \in 1..Len(Queue) :
              /\ At(i)
              /\ Linked(Queue', Len(Queue'), tail', next')
              /\ Queue' = Less(Queue, Len(Queue), i)
              /\ Len(Queue') = Len(Queue) - 1
              /\ pkt_id[Queue[i]] = Sought
              /\ \A j \in 1..(i - 1) : pkt_id[Queue[j]] # Sought
    BY Unchained, Zenon
  <1>4. PICK n \in Nat : n = Len(Queue)
    BY <1>2, ListFacts, Zenon
  <1>5. PICK x \in Nat : x = timeout_diff[Queue[i]]
    BY Deadlines, ZenonT(30)
  <1>6. i \in 1..n /\ (n - 1) + 1 = n /\ Len(Queue') = n - 1
    BY <1>3, <1>4, SMTT(30)
  <1>7. \A k \in 1..(n - 1) : Queue'[k] = IF k < i THEN Queue[k] ELSE Queue[k + 1]
    BY <1>3, <1>4 DEF Less
  <1>8. \A k \in 0..(n - 1) :
           Elapsing'[k] = IF k < i THEN Elapsing[k] ELSE Elapsing[k + 1] - x
    <2>1. Elapsing' = SumLess(Elapsing, Len(Queue), i, timeout_diff[Queue[i]])
      BY <1>1, <1>3, SumsWithout, Zenon
    <2>2. Elapsing' = SumLess(Elapsing, n, i, x)
      BY <1>4, <1>5, <2>1, ZenonT(30)
    <2> QED BY <2>2 DEF SumLess
  <1>9. prev' = Before(i)'
    <2>1. i # 1 => i - 1 \in 1..(n - 1) /\ i - 1 < i
      BY <1>6
    <2>2. i # 1 => Queue'[i - 1] = Queue[i - 1]
      BY <1>7, <2>1
    <2> QED BY <1>1, <1>3, <2>2 DEF At, Before
  <1>10. \A k \in 1..(n - 1) : Carried(k)' = IF k < i THEN 0 ELSE x
    <2>1. timeout_diff'[iter'] = x
      BY <1>1, <1>3, <1>5 DEF At
    <2>2. i \in 1..(Len(Queue') + 1)
      BY <1>6
    <2>3. \A k \in 1..Len(Queue') : Carried(k)' = IF k < i THEN 0 ELSE timeout_diff'[iter']
      BY <1>1, <1>2, <1>3, <1>9, <2>2, CarriedPassAfter, ZenonT(30)
    <2> QED BY <1>6, <2>1, <2>3, SMTT(30)
  <1>11. ASSUME NEW k \in 1..(n - 1)
         PROVE  Entry(k)' = IF k < i THEN Entry(k) ELSE Entry(k + 1)
    <2>1. k \in 1..n /\ k + 1 \in 1..n /\ k \in 0..(n - 1)
      BY <1>4
    <2>2. /\ Elapsing[k] \in Nat /\ Elapsing[k + 1] \in Nat /\ now \in Nat /\ t \in Nat
      BY <1>4, <2>1, Deadlines, ZenonT(30)
    <2>3. \A a : Carried(a) = 0
      BY <1>1, CarriedNone, SMTT(30)
    <2>4. CASE k < i
      <3>1. Deadline(k)' = Deadline(k)
        BY <1>1, <1>8, <1>10, <2>1, <2>3, <2>4, SMTT(30) DEF Deadline
      <3> QED BY <1>1, <1>7, <2>4, <3>1, SMTT(30) DEF Entry
    <2>5. CASE ~(k < i)
      <3>1. Elapsing'[k] = Elapsing[k + 1] - x /\ Carried(k)' = x
        BY <1>8, <1>10, <2>1, <2>5
      <3>2. now - t + (Elapsing[k + 1] - x) + x = now - t + Elapsing[k + 1] + 0
        BY <2>2
      <3>3. Deadline(k)' = Deadline(k + 1)
        BY <1>1, <2>3, <3>1, <3>2, ZenonT(30) DEF Deadline
      <3> QED BY <1>1, <1>7, <2>5, <3>3, SMTT(30) DEF Entry
    <2> QED BY <2>4, <2>5
  <1>12. /\ Pending = [k \in 1..n |-> Entry(k)]
         /\ Pending' = [k \in 1..(n - 1) |-> Entry(k)']
    BY <1>4, <1>6, PendingIs, PendingAfter, ZenonT(30)
  <1>13. ASSUME NEW k \in 1..(n - 1)
         PROVE  Entry(k)' = IF k < i THEN Pending[k] ELSE Pending[k + 1]
    <2>1. k \in 1..n /\ k + 1 \in 1..n
      BY <1>4
    <2> QED BY <1>11, <1>12, <2>1, ZenonT(30)
  <1>14. Pending' = [k \in 1..(n - 1) |-> IF k < i THEN Pending[k] ELSE Pending[k + 1]]
    BY <1>12, <1>13, Zenon
  <1>15. Pending' = Less(Pending, Len(Queue), i)
    BY <1>4, <1>14, ZenonT(30) DEF Less
  <1> QED BY <1>1, <1>3, <1>15

(* The request dropped is the oldest, and its deadline has come.           *)
LEMMA ExpireMaps ==
    ASSUME RInv, ~preempt, ExpireOldest
    PROVE  /\ now' = now /\ 1 \in 1..Len(Queue) /\ Deadline(1) <= now
           /\ Pending' = Less(Pending, Len(Queue), 1)
  <1>1. /\ UNCHANGED <<pkt_id, timeout_diff, t, now>>
        /\ tp = "expire" /\ tp' = "elapsed"
    BY DEF ExpireOldest
  <1>2. ListTypes /\ Linked(Queue, Len(Queue), tail, next)
    BY Facts, Zenon
  <1>3. /\ 1 \in 1..Len(Queue) /\ iter = Queue[1]
        /\ Queue' = Less(Queue, Len(Queue), 1)
        /\ Len(Queue') = Len(Queue) - 1
    BY Expired, Zenon
  <1>4. PICK n \in Nat : n = Len(Queue)
    BY <1>2, ListFacts, Zenon
  <1>5. PICK x \in Nat : x = timeout_diff[Queue[1]]
    BY <1>3, Deadlines, Zenon
  <1>6. Len(Queue') = n - 1 /\ 1 \in 1..n
    BY <1>3, <1>4
  <1>7. \A k \in 1..(n - 1) : Queue'[k] = Queue[k + 1]
    <2>1. \A k \in 1..(n - 1) : Queue'[k] = IF k < 1 THEN Queue[k] ELSE Queue[k + 1]
      BY <1>3, <1>4 DEF Less
    <2>2. \A k \in 1..(n - 1) : ~(k < 1)
      BY <1>4
    <2> QED BY <2>1, <2>2
  <1>8. \A k \in 1..(n - 1) : Elapsing'[k] = Elapsing[k + 1] - x
    <2>1. Elapsing' = SumLess(Elapsing, Len(Queue), 1, timeout_diff[Queue[1]])
      BY <1>1, <1>3, SumsWithout, Zenon
    <2>2. Elapsing' = SumLess(Elapsing, n, 1, x)
      BY <1>4, <1>5, <2>1, Zenon
    <2>3. \A k \in 1..(n - 1) : k \in 0..(n - 1) /\ ~(k < 1)
      BY <1>4
    <2> QED BY <2>2, <2>3 DEF SumLess
  <1>9. \A k : Carried(k) = -x /\ Carried(k)' = 0
    <2>1. \A k : Carried(k) = -x
      BY <1>1, <1>3, <1>5 DEF Carried
    <2> QED BY <1>1, <2>1, CarriedNoneAfter
  <1>10. now \in Nat /\ t \in Nat
    BY <1>2 DEF ListTypes
  <1>11. Deadline(1) <= now
    <2>1. Elapsing[1] = x
      <3>1. Summed(Elapsing, Queue, n, timeout_diff)
        BY <1>2, <1>4, ListFacts, Zenon
      <3>2. Elapsing[0] = 0 /\ Elapsing[1] = Elapsing[1 - 1] + timeout_diff[Queue[1]]
        BY <1>6, <3>1, Zenon DEF Summed
      <3> QED BY <1>5, <3>2
    <2>2. now - t + x + (-x) <= now
      BY <1>10
    <2> QED BY <1>9, <2>1, <2>2 DEF Deadline
  <1>12. ASSUME NEW k \in 1..(n - 1) PROVE Entry(k)' = Entry(k + 1)
    <2>1. k + 1 \in 1..n
      BY <1>4
    <2>2. PICK e \in Nat : e = Elapsing[k + 1]
      BY <1>4, <2>1, Deadlines, ZenonT(30)
    <2>3. now - t + (e - x) + 0 = now - t + e + (-x)
      BY <1>10
    <2>4. Deadline(k)' = Deadline(k + 1)
      BY <1>1, <1>8, <1>9, <2>2, <2>3, ZenonT(30) DEF Deadline
    <2> QED BY <1>1, <1>7, <2>4 DEF Entry
  <1>13. /\ Pending = [k \in 1..n |-> Entry(k)]
         /\ Pending' = [k \in 1..(n - 1) |-> Entry(k)']
    BY <1>4, <1>6, PendingIs, PendingAfter, ZenonT(30)
  <1>14. ASSUME NEW k \in 1..(n - 1)
         PROVE  Entry(k)' = IF k < 1 THEN Pending[k] ELSE Pending[k + 1]
    <2>1. k + 1 \in 1..n /\ ~(k < 1)
      BY <1>4
    <2> QED BY <1>12, <1>13, <2>1, Zenon
  <1>15. Pending' = [k \in 1..(n - 1) |-> IF k < 1 THEN Pending[k] ELSE Pending[k + 1]]
    BY <1>13, <1>14, Zenon
  <1>16. Pending' = Less(Pending, Len(Queue), 1)
    BY <1>4, <1>15, Zenon DEF Less
  <1> QED BY <1>1, <1>3, <1>11, <1>16

(* A new connection and a closed one drop them all.                        *)
LEMMA DropMaps ==
    ASSUME RInv, Reconnect \/ mqtt_clear_requests
    PROVE  Pending' = <<>> /\ now' = now
  <1>1. tail' = NULL /\ now' = now
    BY DEF Reconnect, mqtt_clear_requests
  <1>2. ListTypes'
    BY ReconnectStep, ClearStep, Zenon DEF Kept
  <1>3. Len(Queue') = 0
    BY <1>1, <1>2, Emptied, Zenon
  <1>4. Pending' = [k \in 1..0 |-> Entry(k)']
    BY <1>3, PendingAfter, Zenon
  <1>5. Pending' = <<>>
    BY <1>4
  <1> QED BY <1>1, <1>5

(* The pending requests as a sequence.                                     *)
LEMMA PendingSeq ==
    ASSUME RInv
    PROVE  /\ Len(Queue) \in Nat /\ Len(Pending) = Len(Queue)
           /\ DOMAIN Pending = 1..Len(Queue)
           /\ \A k \in 1..Len(Queue) : /\ Pending[k].id = pkt_id[Queue[k]]
                                       /\ Pending[k].deadline = Deadline(k)
           /\ \E S : Pending \in Seq(S)
  <1>1. PICK n \in Nat : n = Len(Queue)
    BY Facts, ListFacts, Zenon
  <1>2. Pending = [k \in 1..n |-> Entry(k)]
    BY <1>1, PendingIs, Zenon
  <1>3. Len(Pending) = n /\ DOMAIN Pending = 1..n
    BY <1>2
  <1>4. \A k \in 1..n : /\ Pending[k].id = pkt_id[Queue[k]]
                        /\ Pending[k].deadline = Deadline(k)
    BY <1>2 DEF Entry
  <1>5. Pending \in Seq({Entry(k) : k \in 1..n})
    BY <1>2
  <1>6. \E S : Pending \in Seq(S)
    BY <1>5, Zenon
  <1> QED BY <1>1, <1>3, <1>4, <1>6, Zenon

-----------------------------------------------------------------------------
(* With a request behind the last is the library's Append.                 *)
LEMMA WithIsAppend ==
    ASSUME NEW S, NEW a \in Seq(S), NEW e
    PROVE  With(a, Len(a), e) = Append(a, e)
  <1> DEFINE n == Len(a)
  <1>1. n \in Nat /\ a \in [1..n -> S]
    OBVIOUS
  <1>2. a \in Seq(S \cup {e})
    OBVIOUS
  <1>3. /\ Append(a, e) \in Seq(S \cup {e}) /\ Len(Append(a, e)) = n + 1
        /\ \A k \in 1..n : Append(a, e)[k] = a[k]
        /\ Append(a, e)[n + 1] = e
    BY <1>2
  <1> HIDE DEF n
  <1>4. Append(a, e) \in [1..(n + 1) -> S \cup {e}]
    <2>1. \A s \in Seq(S \cup {e}) : s \in [1..Len(s) -> S \cup {e}]
      OBVIOUS
    <2> QED BY <1>3, <2>1, Zenon
  <1>5. ASSUME NEW k \in 1..(n + 1)
        PROVE  Append(a, e)[k] = IF k <= n THEN a[k] ELSE e
    <2>1. (k <= n => k \in 1..n) /\ (~(k <= n) => k = n + 1)
      BY <1>1
    <2> QED BY <1>3, <2>1
  <1>6. Append(a, e) = [k \in 1..(n + 1) |-> IF k <= n THEN a[k] ELSE e]
    BY <1>4, <1>5
  <1> QED BY <1>6, Zenon DEF With, n

(* Taking off the first leaves the tail.                                   *)
LEMMA LessIsTail ==
    ASSUME NEW S, NEW a \in Seq(S), a # <<>>
    PROVE  Less(a, Len(a), 1) = Tail(a)
  <1> DEFINE n == Len(a)
  <1>1. n \in Nat /\ n > 0
    OBVIOUS
  <1>2. /\ Tail(a) \in Seq(S) /\ Len(Tail(a)) = n - 1
        /\ \A k \in 1..(n - 1) : Tail(a)[k] = a[k + 1]
    OBVIOUS
  <1> HIDE DEF n
  <1>3. Tail(a) \in [1..(n - 1) -> S]
    <2>1. \A s \in Seq(S) : s \in [1..Len(s) -> S]
      OBVIOUS
    <2> QED BY <1>2, <2>1, Zenon
  <1>4. ASSUME NEW k \in 1..(n - 1)
        PROVE  Tail(a)[k] = IF k < 1 THEN a[k] ELSE a[k + 1]
    <2>1. ~(k < 1)
      BY <1>1
    <2> QED BY <1>2, <2>1
  <1>5. Tail(a) = [k \in 1..(n - 1) |-> IF k < 1 THEN a[k] ELSE a[k + 1]]
    BY <1>3, <1>4
  <1> QED BY <1>5, Zenon DEF Less, n

(* The queue the mapping shows.                                            *)
Shown == IF preempt THEN <<>> ELSE Pending

(* Every step of the list is a step of the queue, or changes nothing in it.*)
LEMMA StepMaps ==
    ASSUME RInv, [Next]_vars
    PROVE  [Abstract!QNext]_(Abstract!qvars)
  <1>0. CASE UNCHANGED vars
    <2>1. Queue' = Queue /\ Elapsing' = Elapsing
      BY <1>0, SameList, Zenon DEF vars, list
    <2>2. UNCHANGED <<Shown, now>>
      BY <1>0, <2>1, ZenonT(30) DEF Shown, Pending, vars, list, locals
    <2> QED BY <2>2 DEF Abstract!qvars, Shown
  <1>1. CASE Next /\ preempt
    <2>1. preempt' = preempt
      BY <1>1, Zenon DEF Next
    <2>2. Shown = <<>> /\ Shown' = <<>>
      BY <1>1, <2>1, ZenonT(30) DEF Shown
    <2>3. now' = now \/ StartElapsed
      BY <1>1 DEF Next, Tcpip, Request, Reconnect, StartTake, Search, Load, Unchain,
              PassTimeout, Delete, Elapsed, ExpireOldest, mqtt_clear_requests, Halted,
              vars
    <2>4. CASE now' = now
      BY <2>2, <2>4 DEF Abstract!qvars, Shown
    <2>5. CASE StartElapsed
      <3>1. now < MaxNow /\ now' = now + 1
        BY <2>5 DEF StartElapsed
      <3>2. Abstract!Tick
        BY <2>2, <3>1 DEF Abstract!Tick, Shown
      <3> QED BY <3>2 DEF Abstract!QNext
    <2> QED BY <2>3, <2>4, <2>5
  <1>2. CASE Next /\ ~preempt
    <2>1. preempt' = preempt
      BY <1>2, Zenon DEF Next
    <2>2. Shown = Pending /\ Shown' = Pending'
      BY <1>2, <2>1, Zenon DEF Shown
    <2>3. PICK n \in Nat : n = Len(Queue)
      BY PendingSeq, Zenon
    <2>4. PICK a, b : a = Shown /\ b = Shown'
      OBVIOUS
    <2>5. /\ a = (IF preempt THEN <<>> ELSE Pending)
          /\ b = (IF preempt' THEN <<>> ELSE Pending')
      BY <2>4 DEF Shown
    <2>6. /\ Len(a) = n /\ DOMAIN a = 1..n /\ \E S : a \in Seq(S)
          /\ \A k \in 1..n : a[k].id = pkt_id[Queue[k]] /\ a[k].deadline = Deadline(k)
      BY <2>2, <2>3, <2>4, PendingSeq, ZenonT(30)
    <2>7. b = a /\ now' = now => UNCHANGED Abstract!qvars
      BY <2>5 DEF Abstract!qvars
    <2>8. ASSUME NEW id \in Ids, NEW fits \in BOOLEAN, Request(id, fits)
          PROVE  Abstract!QNext \/ UNCHANGED Abstract!qvars
      <3>1. /\ now' = now
            /\ \/ Pending' = Pending
               \/ /\ Len(Queue) < MaxReq
                  /\ Pending' = With(Pending, Len(Queue),
                                     [id |-> id, deadline |-> now + ReqTimeout])
        BY <1>2, <2>8, RequestMaps, ZenonT(30)
      <3>2. CASE Pending' = Pending
        BY <2>2, <2>4, <2>7, <3>1, <3>2, Zenon
      <3>3. CASE /\ Len(Queue) < MaxReq
                 /\ Pending' = With(Pending, Len(Queue),
                                    [id |-> id, deadline |-> now + ReqTimeout])
        <4> DEFINE e == [id |-> id, deadline |-> now + ReqTimeout]
        <4>1. b = With(a, n, e) /\ n < MaxReq
          BY <2>2, <2>3, <2>4, <3>3, ZenonT(30)
        <4> HIDE DEF e
        <4>2. b = Append(a, e)
          BY <2>6, <4>1, WithIsAppend, ZenonT(30)
        <4>3. Abstract!Add(id)
          BY <2>5, <2>6, <3>1, <4>1, <4>2 DEF Abstract!Add, e
        <4> QED BY <4>3 DEF Abstract!QNext
      <3> QED BY <3>1, <3>2, <3>3
    <2>9. CASE Unchain
      <3>1. /\ now' = now
            /\ \E i \in 1..Len(Queue) :
                  /\ pkt_id[Queue[i]] = Sought
                  /\ \A j \in 1..(i - 1) : pkt_id[Queue[j]] # Sought
                  /\ Pending' = Less(Pending, Len(Queue), i)
        BY <1>2, <2>9, UnchainMaps, Zenon
      <3>2. PICK i \in 1..n : /\ pkt_id[Queue[i]] = Sought
                              /\ \A j \in 1..(i - 1) : pkt_id[Queue[j]] # Sought
                              /\ b = Less(a, n, i)
        BY <2>2, <2>3, <2>4, <3>1, ZenonT(30)
      <3>3. PICK id \in Ids : id = Sought
        BY SMTT(30) DEF Sought, Ids
      <3>4. a[i].id = id /\ \A j \in 1..(i - 1) : a[j].id # id
        <4>1. \A j \in 1..(i - 1) : j \in 1..n
          OBVIOUS
        <4> QED BY <2>6, <3>2, <3>3, <4>1
      <3>5. b = Abstract!Without(a, i)
        BY <2>6, <3>2, ZenonT(30) DEF Abstract!Without, Less
      <3>6. Abstract!Take(id)
        <4>1. \E k \in DOMAIN a : /\ a[k].id = id
                                  /\ \A j \in 1..(k - 1) : a[j].id # id
                                  /\ b = Abstract!Without(a, k)
          BY <2>6, <3>4, <3>5, ZenonT(30)
        <4> QED BY <2>5, <3>1, <4>1 DEF Abstract!Take
      <3> QED BY <3>6, Zenon DEF Abstract!QNext
    <2>10. CASE ExpireOldest
      <3>1. /\ now' = now /\ 1 \in 1..Len(Queue) /\ Deadline(1) <= now
            /\ Pending' = Less(Pending, Len(Queue), 1)
        BY <1>2, <2>10, ExpireMaps, ZenonT(30)
      <3>2. 1 \in 1..n /\ b = Less(a, n, 1) /\ a[1].deadline <= now
        <4>1. 1 \in 1..n
          BY <2>3, <3>1, Zenon
        <4>2. b = Less(a, n, 1)
          BY <2>2, <2>3, <2>4, <3>1, Zenon
        <4>3. a[1].deadline <= now
          BY <2>6, <3>1, <4>1, Zenon
        <4> QED BY <4>1, <4>2, <4>3, Zenon
      <3>3. a # <<>> /\ Head(a) = a[1]
        BY <2>6, <3>2
      <3>4. b = Tail(a)
        BY <2>6, <3>2, <3>3, LessIsTail, ZenonT(30)
      <3>5. Abstract!Expire
        BY <2>5, <3>1, <3>2, <3>3, <3>4, ZenonT(30) DEF Abstract!Expire
      <3> QED BY <3>5 DEF Abstract!QNext
    <2>11. CASE StartElapsed
      <3>1. /\ Pending' = Pending /\ now' = now + 1 /\ now < MaxNow
            /\ \A k \in 1..Len(Queue) : Deadline(k) >= now
        BY <1>2, <2>11, TickMaps, ZenonT(30)
      <3>2. b = a /\ \A k \in 1..n : a[k].deadline >= now
        <4>1. b = a
          BY <2>2, <2>4, <3>1, Zenon
        <4>2. \A k \in 1..n : a[k].deadline >= now
          BY <2>3, <2>6, <3>1, Zenon
        <4> QED BY <4>1, <4>2, Zenon
      <3>3. Abstract!Tick
        BY <2>5, <2>6, <3>1, <3>2, ZenonT(30) DEF Abstract!Tick
      <3> QED BY <3>3 DEF Abstract!QNext
    <2>12. CASE Reconnect \/ mqtt_clear_requests
      <3>1. Pending' = <<>> /\ now' = now
        BY <2>12, DropMaps, Zenon
      <3>2. Abstract!Drop
        BY <2>2, <2>4, <2>5, <3>1, ZenonT(30) DEF Abstract!Drop
      <3> QED BY <3>2 DEF Abstract!QNext
    <2>13. CASE (\E id \in Ids : StartTake(id)) \/ Search \/ Load \/ Delete
      <3>1. Pending' = Pending /\ now' = now
        BY <2>13, QuietMaps, Zenon
      <3> QED BY <2>2, <2>4, <2>7, <3>1, Zenon
    <2>14. CASE PassTimeout
      <3>1. Pending' = Pending /\ now' = now
        BY <1>2, <2>14, PassMaps, Zenon
      <3> QED BY <2>2, <2>4, <2>7, <3>1, Zenon
    <2>15. CASE Elapsed
      <3>1. Pending' = Pending /\ now' = now
        BY <2>15, ElapsedMaps, Zenon
      <3> QED BY <2>2, <2>4, <2>7, <3>1, Zenon
    <2>16. CASE Halted
      BY <1>0, <2>16 DEF Halted
    <2> QED BY <1>2, <2>8, <2>9, <2>10, <2>11, <2>12, <2>13, <2>14, <2>15, <2>16, ZenonT(30)
            DEF Next, Tcpip
  <1> QED BY <1>0, <1>1, <1>2

(* The pointer list with its differential timeouts implements the queue    *)
(* with absolute deadlines as long as no request is made inside a list     *)
(* operation: looking at the oldest request only expires each on time, and *)
(* an answer takes the oldest request with its id and disturbs no other.   *)
THEOREM RequestsImplementQueue == Spec => QueueRefined
  <1>1. ASSUME Init PROVE Abstract!QInit
    <2>1. RInv /\ now = 0 /\ tail = NULL
      BY <1>1, RInvInit DEF Init
    <2>2. Len(Queue) = 0
      <3>1. Linked(<<>>, 0, tail, next)
        BY <2>1, RequestsAssumption DEF Linked
      <3> QED BY <3>1, QueueNow, Zenon
    <2>3. Pending = [k \in 1..0 |-> Entry(k)]
      BY <2>2, PendingIs, Zenon
    <2>4. Pending = <<>>
      BY <2>3
    <2> QED BY <2>1, <2>4, Zenon DEF Abstract!QInit
  <1> QED BY <1>1, StepMaps, RequestsInvariant, PTL DEF Spec, QueueRefined, Abstract!QSpec
=============================================================================
