-------------------------- MODULE MqttQueueProofs --------------------------
(***************************************************************************)
(* The two queues of the MQTT client.                                      *)
(*                                                                         *)
(* Of the pending requests: their order and their lateness, for every      *)
(* number of slots, every timeout and every set of identifiers.            *)
(*                                                                         *)
(* Of the output ring: TCP gets the bytes in order and once, for every     *)
(* size of the buffer, of the indices, of TCP's send buffer and of the     *)
(* messages, while no send is interrupted.  The indices, the tags and the  *)
(* places in the buffer are all remainders of two numbers that only grow:  *)
(* the bytes appended and the bytes released since the connection was      *)
(* made.  The inductive invariant says that two such numbers exist (At).   *)
(***************************************************************************)
EXTENDS RequestQueue, OutputRing, SequenceTheorems, TLAPS

(* Removing the i-th request keeps a sequence of requests.                 *)
LEMMA WithoutType ==
    ASSUME NEW S, NEW s \in Seq(S), NEW i \in DOMAIN s
    PROVE  /\ Without(s, i) \in Seq(S) /\ Len(Without(s, i)) = Len(s) - 1
           /\ DOMAIN Without(s, i) = 1..(Len(s) - 1)
           /\ \A j \in 1..(Len(s) - 1) :
                  Without(s, i)[j] = s[IF j < i THEN j ELSE j + 1]
<1>1. Len(s) \in Nat /\ DOMAIN s = 1..Len(s) /\ Len(s) - 1 \in Nat
  OBVIOUS
<1>2. \A j \in 1..(Len(s) - 1) : Without(s, i)[j] \in S
  BY <1>1 DEF Without
<1>3. Without(s, i) \in Seq(S) /\ Len(Without(s, i)) = Len(s) - 1
  BY <1>1, <1>2 DEF Without
<1> QED
  BY <1>1, <1>3 DEF Without

(* Requests, their number and the clock keep their types.                  *)
THEOREM QueueTypeCorrect == ASSUME QueueConstants PROVE QSpec => []QTypeOK
<1>1. QInit => QTypeOK
  BY DEF QueueConstants, QInit, QTypeOK
<1>2. QTypeOK /\ [QNext]_qvars => QTypeOK'
  <2> SUFFICES ASSUME QTypeOK, [QNext]_qvars PROVE QTypeOK'
    OBVIOUS
  <2> USE DEF QueueConstants, QTypeOK
  <2>1. ASSUME NEW id \in Ids, Add(id) PROVE QTypeOK'
    BY <2>1 DEF Add
  <2>2. ASSUME NEW id \in Ids, Take(id) PROVE QTypeOK'
    <3>1. PICK i \in DOMAIN q : q' = Without(q, i)
      BY <2>2 DEF Take
    <3>2. q' \in Seq([id : Ids, deadline : Int]) /\ Len(q') = Len(q) - 1
      BY <3>1, WithoutType
    <3> QED
      BY <2>2, <3>2 DEF Take
  <2>3. CASE Expire
    BY <2>3 DEF Expire
  <2>4. CASE Tick
    BY <2>4 DEF Tick
  <2>5. CASE Drop
    BY <2>5 DEF Drop
  <2>6. CASE UNCHANGED qvars
    BY <2>6 DEF qvars
  <2> QED
    BY <2>1, <2>2, <2>3, <2>4, <2>5, <2>6 DEF QNext
<1> QED
  BY <1>1, <1>2, PTL DEF QSpec

(* Requests expire in the order they were made, none is more than one tick *)
(* overdue and none waits longer than ReqTimeout.                          *)
THEOREM QueueOrdered == ASSUME QueueConstants PROVE QSpec => []Ordered
<1>1. QInit => Ordered
  BY DEF QInit, Ordered
<1>2. QTypeOK /\ Ordered /\ [QNext]_qvars => Ordered'
  <2> SUFFICES ASSUME QTypeOK, Ordered, [QNext]_qvars PROVE Ordered'
    OBVIOUS
  <2>a. \A i \in DOMAIN q : q[i] \in [id : Ids, deadline : Int]
    <3> DEFINE R == [id : Ids, deadline : Int]
    <3>1. q \in Seq(R)
      BY DEF QTypeOK
    <3> HIDE DEF R
    <3>2. DOMAIN q = 1..Len(q) /\ \A i \in 1..Len(q) : q[i] \in R
      BY <3>1, ElementOfSeq
    <3> QED
      BY <3>2 DEF R
  <2>b. /\ now \in Int /\ ReqTimeout \in Int /\ ReqTimeout > 0 /\ Len(q) \in Nat
        /\ DOMAIN q = 1..Len(q)
    BY DEF QueueConstants, QTypeOK
  <2>0. /\ now \in Int /\ ReqTimeout \in Int /\ ReqTimeout > 0 /\ Len(q) \in Nat
        /\ DOMAIN q = 1..Len(q) /\ \A i \in 1..Len(q) : q[i].deadline \in Int
    BY <2>a, <2>b
  <2>1. ASSUME NEW id \in Ids, Add(id) PROVE Ordered'
    <3> DEFINE r == [id |-> id, deadline |-> now + ReqTimeout]
    <3>1. /\ DOMAIN q' = 1..(Len(q) + 1) /\ now' = now
          /\ \A i \in 1..Len(q) : q'[i] = q[i]
          /\ q'[Len(q) + 1].deadline = now + ReqTimeout
      BY <2>0, <2>1 DEF Add, QTypeOK
    <3> QED
      BY <2>0, <3>1, SMTT(30) DEF Ordered
  <2>2. ASSUME NEW id \in Ids, Take(id) PROVE Ordered'
    <3>1. PICK i \in DOMAIN q : q' = Without(q, i)
      BY <2>2 DEF Take
    <3>2. /\ DOMAIN q' = 1..(Len(q) - 1) /\ now' = now
          /\ \A j \in 1..(Len(q) - 1) : q'[j] = q[IF j < i THEN j ELSE j + 1]
      BY <2>2, <3>1, WithoutType DEF Take, QTypeOK
    <3>3. ASSUME NEW j \in 1..(Len(q) - 1)
          PROVE  q'[j].deadline \in (now - 1)..(now + ReqTimeout)
      <4> DEFINE jj == IF j < i THEN j ELSE j + 1
      <4>1. jj \in 1..Len(q) /\ q'[j] = q[jj]
        BY <2>0, <3>2
      <4> QED
        BY <2>0, <4>1 DEF Ordered
    <3>4. ASSUME NEW j \in 1..(Len(q) - 1), NEW k \in 1..(Len(q) - 1), j < k
          PROVE  q'[j].deadline <= q'[k].deadline
      <4> DEFINE jj == IF j < i THEN j ELSE j + 1
                 kk == IF k < i THEN k ELSE k + 1
      <4>1. jj \in 1..Len(q) /\ kk \in 1..Len(q) /\ jj < kk
        BY <2>0, <3>4
      <4> QED
        BY <2>0, <3>2, <4>1 DEF Ordered
    <3> QED
      BY <3>2, <3>3, <3>4, SMTT(30) DEF Ordered
  <2>3. CASE Expire
    <3>1. /\ DOMAIN q' = 1..(Len(q) - 1) /\ now' = now
          /\ \A j \in 1..(Len(q) - 1) : q'[j] = q[j + 1]
      BY <2>0, <2>3 DEF Expire, QTypeOK
    <3>2. ASSUME NEW j \in 1..(Len(q) - 1)
          PROVE  q'[j].deadline \in (now - 1)..(now + ReqTimeout)
      <4>1. j + 1 \in DOMAIN q /\ q'[j] = q[j + 1]
        BY <2>0, <3>1
      <4> QED
        BY <4>1 DEF Ordered
    <3>3. ASSUME NEW j \in 1..(Len(q) - 1), NEW k \in 1..(Len(q) - 1), j < k
          PROVE  q'[j].deadline <= q'[k].deadline
      <4>1. /\ j + 1 \in DOMAIN q /\ q'[j] = q[j + 1]
            /\ k + 1 \in DOMAIN q /\ q'[k] = q[k + 1] /\ j + 1 < k + 1
        BY <2>0, <3>1, <3>3
      <4> QED
        BY <4>1 DEF Ordered
    <3> QED
      BY <3>1, <3>2, <3>3 DEF Ordered
  <2>4. CASE Tick
    BY <2>0, <2>4 DEF Tick, Ordered
  <2>5. CASE Drop
    BY <2>5 DEF Drop, Ordered
  <2>6. CASE UNCHANGED qvars
    BY <2>6 DEF qvars, Ordered
  <2> QED
    BY <2>1, <2>2, <2>3, <2>4, <2>5, <2>6 DEF QNext
<1> QED
  BY <1>1, <1>2, QueueTypeCorrect, PTL DEF QSpec

-----------------------------------------------------------------------------
(* Division with remainder.                                                *)
LEMMA DivMod ==
    ASSUME NEW K \in Int, K > 0, NEW x \in Int
    PROVE  /\ x \div K \in Int /\ x % K \in 0..(K - 1)
           /\ x = K * (x \div K) + (x % K)
  <1>1. x = K * (x \div K) + (x % K)
    OBVIOUS
  <1>2. x \div K \in Int /\ x % K \in 0..(K - 1)
    OBVIOUS
  <1> QED BY <1>1, <1>2

(* A remainder that is found is the remainder.                             *)
LEMMA ModIs ==
    ASSUME NEW K \in Int, K > 0, NEW d \in Int, NEW r \in 0..(K - 1), NEW x \in Int,
           x = K * d + r
    PROVE  x % K = r
  <1> DEFINE e == x \div K
             s == x % K
  <1>1. e \in Int /\ s \in 0..(K - 1) /\ x = K * e + s
    BY DivMod
  <1>2. K * d \in Int /\ K * e \in Int
    BY <1>1
  <1> HIDE DEF e, s
  <1>3. ~(d > e)
    <2> SUFFICES ASSUME d > e PROVE FALSE
      OBVIOUS
    <2>1. K * (d - e - 1) \in Nat
      <3>1. d - e - 1 \in Nat
        BY <1>1
      <3> QED BY <3>1
    <2>2. K * (d - e - 1) = K * d - K * e - K
      BY <1>1
    <2> QED BY <1>1, <1>2, <2>1, <2>2
  <1>4. ~(e > d)
    <2> SUFFICES ASSUME e > d PROVE FALSE
      OBVIOUS
    <2>1. K * (e - d - 1) \in Nat
      <3>1. e - d - 1 \in Nat
        BY <1>1
      <3> QED BY <3>1
    <2>2. K * (e - d - 1) = K * e - K * d - K
      BY <1>1
    <2> QED BY <1>1, <1>2, <2>1, <2>2
  <1>5. d = e
    BY <1>1, <1>3, <1>4
  <1>6. s = r
    BY <1>1, <1>2, <1>5
  <1> QED BY <1>6 DEF s

(* The remainder of a sum depends on the remainders only.                  *)
LEMMA ModPlus ==
    ASSUME NEW K \in Int, K > 0, NEW x \in Int, NEW n \in Int
    PROVE  ((x % K) + n) % K = (x + n) % K
  <1> DEFINE d == x \div K
             r == x % K
             e == (r + n) \div K
             s == (r + n) % K
  <1>1. d \in Int /\ r \in Int /\ x = K * d + r
    BY DivMod
  <1>2. r + n \in Int
    BY <1>1
  <1>3. e \in Int /\ s \in 0..(K - 1) /\ r + n = K * e + s
    BY <1>2, DivMod
  <1> HIDE DEF d, r, e, s
  <1>4. K * (d + e) = K * d + K * e /\ d + e \in Int
    BY <1>1, <1>3
  <1>5. K * d \in Int /\ K * e \in Int
    BY <1>1, <1>3
  <1>6. x + n = K * (d + e) + s
    BY <1>1, <1>3, <1>4, <1>5
  <1>7. x + n \in Int
    OBVIOUS
  <1>8. (x + n) % K = s
    <2> DEFINE f == d + e
               y == x + n
    <2>1. f \in Int /\ y \in Int /\ y = K * f + s
      BY <1>4, <1>6, <1>7
    <2> HIDE DEF f, y
    <2>2. y % K = s
      BY <1>3, <2>1, ModIs
    <2> QED BY <2>2 DEF y
  <1> QED BY <1>8 DEF s, r

(* Less than K apart, numbers are told apart by their remainders, and the  *)
(* difference of these is theirs.                                          *)
LEMMA ModNear ==
    ASSUME NEW K \in Int, K > 0, NEW x \in Int, NEW n \in 0..(K - 1)
    PROVE  /\ (x + n) % K = IF (x % K) + n < K THEN (x % K) + n ELSE (x % K) + n - K
           /\ (x + n) % K = x % K => n = 0
           /\ (((x + n) % K) - (x % K)) % K = n
  <1> DEFINE d == x \div K
             r == x % K
             s == IF r + n < K THEN r + n ELSE r + n - K
  <1>1. d \in Int /\ r \in 0..(K - 1) /\ x = K * d + r
    BY DivMod
  <1> HIDE DEF d, r
  <1>2. s \in 0..(K - 1)
    BY <1>1
  <1>3. (x + n) % K = s
    <2>1. K * d \in Int /\ K * (d + 1) = K * d + K /\ d + 1 \in Int
      BY <1>1
    <2>2. CASE r + n < K
      <3>1. x + n = K * d + s /\ x + n \in Int
        BY <1>1, <2>1, <2>2
      <3> QED BY <1>1, <1>2, <3>1, ModIs
    <2>3. CASE ~(r + n < K)
      <3> DEFINE f == d + 1
                 y == x + n
      <3>1. f \in Int /\ y \in Int /\ y = K * f + s
        BY <1>1, <2>1, <2>3
      <3> HIDE DEF f, y, s
      <3>2. y % K = s
        BY <1>2, <3>1, ModIs
      <3> QED BY <3>2 DEF y
    <2> QED BY <2>2, <2>3
  <1>4. s = r => n = 0
    BY <1>1
  <1>5. (s - r) % K = n
    <2>1. CASE r + n < K
      <3>1. s - r = K * 0 + n /\ s - r \in Int
        BY <1>1, <2>1
      <3> QED BY <3>1, ModIs
    <2>2. CASE ~(r + n < K)
      <3> DEFINE f == -1
                 y == s - r
      <3>1. f \in Int /\ y \in Int /\ y = K * f + n
        BY <1>1, <2>2
      <3> HIDE DEF f, y, s
      <3>2. y % K = n
        BY <3>1, ModIs
      <3> QED BY <3>2 DEF y
    <2> QED BY <2>1, <2>2
  <1>6. (x + n) % K = IF (x % K) + n < K THEN (x % K) + n ELSE (x % K) + n - K
    BY <1>3 DEF r
  <1> HIDE DEF s
  <1>7. (x + n) % K = x % K => n = 0
    BY <1>3, <1>4 DEF r
  <1>8. (((x + n) % K) - (x % K)) % K = n
    <2>1. ((x + n) % K) - (x % K) = s - r
      BY <1>3, Zenon DEF r
    <2> QED BY <1>5, <2>1, Zenon
  <1> QED BY <1>6, <1>7, <1>8

(* A remainder by a multiple of S has the same remainder by S.             *)
LEMMA ModMod ==
    ASSUME NEW S \in Int, S > 0, NEW K \in Int, K > 0, K % S = 0, NEW x \in Int
    PROVE  (x % K) % S = x % S
  <1> DEFINE m == K \div S
             d == x \div K
             r == x % K
             e == r \div S
             s == r % S
  <1>1. m \in Int /\ K = S * m
    <2>1. m \in Int /\ K = S * m + (K % S)
      BY DivMod
    <2>2. S * m \in Int
      BY <2>1
    <2> QED BY <2>1, <2>2
  <1>2. d \in Int /\ r \in Int /\ x = K * d + r
    BY DivMod
  <1>3. e \in Int /\ s \in 0..(S - 1) /\ r = S * e + s
    BY <1>2, DivMod
  <1> HIDE DEF m, d, r, e, s
  <1>4. S * (m * d + e) = (S * m) * d + S * e /\ m * d + e \in Int
    BY <1>1, <1>2, <1>3
  <1>5. (S * m) * d \in Int /\ S * e \in Int
    BY <1>1, <1>2, <1>3
  <1>6. x = S * (m * d + e) + s
    BY <1>1, <1>2, <1>3, <1>4, <1>5
  <1>7. x % S = s
    <2> DEFINE f == m * d + e
    <2>1. f \in Int /\ x = S * f + s
      BY <1>4, <1>6
    <2> HIDE DEF f
    <2> QED BY <1>3, <2>1, ModIs
  <1> QED BY <1>7 DEF s, r

-----------------------------------------------------------------------------
Writing == {"write", "write2"}
Written == {"advance", "advance2"}

RingTypes ==
    /\ put \in Nat /\ get \in Nat /\ expect \in Nat /\ sndbuf \in Nat
    /\ pc \in [Threads -> {"idle", "start"} \cup Writing \cup Written]
    /\ send_len \in [Threads -> Nat]

(* Bytes that TCP has got and the ring has not released yet.               *)
HandedBy(t) == IF pc[t] \in Written THEN send_len[t] ELSE 0
Handed == HandedBy("comm") + HandedBy("tcpip")

(* P bytes have been appended and G of them released: byte p is in place   *)
(* p % Size and has tag p % Tags.  What a thread is about to write is      *)
(* there and ends before the buffer does.                                  *)
At(P, G) ==
    /\ G <= P /\ P <= G + Size
    /\ put = P % IdxMod /\ get = G % IdxMod
    /\ fresh = P % Tags /\ expect = (G + Handed) % Tags
    /\ \A p \in G..(P - 1) : buf[p % Size] = p % Tags
    /\ \A t \in Threads :
          /\ pc[t] \in Writing \cup Written => send_len[t] <= P - G
          /\ pc[t] \in Writing => (G % Size) + send_len[t] <= Size

(* Only one thread is in a send, and all it has handed to TCP was right.   *)
InTurn ==
    /\ intact
    /\ \A t, u \in Threads : t # u => pc[t] = "idle" \/ pc[u] = "idle"
    /\ \E P, G \in Nat : At(P, G)

RingInv == RingTypes /\ (~preempt => InTurn)

(* What the lemmas on remainders need to know of the constants.            *)
LEMMA RingSizes ==
    /\ Size \in Int /\ Size > 0 /\ IdxMod \in Int /\ IdxMod > 0
    /\ Tags \in Int /\ Tags > 0 /\ IdxMod % Size = 0
    /\ Size < IdxMod /\ Size < Tags
  BY RingAssumption

(* The moduli of the ring.                                                 *)
Moduli == {Size, IdxMod, Tags}

(* Adding to a remainder, and taking the remainder again.                  *)
LEMMA RemainderOfSum ==
    ASSUME NEW K \in Moduli, NEW x \in Nat, NEW n \in Nat
    PROVE  ((x % K) + n) % K = (x + n) % K
  <1>1. K \in Int /\ K > 0 /\ x \in Int /\ n \in Int
    BY RingSizes DEF Moduli
  <1> QED BY <1>1, ModPlus, Zenon

(* A remainder is a natural number below the modulus.                      *)
LEMMA RemainderType ==
    ASSUME NEW K \in Moduli, NEW x \in Nat
    PROVE  x % K \in 0..(K - 1) /\ x % K \in Nat /\ K \in Nat
  BY RingSizes DEF Moduli

(* Fewer than K steps on: the remainder wraps at most once, is a different *)
(* one, and its distance is the number of steps.                           *)
LEMMA RemainderNear ==
    ASSUME NEW K \in Moduli, NEW x \in Nat, NEW n \in 0..(K - 1)
    PROVE  /\ (x + n) % K = IF (x % K) + n < K THEN (x % K) + n ELSE (x % K) + n - K
           /\ (x + n) % K = x % K => n = 0
           /\ (((x + n) % K) - (x % K)) % K = n
  <1>1. K \in Int /\ K > 0 /\ x \in Int
    BY RingSizes DEF Moduli
  <1> QED BY <1>1, ModNear, ZenonT(120)

(* The place of a byte does not change when its index wraps.               *)
LEMMA PlaceOfIndex ==
    ASSUME NEW x \in Nat
    PROVE  (x % IdxMod) % Size = x % Size
  <1>1. x \in Int
    OBVIOUS
  <1> QED BY <1>1, RingSizes, ModMod, Zenon

(* The 16-bit subtraction gives the number of bytes in the ring, also when *)
(* put has wrapped and get has not.                                        *)
LEMMA RingLength ==
    ASSUME NEW P \in Nat, NEW G \in Nat, G <= P, P <= G + Size,
           NEW K \in {IdxMod, Tags}
    PROVE  ((P % K) - (G % K)) % K = P - G
  <1> DEFINE n == P - G
  <1>1. n \in 0..(K - 1) /\ K \in Moduli /\ G + n = P
    BY RingSizes DEF Moduli
  <1> HIDE DEF n
  <1>2. (((G + n) % K) - (G % K)) % K = n
    BY <1>1, RemainderNear, ZenonT(120)
  <1> QED BY <1>1, <1>2, Zenon DEF n

(* The linear length is at most what is there, and ends where the buffer   *)
(* does.                                                                   *)
LEMMA LinearFits ==
    ASSUME NEW P \in Nat, NEW G \in Nat, G <= P, P <= G + Size,
           put = P % IdxMod
    PROVE  LET lin == LinearLength(G % IdxMod)
           IN  lin \in Nat /\ lin <= P - G /\ (G % Size) + lin <= Size
  <1>1. (put - (G % IdxMod)) % IdxMod = P - G
    BY RingLength
  <1>2. (G % IdxMod) % Size = G % Size
    BY PlaceOfIndex
  <1>3. LinearLength(G % IdxMod) = MinOf(P - G, Size - (G % Size))
    BY <1>1, <1>2 DEF LinearLength
  <1>4. G % Size \in 0..(Size - 1)
    BY RemainderType DEF Moduli
  <1> DEFINE r == G % Size
  <1> HIDE DEF r
  <1>5. r \in 0..(Size - 1) /\ LinearLength(G % IdxMod) = MinOf(P - G, Size - r)
    BY <1>3, <1>4 DEF r
  <1>6. LET lin == MinOf(P - G, Size - r)
        IN  lin \in Nat /\ lin <= P - G /\ r + lin <= Size
    BY <1>5, RingSizes DEF MinOf
  <1> QED BY <1>5, <1>6 DEF r

(* Appended bytes go behind those that are there and overwrite none.       *)
LEMMA AppendKeeps ==
    ASSUME NEW P \in Nat, NEW G \in Nat, NEW n \in Nat,
           G <= P, P + n <= G + Size, put = P % IdxMod, fresh = P % Tags,
           \A p \in G..(P - 1) : buf[p % Size] = p % Tags,
           AppendBytes(n)
    PROVE  /\ put' = (P + n) % IdxMod /\ fresh' = (P + n) % Tags
           /\ \A p \in G..((P + n) - 1) : buf'[p % Size] = p % Tags
  <1>1. put' = (P + n) % IdxMod
    BY RemainderOfSum, Zenon DEF AppendBytes, Moduli
  <1>2. fresh' = (P + n) % Tags
    BY RemainderOfSum, Zenon DEF AppendBytes, Moduli
  <1>3. ASSUME NEW j \in Nat
        PROVE  (put + j) % Size = (P + j) % Size
    <2>1. put \in Nat
      BY RemainderType DEF Moduli
    <2>2. ((put % Size) + j) % Size = (put + j) % Size
      BY <2>1, RemainderOfSum, ZenonT(30) DEF Moduli
    <2>3. put % Size = P % Size
      BY PlaceOfIndex
    <2>4. ((P % Size) + j) % Size = (P + j) % Size
      BY RemainderOfSum, Zenon DEF Moduli
    <2> QED BY <2>2, <2>3, <2>4, Zenon
  <1>4. ASSUME NEW p \in G..((P + n) - 1)
        PROVE  buf'[p % Size] = p % Tags
    <2> DEFINE k == p % Size
               back == {j \in 0..(n - 1) : (put + j) % Size = k}
               last == CHOOSE j \in back : \A i \in back : i <= j
    <2>1. k \in 0..(Size - 1) /\ p \in Nat
      <3>1. p \in Nat
        OBVIOUS
      <3> QED BY <3>1, RemainderType DEF Moduli
    <2>2. buf'[k] = IF back = {} THEN buf[k] ELSE (fresh + last) % Tags
      BY <2>1, Zenon DEF AppendBytes
    <2>3. ASSUME NEW j \in back
          PROVE  j = p - P
      <3>1. j \in 0..(n - 1) /\ j \in Nat /\ (put + j) % Size = p % Size
        OBVIOUS
      <3>4. (P + j) % Size = p % Size
        BY <1>3, <3>1
      <3>2. CASE P + j >= p
        <4> DEFINE d == P + j - p
        <4>1. d \in 0..(Size - 1) /\ p + d = P + j
          BY <3>1, <3>2, RingSizes
        <4>2. (p + d) % Size = p % Size
          BY <3>4, <4>1, Zenon
        <4> HIDE DEF d
        <4>3. d = 0
          BY <2>1, <4>1, <4>2, RemainderNear, ZenonT(30) DEF Moduli
        <4> QED BY <3>1, <4>1, <4>3
      <3>3. CASE P + j < p
        <4> DEFINE d == p - (P + j)
                   x == P + j
        <4>1. d \in 0..(Size - 1) /\ x + d = p /\ x \in Nat
          BY <3>1, <3>3, RingSizes
        <4>2. (x + d) % Size = x % Size
          BY <3>4, <4>1, Zenon
        <4> HIDE DEF d, x
        <4>3. d = 0
          BY <4>1, <4>2, RemainderNear, ZenonT(30) DEF Moduli
        <4> QED BY <3>1, <3>3, <4>3 DEF d
      <3> QED BY <3>1, <3>2, <3>3
    <2>4. CASE p < P
      <3>1. back = {}
        <4>1. \A j \in back : j \in 0..(n - 1) /\ j = p - P
          BY <2>3
        <4> HIDE DEF back
        <4> QED BY <2>4, <4>1
      <3>2. buf[k] = p % Tags
        BY <2>4
      <3> QED BY <2>2, <3>1, <3>2
    <2>5. CASE p >= P
      <3> DEFINE j0 == p - P
      <3>1. j0 \in 0..(n - 1) /\ P + j0 = p
        BY <2>5
      <3>2. j0 \in back
        <4>1. j0 \in Nat
          BY <3>1
        <4>2. (put + j0) % Size = k
          BY <1>3, <3>1, <4>1, Zenon
        <4> QED BY <3>1, <4>2
      <3>3. \A i \in back : i <= j0
        BY <2>3, <3>1
      <3> HIDE DEF back, j0
      <3>4. last \in back
        BY <3>2, <3>3, Zenon
      <3>5. last = j0
        BY <2>3, <3>4 DEF j0
      <3>6. (fresh + j0) % Tags = p % Tags
        <4>1. j0 \in Nat
          BY <3>1
        <4> QED BY <3>1, <4>1, RemainderOfSum, Zenon DEF Moduli
      <3> QED BY <2>2, <3>2, <3>5, <3>6
    <2> QED BY <2>4, <2>5
  <1> QED BY <1>1, <1>2, <1>4

(* A linear stretch at the get index is the bytes TCP is due, in order.    *)
LEMMA StretchInOrder ==
    ASSUME NEW P \in Nat, NEW G \in Nat, NEW n \in Nat, n <= P - G,
           (G % Size) + n <= Size, get = G % IdxMod, expect = G % Tags,
           \A p \in G..(P - 1) : buf[p % Size] = p % Tags
    PROVE  InOrder(n)
  <1>1. get % Size = G % Size
    BY PlaceOfIndex
  <1>2. G % Size \in 0..(Size - 1)
    BY RemainderType DEF Moduli
  <1>3. ASSUME NEW k \in 0..(n - 1)
        PROVE  /\ (get % Size) + k < Size
               /\ buf[(get % Size) + k] = (expect + k) % Tags
    <2>1. (G % Size) + k < Size /\ k \in 0..(Size - 1) /\ k \in Nat
      BY <1>2, RingSizes
    <2>2. (G + k) % Size = (G % Size) + k
      BY <2>1, RemainderNear, Zenon DEF Moduli
    <2>3. G + k \in G..(P - 1)
      OBVIOUS
    <2>4. buf[(G + k) % Size] = (G + k) % Tags
      BY <2>3
    <2>5. (expect + k) % Tags = (G + k) % Tags
      BY <2>1, RemainderOfSum, Zenon DEF Moduli
    <2> QED BY <1>1, <2>1, <2>2, <2>4, <2>5
  <1> QED BY <1>3 DEF InOrder

-----------------------------------------------------------------------------
(* Every step keeps the types, interrupted or not.                         *)
LEMMA RingTypesKept ==
    ASSUME RingTypes, [Next]_vars
    PROVE  RingTypes'
  <1> USE DEF RingTypes, Writing, Written
  <1>0. /\ \A x \in Nat : x % IdxMod \in Nat /\ x % Tags \in Nat
        /\ SndBuf \in Nat /\ 0 \in Nat /\ Lengths \subseteq Nat
    <2>1. SndBuf \in Nat /\ 0 \in Nat /\ Lengths \subseteq Nat
      BY RingAssumption
    <2> QED BY <2>1, RemainderType, Zenon DEF Moduli
  <1>1. ASSUME NEW n \in Lengths, Publish(n)
        PROVE  RingTypes'
    <2>1. put + n \in Nat
      BY <1>0
    <2>2. put' \in Nat
      BY <1>0, <1>1, <2>1 DEF Publish, AppendBytes
    <2> QED BY <1>1, <2>2 DEF Publish
  <1>2. CASE Reconnect
    BY <1>0, <1>2 DEF Reconnect, locals
  <1>3. CASE TcpSent
    <2>1. sndbuf' \in Nat
      BY <1>0, <1>3 DEF TcpSent
    <2> QED BY <1>3, <2>1 DEF TcpSent, ring
  <1>4. CASE TcpPoll
    BY <1>4 DEF TcpPoll, ring
  <1>5. ASSUME NEW t \in Threads, Return(t)
        PROVE  /\ pc' \in [Threads -> {"idle", "start"} \cup Writing \cup Written]
               /\ send_len' \in [Threads -> Nat]
    BY <1>0, <1>5 DEF Return
  <1>6. ASSUME NEW g \in Nat
        PROVE  MinOf(sndbuf, LinearLength(g)) \in Nat
    <2>1. (put - g) % IdxMod \in Nat /\ g % Size \in 0..(Size - 1)
      <3>1. put - g \in Int
        OBVIOUS
      <3>2. (put - g) % IdxMod \in 0..(IdxMod - 1)
        BY <3>1, RingSizes, DivMod, Zenon
      <3>3. (put - g) % IdxMod \in Nat
        BY <3>2, RingSizes
      <3> QED BY <3>3, RemainderType, Zenon DEF Moduli
    <2>2. Size - (g % Size) \in Nat
      BY <2>1, RingSizes
    <2> QED BY <2>1, <2>2 DEF LinearLength, MinOf
  <1>7. ASSUME NEW t \in Threads, SendStart(t)
        PROVE  RingTypes'
    <2>1. CASE Return(t)
      BY <1>7, <1>5, <2>1 DEF SendStart, ring
    <2>2. CASE ~Return(t)
      <3>1. /\ pc' = [pc EXCEPT ![t] = "write"]
            /\ send_len' = [send_len EXCEPT ![t] = MinOf(sndbuf, LinearLength(get))]
            /\ UNCHANGED <<ring, sndbuf, expect>>
        BY <1>7, <2>2 DEF SendStart
      <3> QED BY <1>6, <3>1 DEF ring
    <2> QED BY <2>1, <2>2
  <1>8. ASSUME NEW t \in Threads, TcpWrite(t)
        PROVE  RingTypes'
    <2>1. sndbuf' \in Nat /\ expect + send_len[t] \in Nat
      BY <1>8 DEF TcpWrite
    <2>2. expect' \in Nat
      BY <1>0, <1>8, <2>1 DEF TcpWrite
    <2> QED BY <1>8, <2>1, <2>2 DEF TcpWrite, ring
  <1>9. ASSUME NEW t \in Threads, TcpWriteFails(t)
        PROVE  RingTypes'
    BY <1>9, <1>5 DEF TcpWriteFails, ring
  <1>10. ASSUME NEW t \in Threads, Advance(t)
         PROVE  RingTypes'
    <2> DEFINE g == (get + send_len[t]) % IdxMod
    <2>1. g \in Nat
      <3>1. get + send_len[t] \in Nat
        OBVIOUS
      <3> QED BY <1>0, <3>1
    <2>2. get' = g /\ UNCHANGED <<put, sndbuf, expect>>
      BY <1>10 DEF Advance
    <2>3. CASE Return(t)
      BY <1>5, <2>1, <2>2, <2>3
    <2>4. CASE ~Return(t)
      <3>1. /\ pc' = [pc EXCEPT ![t] = "write2"]
            /\ send_len' = [send_len EXCEPT ![t] = MinOf(sndbuf, LinearLength(g))]
        BY <1>10, <2>4 DEF Advance
      <3> HIDE DEF g
      <3> QED BY <1>6, <2>1, <2>2, <3>1
    <2> QED BY <2>3, <2>4
  <1>11. CASE UNCHANGED vars
    BY <1>11 DEF vars, sysVars, ring, locals
  <1> QED BY <1>1, <1>2, <1>3, <1>4, <1>7, <1>8, <1>9, <1>10, <1>11
       DEF Next, Send

(* With thread t alone in a send, At speaks of t only.                     *)
AtOf(P, G, t) ==
    /\ G <= P /\ P <= G + Size
    /\ put = P % IdxMod /\ get = G % IdxMod /\ fresh = P % Tags
    /\ expect = (G + HandedBy(t)) % Tags
    /\ \A p \in G..(P - 1) : buf[p % Size] = p % Tags
    /\ pc[t] \in Writing \cup Written => send_len[t] <= P - G
    /\ pc[t] \in Writing => (G % Size) + send_len[t] <= Size
Only(t) == \A u \in Threads : u # t => pc[u] = "idle"

(* At and AtOf agree as long as t is alone.                                *)
LEMMA AtOne ==
    ASSUME RingTypes, NEW P, NEW G, NEW t \in Threads, Only(t)
    PROVE  At(P, G) <=> AtOf(P, G, t)
  <1>1. \A u \in Threads : u # t => pc[u] \notin Writing \cup Written
    BY DEF Only, Writing, Written
  <1>2. Handed = HandedBy(t)
    BY <1>1 DEF Handed, HandedBy, Threads, RingTypes
  <1> DEFINE Room(u) ==
               /\ pc[u] \in Writing \cup Written => send_len[u] <= P - G
               /\ pc[u] \in Writing => (G % Size) + send_len[u] <= Size
  <1>4. \A u \in Threads : u # t => Room(u)
    BY <1>1
  <1>5. (\A u \in Threads : Room(u)) <=> Room(t)
    <2> HIDE DEF Room
    <2> QED BY <1>4, Zenon
  <1> QED BY <1>2, <1>5, Zenon DEF At, AtOf

(* The same after a step.                                                  *)
LEMMA AtOneAfter ==
    ASSUME RingTypes', NEW P \in Nat, NEW G \in Nat, NEW t \in Threads,
           Only(t)', AtOf(P, G, t)', intact'
    PROVE  InTurn'
  <1>1. \A u \in Threads : u # t => pc'[u] \notin Writing \cup Written
    BY DEF Only, Writing, Written
  <1>2. Handed' = HandedBy(t)'
    BY <1>1 DEF Handed, HandedBy, Threads, RingTypes
  <1> DEFINE Room(u) ==
               /\ pc'[u] \in Writing \cup Written => send_len'[u] <= P - G
               /\ pc'[u] \in Writing => (G % Size) + send_len'[u] <= Size
  <1>3. \A u \in Threads : u # t => Room(u)
    BY <1>1
  <1>4. At(P, G)'
    <2>1. Room(t)
      BY DEF AtOf
    <2>2. \A u \in Threads : Room(u)
      <3> HIDE DEF Room
      <3> QED BY <1>3, <2>1, Zenon
    <2> QED BY <1>2, <2>2, Zenon DEF At, AtOf
  <1>5. \A v, u \in Threads : v # u => pc'[v] = "idle" \/ pc'[u] = "idle"
    BY DEF Only
  <1> QED BY <1>4, <1>5, Zenon DEF InTurn

(* Between two sends: a message, a new connection, a callback of TCP.      *)
LEMMA CallsInTurn ==
    ASSUME RingTypes, RingTypes', ~preempt, InTurn,
           (\E n \in Lengths : Publish(n)) \/ Reconnect \/ TcpSent \/ TcpPoll
    PROVE  InTurn'
  <1>1. pc["comm"] = "idle" /\ pc["tcpip"] = "idle"
    BY DEF Publish, Reconnect, TcpSent, TcpPoll, MayCall
  <1>2. PICK P, G \in Nat : At(P, G)
    BY DEF InTurn
  <1>3. "comm" \in Threads /\ "tcpip" \in Threads /\ Only("comm") /\ Only("tcpip")
    BY <1>1 DEF Only, Threads
  <1>4. AtOf(P, G, "comm") /\ AtOf(P, G, "tcpip")
    BY <1>2, <1>3, AtOne
  <1>5. /\ G <= P /\ P <= G + Size /\ put = P % IdxMod /\ get = G % IdxMod
        /\ fresh = P % Tags /\ \A p \in G..(P - 1) : buf[p % Size] = p % Tags
    BY <1>4 DEF AtOf
  <1>6. expect = G % Tags
    <2>1. HandedBy("comm") = 0 /\ G + 0 = G
      BY <1>1 DEF HandedBy, Written
    <2>2. expect = (G + HandedBy("comm")) % Tags
      BY <1>4 DEF AtOf
    <2> QED BY <2>1, <2>2, Zenon
  <1>7. ASSUME NEW n \in Lengths, Publish(n)
        PROVE  InTurn'
    <2>1. n \in Nat /\ n <= Size - (P - G)
      <3>1. mqtt_ringbuf_len = P - G
        BY <1>5, RingLength, Zenon DEF mqtt_ringbuf_len
      <3>2. n <= Size - mqtt_ringbuf_len /\ n \in Nat
        BY <1>7, RingAssumption DEF Publish, CheckSpace, mqtt_ringbuf_free
      <3> QED BY <3>1, <3>2, Zenon
    <2>2. P + n \in Nat /\ G <= P + n /\ P + n <= G + Size
      BY <1>5, <2>1, RingSizes
    <2>3. /\ put' = (P + n) % IdxMod /\ fresh' = (P + n) % Tags
          /\ \A p \in G..((P + n) - 1) : buf'[p % Size] = p % Tags
      <3>1. AppendBytes(n)
        BY <1>7 DEF Publish
      <3> QED BY <1>5, <2>1, <2>2, <3>1, AppendKeeps, ZenonT(30)
    <2>4. /\ pc'["comm"] = "start" /\ pc'["tcpip"] = "idle"
          /\ UNCHANGED <<get, expect, intact>>
      BY <1>1, <1>7 DEF Publish, RingTypes, Threads
    <2>5. Only("comm")'
      BY <2>4 DEF Only, Threads
    <2>6. expect' = (G + HandedBy("comm")') % Tags
      <3>1. HandedBy("comm")' = 0 /\ G + 0 = G
        BY <2>4 DEF HandedBy, Written
      <3> QED BY <1>6, <2>4, <3>1, Zenon
    <2>7. pc'["comm"] \notin Writing \cup Written /\ pc'["comm"] \notin Writing
      BY <2>4 DEF Writing, Written
    <2>8. AtOf(P + n, G, "comm")'
      BY <1>5, <2>2, <2>3, <2>4, <2>6, <2>7, Zenon DEF AtOf
    <2>9. intact'
      BY <2>4, Zenon DEF InTurn
    <2> QED BY <1>3, <2>2, <2>5, <2>8, <2>9, AtOneAfter, Zenon
  <1>8. CASE Reconnect
    <2>1. /\ put' = 0 /\ get' = 0 /\ fresh' = 0 /\ expect' = 0
          /\ pc' = pc /\ intact' = intact
      BY <1>8 DEF Reconnect, locals
    <2>2. 0 % IdxMod = 0 /\ 0 % Tags = 0 /\ 0 + 0 = 0 /\ 0 \in Nat
      BY RingSizes
    <2>3. Only("comm")' /\ HandedBy("comm")' = 0
      BY <1>1, <2>1 DEF Only, Threads, HandedBy, Written
    <2>4. pc'["comm"] \notin Writing \cup Written /\ pc'["comm"] \notin Writing
      BY <1>1, <2>1 DEF Writing, Written
    <2>5. 0 <= 0 /\ 0 <= 0 + Size /\ (\A p \in 0..(0 - 1) : FALSE)
      BY RingSizes
    <2>6. expect' = (0 + HandedBy("comm")') % Tags
      BY <2>1, <2>2, <2>3, Zenon
    <2>7. AtOf(0, 0, "comm")'
      BY <2>1, <2>2, <2>4, <2>5, <2>6, Zenon DEF AtOf
    <2>8. intact'
      BY <2>1, Zenon DEF InTurn
    <2> QED BY <1>3, <2>2, <2>3, <2>7, <2>8, AtOneAfter, Zenon
  <1>9. CASE TcpSent \/ TcpPoll
    <2>1. /\ pc'["comm"] = "idle" /\ pc'["tcpip"] = "start"
          /\ UNCHANGED <<put, get, buf, fresh, expect, intact>>
      BY <1>1, <1>9 DEF TcpSent, TcpPoll, ring, RingTypes, Threads
    <2>2. Only("tcpip")' /\ HandedBy("tcpip")' = 0 /\ G + 0 = G
      BY <2>1 DEF Only, Threads, HandedBy, Written
    <2>3. pc'["tcpip"] \notin Writing \cup Written /\ pc'["tcpip"] \notin Writing
      BY <2>1 DEF Writing, Written
    <2>4. expect' = (G + HandedBy("tcpip")') % Tags
      BY <1>6, <2>1, <2>2, Zenon
    <2>5. AtOf(P, G, "tcpip")'
      BY <1>5, <2>1, <2>3, <2>4, Zenon DEF AtOf
    <2>6. intact'
      BY <2>1, Zenon DEF InTurn
    <2> QED BY <1>3, <2>2, <2>5, <2>6, AtOneAfter, Zenon
  <1> QED BY <1>7, <1>8, <1>9

(* The start of a send takes no more than a linear stretch that is there.  *)
LEMMA StretchChosen ==
    ASSUME RingTypes, NEW P \in Nat, NEW G \in Nat, G <= P, P <= G + Size,
           put = P % IdxMod
    PROVE  LET n == MinOf(sndbuf, LinearLength(G % IdxMod))
           IN  n <= P - G /\ (G % Size) + n <= Size
  <1> DEFINE lin == LinearLength(G % IdxMod)
             r == G % Size
             n == MinOf(sndbuf, lin)
  <1>1. lin \in Nat /\ lin <= P - G /\ r + lin <= Size
    BY LinearFits, Zenon
  <1>2. r \in Nat
    BY RemainderType DEF Moduli
  <1>3. sndbuf \in Nat
    BY DEF RingTypes
  <1> HIDE DEF lin, r
  <1>4. n \in Nat /\ n <= lin
    BY <1>1, <1>3 DEF MinOf
  <1> HIDE DEF n
  <1>5. n <= P - G /\ r + n <= Size
    BY <1>1, <1>2, <1>4, RingSizes
  <1> QED BY <1>5, Zenon DEF n, r, lin

(* A send, step by step: the stretch is chosen, handed to TCP, released.   *)
LEMMA SendsInTurn ==
    ASSUME RingTypes, RingTypes', InTurn, NEW t \in Threads, Send(t)
    PROVE  InTurn'
  <1>1. /\ pc[t] # "idle" /\ \A u \in Threads : u # t => pc'[u] = pc[u]
    BY DEF Send, SendStart, TcpWrite, TcpWriteFails, Advance, Return, RingTypes
  <1>2. Only(t) /\ Only(t)'
    BY <1>1 DEF InTurn, Only
  <1>3. PICK P, G \in Nat : At(P, G)
    BY DEF InTurn
  <1>4. AtOf(P, G, t)
    BY <1>2, <1>3, AtOne
  <1>5. /\ G <= P /\ P <= G + Size /\ put = P % IdxMod /\ get = G % IdxMod
        /\ fresh = P % Tags /\ \A p \in G..(P - 1) : buf[p % Size] = p % Tags
    BY <1>4 DEF AtOf
  <1>6. /\ pc \in [Threads -> {"idle", "start"} \cup Writing \cup Written]
        /\ send_len[t] \in Nat /\ G + 0 = G /\ intact
    BY DEF RingTypes, InTurn
  <1>7. expect = (G + HandedBy(t)) % Tags
    BY <1>4 DEF AtOf
  <1>8. ASSUME pc[t] \notin Written, Return(t),
               UNCHANGED <<put, get, buf, fresh, expect, intact>>
        PROVE  InTurn'
    <2>1. pc'[t] = "idle"
      BY <1>6, <1>8 DEF Return
    <2>2. HandedBy(t) = 0 /\ HandedBy(t)' = 0
      BY <1>8, <2>1 DEF HandedBy, Written
    <2>3. pc'[t] \notin Writing \cup Written /\ pc'[t] \notin Writing
      BY <2>1 DEF Writing, Written
    <2>4. expect' = (G + HandedBy(t)') % Tags
      BY <1>7, <1>8, <2>2, Zenon
    <2>5. AtOf(P, G, t)'
      BY <1>5, <1>8, <2>3, <2>4, Zenon DEF AtOf
    <2> QED BY <1>2, <1>6, <1>8, <2>5, AtOneAfter, Zenon
  <1>9. CASE SendStart(t)
    <2>1. pc[t] = "start" /\ UNCHANGED <<put, get, buf, fresh, expect, intact>>
      BY <1>9 DEF SendStart, ring
    <2>2. CASE Return(t)
      BY <1>8, <2>1, <2>2 DEF Written
    <2>3. CASE ~Return(t)
      <3> DEFINE n == MinOf(sndbuf, LinearLength(G % IdxMod))
      <3>1. pc'[t] = "write" /\ send_len'[t] = n
        BY <1>5, <1>6, <1>9, <2>3 DEF SendStart, RingTypes
      <3>2. n <= P - G /\ (G % Size) + n <= Size
        BY <1>5, StretchChosen, Zenon
      <3> HIDE DEF n
      <3>3. HandedBy(t) = 0 /\ HandedBy(t)' = 0
        BY <2>1, <3>1 DEF HandedBy, Written
      <3>4. expect' = (G + HandedBy(t)') % Tags
        BY <1>7, <2>1, <3>3, Zenon
      <3>5. AtOf(P, G, t)'
        BY <1>5, <2>1, <3>1, <3>2, <3>4, Zenon DEF AtOf
      <3> QED BY <1>2, <1>6, <2>1, <3>5, AtOneAfter, Zenon
    <2> QED BY <2>2, <2>3
  <1>10. CASE TcpWrite(t)
    <2> DEFINE n == send_len[t]
    <2>1. /\ pc[t] \in Writing /\ pc'[t] \in Written
          /\ send_len' = send_len /\ expect' = (expect + n) % Tags
          /\ UNCHANGED <<put, get, buf, fresh>>
      BY <1>6, <1>10 DEF TcpWrite, ring, Writing, Written
    <2>2. n <= P - G /\ (G % Size) + n <= Size
      BY <1>4, <2>1 DEF AtOf
    <2>3. HandedBy(t) = 0 /\ HandedBy(t)' = n
      BY <2>1 DEF HandedBy, Writing, Written
    <2>4. expect = G % Tags
      BY <1>6, <1>7, <2>3, Zenon
    <2>5. InOrder(n)
      BY <1>5, <1>6, <2>2, <2>4, StretchInOrder, Zenon
    <2>6. intact'
      BY <1>6, <1>10, <2>5, Zenon DEF TcpWrite
    <2>7. expect' = (G + HandedBy(t)') % Tags
      BY <1>6, <2>1, <2>3, <2>4, RemainderOfSum, ZenonT(60) DEF Moduli
    <2>8. pc'[t] \notin Writing
      BY <2>1 DEF Writing, Written
    <2>9. AtOf(P, G, t)'
      BY <1>5, <2>1, <2>2, <2>7, <2>8, Zenon DEF AtOf
    <2> QED BY <1>2, <2>6, <2>9, AtOneAfter, Zenon
  <1>11. CASE TcpWriteFails(t)
    <2>1. /\ pc[t] \notin Written /\ Return(t)
          /\ UNCHANGED <<put, get, buf, fresh, expect, intact>>
      BY <1>11 DEF TcpWriteFails, ring, Written
    <2> QED BY <1>8, <2>1, Zenon
  <1>12. CASE Advance(t)
    <2>0. PICK n \in Nat : n = send_len[t]
      BY <1>6
    <2>1. /\ pc[t] \in Written /\ get' = (get + n) % IdxMod
          /\ UNCHANGED <<put, buf, fresh, expect, intact>>
      BY <1>12, <2>0 DEF Advance, Written
    <2>2. n <= P - G
      BY <1>4, <2>0, <2>1 DEF AtOf
    <2>3. /\ G + n \in Nat /\ G + n <= P /\ P <= (G + n) + Size
          /\ (G + n) + 0 = G + n /\ \A p \in (G + n)..(P - 1) : p \in G..(P - 1)
      BY <1>5, <1>6, <2>2, RingSizes
    <2>4. get' = (G + n) % IdxMod
      BY <1>5, <1>6, <2>1, RemainderOfSum, Zenon DEF Moduli
    <2>5. HandedBy(t) = n
      BY <2>0, <2>1 DEF HandedBy
    <2>6. pc'[t] \notin Written
      BY <1>6, <1>12 DEF Advance, Return, Written
    <2>7. HandedBy(t)' = 0
      BY <2>6 DEF HandedBy
    <2>8. expect' = ((G + n) + HandedBy(t)') % Tags
      BY <1>7, <2>1, <2>3, <2>5, <2>7, Zenon
    <2>9. \A p \in (G + n)..(P - 1) : buf'[p % Size] = p % Tags
      BY <1>5, <2>1, <2>3, Zenon
    <2>10. pc'[t] \in Writing => /\ send_len'[t] <= P - (G + n)
                                 /\ ((G + n) % Size) + send_len'[t] <= Size
      <3> SUFFICES ASSUME pc'[t] \in Writing
                   PROVE  /\ send_len'[t] <= P - (G + n)
                          /\ ((G + n) % Size) + send_len'[t] <= Size
        OBVIOUS
      <3>1. ~Return(t)
        BY <1>6 DEF Return, Writing
      <3>2. send_len'[t] = MinOf(sndbuf, LinearLength((get + n) % IdxMod))
        BY <1>6, <1>12, <2>0, <3>1 DEF Advance, RingTypes
      <3>3. send_len'[t] = MinOf(sndbuf, LinearLength((G + n) % IdxMod))
        BY <2>1, <2>4, <3>2, Zenon
      <3> QED BY <1>5, <2>3, <3>3, StretchChosen, Zenon
    <2>11. AtOf(P, G + n, t)'
      BY <1>5, <2>1, <2>3, <2>4, <2>6, <2>8, <2>9, <2>10, Zenon DEF AtOf
    <2> QED BY <1>2, <1>6, <2>1, <2>3, <2>11, AtOneAfter, Zenon
  <1> QED BY <1>9, <1>10, <1>11, <1>12 DEF Send

-----------------------------------------------------------------------------
(* The empty ring of a new client is in turn: nothing appended or released.*)
LEMMA RingInvInit == Init => RingInv
  <1> SUFFICES ASSUME Init PROVE RingInv
    OBVIOUS
  <1>1. RingTypes
    BY RingAssumption DEF Init, RingTypes
  <1>2. /\ put = 0 /\ get = 0 /\ fresh = 0 /\ expect = 0
        /\ \A t \in Threads : pc[t] = "idle"
    BY DEF Init
  <1>3. intact
    BY Zenon DEF Init
  <1>4. 0 % IdxMod = 0 /\ 0 % Tags = 0 /\ 0 \in Nat /\ 0 + 0 = 0
    BY RingSizes
  <1>5. /\ 0 <= 0 /\ 0 <= 0 + Size /\ \A p \in 0..(0 - 1) : FALSE
    BY RingSizes
  <1>6. /\ "comm" \in Threads /\ HandedBy("comm") = 0 /\ Only("comm")
        /\ pc["comm"] \notin Writing \cup Written /\ pc["comm"] \notin Writing
    BY <1>2 DEF Threads, HandedBy, Only, Writing, Written
  <1>7. AtOf(0, 0, "comm")
    BY <1>2, <1>4, <1>5, <1>6, Zenon DEF AtOf
  <1>8. At(0, 0)
    BY <1>1, <1>4, <1>6, <1>7, AtOne, Zenon
  <1>9. \A t, u \in Threads : t # u => pc[t] = "idle" \/ pc[u] = "idle"
    BY <1>2
  <1> QED BY <1>1, <1>3, <1>4, <1>8, <1>9, Zenon DEF RingInv, InTurn

(* Every step of the two threads keeps the invariant.                      *)
LEMMA RingInvKept == RingInv /\ [Next]_vars => RingInv'
  <1> SUFFICES ASSUME RingInv, [Next]_vars PROVE RingInv'
    OBVIOUS
  <1>1. RingTypes /\ RingTypes'
    BY RingTypesKept DEF RingInv
  <1>2. preempt' = preempt
    BY Zenon DEF Next, vars
  <1>3. ASSUME ~preempt PROVE InTurn'
    <2>1. InTurn
      BY <1>3 DEF RingInv
    <2>2. CASE (\E n \in Lengths : Publish(n)) \/ Reconnect \/ TcpSent \/ TcpPoll
      BY <1>1, <1>3, <2>1, <2>2, CallsInTurn, Zenon
    <2>3. ASSUME NEW t \in Threads, Send(t) PROVE InTurn'
      BY <1>1, <2>1, <2>3, SendsInTurn, Zenon
    <2>4. CASE UNCHANGED vars
      <3>1. /\ put' = put /\ get' = get /\ buf' = buf /\ fresh' = fresh
            /\ expect' = expect /\ pc' = pc /\ send_len' = send_len
            /\ intact' = intact
        BY <2>4, Zenon DEF vars, sysVars, ring, locals
      <3>2. PICK P, G \in Nat : At(P, G)
        BY <2>1 DEF InTurn
      <3>3. Handed' = Handed
        BY <3>1 DEF Handed, HandedBy
      <3>4. At(P, G)'
        BY <3>1, <3>2, <3>3, Zenon DEF At
      <3> QED BY <2>1, <3>1, <3>4, Zenon DEF InTurn
    <2> QED BY <2>2, <2>3, <2>4, Zenon DEF Next
  <1> QED BY <1>1, <1>2, <1>3, Zenon DEF RingInv

(* The broker gets the bytes of the messages in order, whatever the sizes  *)
(* of the ring, of its indices, of TCP's buffer and of the messages, while *)
(* no send is interrupted (mqtt.c:198-244).                                *)
THEOREM RingStreamIntact == Spec => []StreamIntact
  <1>1. RingInv => StreamIntact
    BY Zenon DEF RingInv, InTurn, StreamIntact
  <1> QED BY <1>1, RingInvInit, RingInvKept, PTL DEF Spec

(* The ring holds at most its size and, between two sends, exactly the     *)
(* bytes TCP has not got (mqtt.c:182-196, 483-497).                        *)
THEOREM RingHoldsRest == Spec => []RingHoldsTheRest
  <1>1. RingInv => RingHoldsTheRest
    <2> SUFFICES ASSUME RingInv, ~preempt
                 PROVE  /\ mqtt_ringbuf_len <= Size
                        /\ (\A t \in Threads : pc[t] \in {"idle", "start"}) =>
                              /\ (fresh - expect) % Tags = mqtt_ringbuf_len
                              /\ \A k \in 0..(mqtt_ringbuf_len - 1) :
                                    buf[(get + k) % Size] = (expect + k) % Tags
      BY DEF RingHoldsTheRest
    <2>1. PICK P, G \in Nat : At(P, G)
      BY DEF RingInv, InTurn
    <2>2. /\ G <= P /\ P <= G + Size /\ put = P % IdxMod /\ get = G % IdxMod
          /\ fresh = P % Tags /\ expect = (G + Handed) % Tags
          /\ \A p \in G..(P - 1) : buf[p % Size] = p % Tags
      BY <2>1 DEF At
    <2>3. mqtt_ringbuf_len = P - G
      BY <2>2, RingLength, Zenon DEF mqtt_ringbuf_len
    <2>4. mqtt_ringbuf_len <= Size
      BY <2>2, <2>3, RingSizes
    <2>5. ASSUME \A t \in Threads : pc[t] \in {"idle", "start"}
          PROVE  /\ (fresh - expect) % Tags = P - G
                 /\ \A k \in 0..((P - G) - 1) :
                       buf[(get + k) % Size] = (expect + k) % Tags
      <3>1. Handed = 0 /\ G + 0 = G
        BY <2>5 DEF Handed, HandedBy, Threads, Written
      <3>2. expect = G % Tags
        BY <2>2, <3>1, Zenon
      <3>3. (fresh - expect) % Tags = P - G
        BY <2>2, <3>2, RingLength, Zenon
      <3>4. ASSUME NEW k \in 0..((P - G) - 1)
            PROVE  buf[(get + k) % Size] = (expect + k) % Tags
        <4>1. k \in Nat /\ G + k \in G..(P - 1) /\ G + k \in Nat
          BY <2>2, <3>4
        <4>2. (expect + k) % Tags = (G + k) % Tags
          BY <3>2, <4>1, RemainderOfSum, Zenon DEF Moduli
        <4>3. (get + k) % Size = (G + k) % Size
          <5>1. get \in Nat /\ get + k \in Nat
            BY <4>1 DEF RingInv, RingTypes
          <5>2. (get + k) % Size = ((get % Size) + k) % Size
            BY <4>1, <5>1, RemainderOfSum, Zenon DEF Moduli
          <5>3. get % Size = G % Size
            BY <2>2, PlaceOfIndex, Zenon
          <5>4. ((G % Size) + k) % Size = (G + k) % Size
            BY <4>1, RemainderOfSum, Zenon DEF Moduli
          <5> QED BY <5>2, <5>3, <5>4, Zenon
        <4> QED BY <2>2, <4>1, <4>2, <4>3, Zenon
      <3> QED BY <3>3, <3>4, Zenon
    <2> QED BY <2>3, <2>4, <2>5, Zenon
  <1> QED BY <1>1, RingInvInit, RingInvKept, PTL DEF Spec
=============================================================================
