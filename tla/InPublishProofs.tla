--------------------------- MODULE InPublishProofs ---------------------------
(***************************************************************************)
(* Proofs about InPublish for every size of the buffers, every base of the *)
(* length bytes and all payload lengths that two of them can express.      *)
(*                                                                         *)
(* The invariant says where the parser stands in the stream: the bytes not *)
(* yet parsed are the rest of one message and then whole messages, the     *)
(* fixed header is in rx_buffer as far as it came, the window behind it    *)
(* holds the bytes copied since it was last passed on, and what was passed *)
(* on is in sub.                                                           *)
(***************************************************************************)
EXTENDS InPublish, SequenceTheorems, TLAPS

Payloads == {Payload(n, id) : n \in Lengths, id \in 1..MaxMsgs}

(* A message is given by the sequence of the payloads it carries: one in a *)
(* PUBLISH, none in a SUBACK.                                              *)
Contents == {<<>>} \cup {<<p>> : p \in Payloads}

Bytes(q) ==
    IF q = <<>> THEN <<SUBACK, 3, 0, 1, 0>>
    ELSE <<PUBLISH>> \o LengthBytes(Len(q[1]) + 3) \o <<0, 1, TOPIC>> \o q[1]

HeaderLength(q) == IF q = <<>> \/ Len(q[1]) + 3 < Base THEN 2 ELSE 3

(* Bytes s are whole messages that carry the payloads r: the least         *)
(* relation that holds of nothing and is kept by appending a message.      *)
Stream == Seq(Int)
Pending == Seq(Seq(Int))
Closed(R) ==
    /\ <<<<>>, <<>>>> \in R
    /\ \A s \in Stream, r \in Pending, q \in Contents :
          <<s, r>> \in R => <<s \o Bytes(q), r \o q>> \in R
Framed(s, r) ==
    /\ s \in Stream /\ r \in Pending
    /\ \A R \in SUBSET (Stream \X Pending) : Closed(R) => <<s, r>> \in R

-----------------------------------------------------------------------------
(* The parser between two messages.                                        *)
Between ==
    /\ msg_idx = 0 /\ Framed(chunk \o stream, inflight)
    /\ chunk # <<>> => fixed_hdr_idx = 0 /\ msg_rem_len = 0

(* The place in rx_buffer of the next byte behind a fixed header of h      *)
(* bytes.                                                                  *)
Place(h) == ((msg_idx - h) % (BufLen - h)) + h

(* A sequence without its first k elements.                                *)
Rest(m, k) == SubSeq(m, k + 1, Len(m))

(* Where the parser stands in message m, which carries q; messages t that  *)
(* carry r follow it.                                                      *)
Position(m, q, t, r) ==
    /\ t \in Stream /\ r \in Pending /\ Framed(t, r)
    /\ msg_idx \in 0..(Len(m) - 1)
    /\ Rest(m, msg_idx) \o t = chunk \o stream
    /\ inflight = q \o r

Header(h, m) == \A j \in 0..(h - 1) : j < msg_idx => rx_buffer[j] = m[j + 1]

(* The locals, which exist while a pbuf is being parsed.                   *)
Locals(h, m) ==
    /\ fixed_hdr_idx \in 0..h /\ fixed_hdr_idx <= msg_idx
    /\ fixed_hdr_idx < 2 => msg_rem_len = 0
    /\ fixed_hdr_idx = 2 /\ h = 3 => b = m[2] /\ msg_rem_len = m[2] % Base
    /\ fixed_hdr_idx = h => b < Base /\ msg_rem_len = Len(m) - msg_idx

(* What the window behind the header holds, and what was passed on.        *)
Copied(h, m) ==
    \A i \in h..(Place(h) - 1) : rx_buffer[i] = m[msg_idx - Place(h) + i + 1]

PassedOn(h, q) ==
    LET d == msg_idx - Place(h)
    IN  q # <<>> /\ d > 0 =>
          /\ d > 3
          /\ incoming_publish <=> Len(q[1]) <= SubCap
          /\ incoming_publish => sub = SubSeq(q[1], 1, d - 3)

Window(h, m, q) == msg_idx >= h => Copied(h, m) /\ PassedOn(h, q)

Within(h, m, q, t, r) ==
    /\ q \in Contents /\ m = Bytes(q) /\ h = HeaderLength(q)
    /\ Position(m, q, t, r) /\ Header(h, m) /\ Window(h, m, q)
    /\ chunk # <<>> => Locals(h, m)

(* The types, and the two histories that OnlyEmptyRefused is about.        *)
Types ==
    /\ stream \in Stream /\ chunk \in Stream /\ inflight \in Pending
    /\ rx_buffer \in [0..(BufLen - 1) -> Int]
    /\ fixed_hdr_idx \in Nat /\ b \in Int /\ msg_rem_len \in Int
    /\ msg_idx \in Nat /\ sent \in 0..MaxMsgs
    /\ incoming_publish \in BOOLEAN /\ rejected = FALSE /\ bailed = FALSE

IInv == Types /\ (Between \/ \E h, m, q, t, r : Within(h, m, q, t, r))

-----------------------------------------------------------------------------
(* Arithmetic.                                                             *)

(* Quotient and remainder.                                                 *)
LEMMA Division ==
    ASSUME NEW n \in Nat, NEW d \in Nat, d > 0
    PROVE  n % d \in 0..(d - 1) /\ n \div d \in Nat /\ n = d * (n \div d) + (n % d)
  <1>1. n = d * (n \div d) + (n % d)
    OBVIOUS
  <1>2. n % d \in 0..(d - 1) /\ n \div d \in Int
    OBVIOUS
  <1>3. n \div d >= 0
    <2>1. PICK k, w : k = n \div d /\ w = n % d
      OBVIOUS
    <2>2. k \in Int /\ w \in 0..(d - 1) /\ n = d * k + w
      BY <1>1, <1>2, <2>1
    <2>3. ASSUME k < 0 PROVE FALSE
      <3>1. PICK e \in Nat : e = 0 - k - 1
        BY <2>2, <2>3
      <3>2. d * k = 0 - d * e - d /\ d * e \in Nat
        BY <2>2, <3>1
      <3> QED BY <2>2, <3>2
    <2> QED BY <2>1, <2>2, <2>3
  <1> QED BY <1>1, <1>2, <1>3

(* The remainder of a number below the divisor, and one divisor above it.  *)
LEMMA SmallMod ==
    ASSUME NEW d \in Nat, NEW n \in 0..(d - 1)
    PROVE  n % d = n /\ (d + n) % d = n
  OBVIOUS

(* The place in the window after n more bytes, and how it relates to the   *)
(* number of bytes v.                                                      *)
LEMMA PlaceMoves ==
    ASSUME NEW d \in Nat, d > 0, NEW v \in Nat
    PROVE  /\ v % d \in 0..(d - 1) /\ v % d <= v
           /\ v % d # v => v >= d
           /\ \A n \in Nat : (v % d) + n < d => (v + n) % d = (v % d) + n
           /\ \A n \in Nat : (v % d) + n = d => (v + n) % d = 0
  <1>1. PICK w, k : w = v % d /\ k = v \div d
    OBVIOUS
  <1>2. w \in 0..(d - 1) /\ k \in Nat /\ v = d * k + w
    BY <1>1, Division
  <1>3. w <= v
    BY <1>2
  <1>4. w # v => v >= d
    BY <1>1, <1>2
  <1>5. ASSUME NEW n \in Nat, w + n < d PROVE (v + n) % d = w + n
    BY <1>2, <1>5
  <1>6. ASSUME NEW n \in Nat, w + n = d PROVE (v + n) % d = 0
    <2>1. PICK x, e, s : x = v + n /\ e = x \div d /\ s = x % d
      OBVIOUS
    <2>2. x \in Nat /\ s \in 0..(d - 1) /\ e \in Nat /\ x = d * e + s
      BY <2>1, Division
    <2>3. d * k \in Int /\ d * e \in Int
      BY <1>2, <2>2
    <2>4. x = d * k + d
      BY <1>2, <1>6, <2>1, <2>3
    <2>5. PICK g \in Int : g = k + 1 - e
      BY <1>2, <2>2
    <2>6. d * g = d * k + d - d * e
      BY <1>2, <2>2, <2>5
    <2>7. d * g = s
      <3>1. PICK y, z \in Int : y = d * k /\ z = d * e
        BY <2>3
      <3> QED BY <2>2, <2>4, <2>6, <3>1
    <2>8. g = 0
      BY <2>2, <2>7
    <2> QED BY <2>1, <2>7, <2>8
  <1> QED
    BY <1>1, <1>2, <1>3, <1>4, <1>5, <1>6

-----------------------------------------------------------------------------
(* The messages of the broker.                                             *)

(* A payload is a sequence whose length the length bytes can express.      *)
LEMMA PayloadFacts ==
    ASSUME NEW p \in Payloads
    PROVE  p \in Seq(Int) /\ Len(p) \in Nat /\ Len(p) <= Base * Base - 4
  <1>1. PICK n \in Lengths, id \in 1..MaxMsgs : p = Payload(n, id)
    BY DEF Payloads
  <1>2. n \in Nat /\ n <= Base * Base - 4 /\ id \in Int
    BY InPublishAssumption
  <1>3. p = [i \in 1..n |-> 100 * id + i]
    BY <1>1 DEF Payload
  <1>4. \A i \in 1..n : 100 * id + i \in Int
    BY <1>2
  <1>5. p \in Seq(Int) /\ Len(p) = n
    BY <1>2, <1>3, <1>4
  <1> QED
    BY <1>2, <1>5

(* Two length bytes of n: the first has its high bit set, and n is read    *)
(* back from them.                                                         *)
LEMMA TwoBytes ==
    ASSUME NEW n \in Nat, n >= Base, n < Base * Base
    PROVE  /\ n % Base \in 0..(Base - 1) /\ n \div Base \in 0..(Base - 1)
           /\ (Base + (n % Base)) % Base = n % Base
           /\ (n % Base) + Base * (n \div Base) = n
  <1>1. Base \in Nat /\ Base > 0
    BY InPublishAssumption
  <1>2. PICK x, k : x = n % Base /\ k = n \div Base
    OBVIOUS
  <1>3. x \in 0..(Base - 1) /\ k \in Nat /\ n = Base * k + x
    BY <1>1, <1>2, Division
  <1>4. k < Base
    <2> SUFFICES ASSUME k >= Base PROVE FALSE
      BY <1>1, <1>3
    <2>1. PICK e \in Nat : k = Base + e
      BY <1>1, <1>3
    <2>2. Base * k = Base * Base + Base * e /\ Base * e \in Nat
      BY <1>1, <2>1
    <2> QED BY <1>1, <1>3, <2>2
  <1>5. (Base + x) % Base = x
    BY <1>1, <1>3, SmallMod
  <1>6. Base * k \in Int
    BY <1>1, <1>3
  <1>7. x + Base * k = n
    BY <1>1, <1>3, <1>6
  <1>8. k \in 0..(Base - 1)
    BY <1>1, <1>3, <1>4
  <1> QED
    BY <1>2, <1>3, <1>5, <1>7, <1>8

(* The fixed header of a message of h bytes announces the length of the    *)
(* rest.                                                                   *)
Announced(h, m) ==
    /\ m \in Seq(Int) /\ h \in {2, 3} /\ Len(m) \in Nat /\ Len(m) > h
    /\ h = 2 => m[2] \in 0..(Base - 1) /\ m[2] = Len(m) - 2
    /\ h = 3 => /\ m[2] >= Base /\ m[3] \in 0..(Base - 1)
                /\ (m[2] % Base) + Base * m[3] = Len(m) - 3

Carries(h, m, p) ==
    /\ p \in Seq(Int) /\ Len(p) \in Nat
    /\ m[1] = PUBLISH /\ Len(m) = h + 3 + Len(p)
    /\ m[h + 1] = 0 /\ m[h + 2] = 1
    /\ \A i \in 1..Len(p) : m[h + 3 + i] = p[i]

(* Sequences of bytes are concatenated in any order.                       *)
LEMMA Associative ==
    ASSUME NEW s \in Seq(Int), NEW t \in Seq(Int), NEW u \in Seq(Int)
    PROVE  (s \o t) \o u = s \o (t \o u)
  BY ConcatAssociative, SMTT(40)

(* And so are sequences of messages.                                       *)
LEMMA AssociativePending ==
    ASSUME NEW s \in Seq(Seq(Int)), NEW t \in Seq(Seq(Int)), NEW u \in Seq(Seq(Int))
    PROVE  (s \o t) \o u = s \o (t \o u)
  BY ConcatAssociative, SMTT(40)

(* Two parts in a row, by their bytes.                                     *)
LEMMA Glue ==
    ASSUME NEW x \in Seq(Int), NEW y \in Seq(Int), NEW u, u = x \o y, NEW c, c = Len(x)
    PROVE  /\ u \in Seq(Int) /\ c \in Nat /\ Len(y) \in Nat
           /\ Len(u) = c + Len(y)
           /\ \A i \in 1..c : u[i] = x[i]
           /\ \A i \in 1..Len(y) : u[c + i] = y[i]
  <1>1. c \in Nat /\ Len(y) \in Nat
    BY LenProperties
  <1>2. /\ u \in Seq(Int)
        /\ Len(u) = c + Len(y)
        /\ \A i \in 1..(c + Len(y)) : u[i] = IF i <= c THEN x[i] ELSE y[i - c]
    BY ConcatProperties
  <1>3. PICK d : d = Len(y)
    BY Zenon
  <1>4. ASSUME NEW i \in 1..c PROVE u[i] = x[i]
    <2>1. i \in 1..(c + d) /\ i <= c
      BY <1>1, <1>3
    <2> QED BY <1>2, <1>3, <2>1
  <1>5. ASSUME NEW i \in 1..d PROVE u[c + i] = y[i]
    <2>1. c + i \in 1..(c + d) /\ ~(c + i <= c) /\ (c + i) - c = i
      BY <1>1, <1>3
    <2>2. u[c + i] = y[(c + i) - c]
      BY <1>2, <1>3, <2>1
    <2> QED BY <2>1, <2>2
  <1> QED
    BY <1>1, <1>2, <1>3, <1>4, <1>5

(* A PUBLISH with length bytes x: its header has h bytes.                  *)
LEMMA Parts ==
    ASSUME NEW x \in Seq(Int), NEW p \in Seq(Int), NEW h, h = 1 + Len(x),
           NEW m, m = <<PUBLISH>> \o x \o <<0, 1, TOPIC>> \o p
    PROVE  /\ m \in Seq(Int) /\ h \in Nat
           /\ \A i \in 1..Len(x) : m[1 + i] = x[i]
           /\ Carries(h, m, p)
  <1>0. Len(p) \in Nat /\ Len(x) \in Nat /\ h \in Nat
    BY LenProperties
  <1>1. PICK a, y, u, v : /\ a = <<PUBLISH>> /\ y = <<0, 1, TOPIC>>
                          /\ u = a \o x /\ v = u \o y
    BY Zenon
  <1>2. /\ a \in Seq(Int) /\ Len(a) = 1 /\ a[1] = PUBLISH
        /\ y \in Seq(Int) /\ Len(y) = 3 /\ y[1] = 0 /\ y[2] = 1
    BY <1>1 DEF PUBLISH, TOPIC
  <1>3. /\ u \in Seq(Int) /\ Len(u) = 1 + Len(x)
        /\ \A i \in 1..1 : u[i] = a[i]
        /\ \A i \in 1..Len(x) : u[1 + i] = x[i]
    BY <1>1, <1>2, Glue
  <1>4. h = Len(u)
    BY <1>3
  <1>5. /\ v \in Seq(Int) /\ Len(v) = h + 3
        /\ \A i \in 1..h : v[i] = u[i]
        /\ \A i \in 1..3 : v[h + i] = y[i]
    BY <1>1, <1>2, <1>3, <1>4, Glue
  <1>6. PICK g : g = h + 3
    OBVIOUS
  <1>7. m = v \o p /\ g = Len(v) /\ g \in Nat
    BY <1>0, <1>1, <1>5, <1>6
  <1>8. /\ m \in Seq(Int) /\ Len(m) = g + Len(p)
        /\ \A i \in 1..g : m[i] = v[i]
        /\ \A i \in 1..Len(p) : m[g + i] = p[i]
    <2>1. p \in Seq(Int) /\ v \in Seq(Int)
      BY <1>5
    <2> QED BY ONLY <1>7, <2>1, Glue
  <1>9. ASSUME NEW i \in 1..Len(x) PROVE m[1 + i] = x[i]
    <2>1. 1 + i \in 1..h /\ 1 + i \in 1..g
      BY <1>0, <1>6
    <2> QED BY <1>3, <1>5, <1>8, <2>1
  <1>10. m[1] = PUBLISH /\ m[h + 1] = 0 /\ m[h + 2] = 1
    <2>1. 1 \in 1..1 /\ 1 \in 1..h /\ 1 \in 1..g /\ h + 1 \in 1..g /\ h + 2 \in 1..g
      BY <1>0, <1>6
    <2>2. 1 \in 1..3 /\ 2 \in 1..3
      OBVIOUS
    <2>3. m[1] = PUBLISH
      BY <1>2, <1>3, <1>5, <1>8, <2>1
    <2>4. m[h + 1] = v[h + 1] /\ m[h + 2] = v[h + 2]
      BY <1>8, <2>1
    <2>5. v[h + 1] = y[1] /\ v[h + 2] = y[2]
      BY <1>5, <2>2
    <2> QED BY <1>2, <2>3, <2>4, <2>5, Zenon
  <1>11. Carries(h, m, p)
    BY <1>0, <1>6, <1>8, <1>10, Zenon DEF Carries
  <1> QED
    BY <1>0, <1>8, <1>9, <1>11, Zenon

(* The PUBLISH of the broker.                                              *)
LEMMA PublishShape ==
    ASSUME NEW p \in Payloads, NEW m, m = Bytes(<<p>>), NEW h, h = HeaderLength(<<p>>)
    PROVE  Announced(h, m) /\ Carries(h, m, p)
  <1>0. /\ p \in Seq(Int) /\ Len(p) \in Nat /\ Len(p) <= Base * Base - 4
        /\ Base \in Nat /\ Base > 5
    BY PayloadFacts, InPublishAssumption
  <1>1. PICK n : n = Len(p) + 3
    OBVIOUS
  <1>2. n \in Nat /\ n < Base * Base /\ n >= 3
    BY <1>0, <1>1
  <1>3. PICK x : x = LengthBytes(n)
    OBVIOUS
  <1>4. m = <<PUBLISH>> \o x \o <<0, 1, TOPIC>> \o p
    BY <1>1, <1>3, Zenon DEF Bytes
  <1>5. h = IF n < Base THEN 2 ELSE 3
    BY <1>1 DEF HeaderLength
  <1>7. CASE n < Base
    <2>1. x \in Seq(Int) /\ Len(x) = 1 /\ x[1] = n /\ h = 2 /\ h = 1 + Len(x)
      BY <1>2, <1>3, <1>5, <1>7 DEF LengthBytes
    <2>2. /\ m \in Seq(Int) /\ Carries(h, m, p)
          /\ \A i \in 1..Len(x) : m[1 + i] = x[i]
      <3>1. x \in Seq(Int) /\ h = 1 + Len(x)
        BY <2>1
      <3> QED BY ONLY <1>0, <1>4, <3>1, Parts, ZenonT(40)
    <2>3. m[2] = n
      BY <2>1, <2>2
    <2>4. Len(m) = h + 3 + Len(p)
      BY <2>2 DEF Carries
    <2>5. Announced(h, m)
      BY <1>0, <1>1, <1>2, <1>7, <2>1, <2>2, <2>3, <2>4 DEF Announced
    <2> QED BY <2>2, <2>5
  <1>8. CASE n >= Base
    <2>0. PICK z, l : z = n % Base /\ l = n \div Base
      OBVIOUS
    <2>1. /\ z \in 0..(Base - 1) /\ l \in 0..(Base - 1)
          /\ (Base + z) % Base = z /\ z + Base * l = n
      BY <1>2, <1>8, <2>0, TwoBytes
    <2>2. PICK k : k = Base + z
      OBVIOUS
    <2>3. k \in Nat /\ k >= Base /\ k % Base = z
      BY <1>0, <2>1, <2>2
    <2>4. x = <<k, l>> /\ h = 3
      BY <1>0, <1>2, <1>3, <1>5, <1>8, <2>0, <2>2 DEF LengthBytes
    <2>5. x \in Seq(Int) /\ Len(x) = 2 /\ x[1] = k /\ x[2] = l /\ h = 1 + Len(x)
      BY <2>1, <2>3, <2>4
    <2>6. /\ m \in Seq(Int) /\ Carries(h, m, p)
          /\ \A i \in 1..Len(x) : m[1 + i] = x[i]
      <3>1. x \in Seq(Int) /\ h = 1 + Len(x)
        BY <2>5
      <3> QED BY ONLY <1>0, <1>4, <3>1, Parts, ZenonT(40)
    <2>7. m[2] = k /\ m[3] = l
      BY <2>5, <2>6
    <2>8. Len(m) = h + 3 + Len(p)
      BY <2>6 DEF Carries
    <2>9. Len(m) = n + 3 /\ Len(m) \in Nat /\ Len(m) > h
      <3>1. Len(p) \in Nat
        BY <1>0
      <3> QED BY ONLY <1>1, <2>4, <2>8, <3>1
    <2>10. (m[2] % Base) + Base * m[3] = n
      BY <2>1, <2>3, <2>7
    <2>11. n = Len(m) - 3
      BY <1>2, <2>9
    <2>12. Announced(h, m)
      BY <2>1, <2>3, <2>4, <2>6, <2>7, <2>9, <2>10, <2>11 DEF Announced
    <2> QED BY <2>6, <2>12
  <1> QED
    BY <1>0, <1>2, <1>7, <1>8

(* Every message announces its length; a SUBACK is not taken for a PUBLISH.*)
LEMMA MessageShape ==
    ASSUME NEW q \in Contents, NEW m, m = Bytes(q), NEW h, h = HeaderLength(q)
    PROVE  /\ Announced(h, m) /\ q \in Seq(Seq(Int))
           /\ q = <<>> => m[1] # PUBLISH
           /\ q # <<>> => q[1] \in Payloads /\ q = <<q[1]>> /\ Carries(h, m, q[1])
  <1>1. CASE q = <<>>
    <2>1. m = <<SUBACK, 3, 0, 1, 0>> /\ h = 2
      BY <1>1 DEF Bytes, HeaderLength
    <2>2. m \in Seq(Int) /\ Len(m) = 5 /\ m[1] = SUBACK /\ m[2] = 3
      BY <2>1 DEF SUBACK
    <2>3. Announced(h, m)
      BY <2>1, <2>2, InPublishAssumption DEF Announced
    <2>4. m[1] # PUBLISH
      BY <2>2 DEF SUBACK, PUBLISH
    <2> QED BY <1>1, <2>3, <2>4
  <1>2. CASE q # <<>>
    <2>1. PICK p \in Payloads : q = <<p>>
      BY <1>2 DEF Contents
    <2>2. Announced(h, m) /\ Carries(h, m, p)
      BY <2>1, PublishShape
    <2>3. p = q[1] /\ p \in Seq(Int)
      BY <2>1, PayloadFacts
    <2>4. q \in Seq(Seq(Int))
      BY <2>1, <2>3
    <2> QED BY <1>2, <2>1, <2>2, <2>3, <2>4
  <1> QED
    BY <1>1, <1>2

-----------------------------------------------------------------------------
(* Streams of whole messages.                                              *)

(* The bytes and the payloads of a message are sequences.                  *)
LEMMA MessageTypes ==
    ASSUME NEW q \in Contents
    PROVE  Bytes(q) \in Stream /\ q \in Pending /\ Bytes(q) # <<>>
  <1>1. PICK m, h : m = Bytes(q) /\ h = HeaderLength(q)
    OBVIOUS
  <1>2. Announced(h, m) /\ q \in Seq(Seq(Int))
    BY <1>1, MessageShape
  <1>3. m \in Seq(Int) /\ m # <<>>
    BY <1>2 DEF Announced
  <1> QED BY <1>1, <1>2, <1>3 DEF Stream, Pending

(* Nothing is a stream of whole messages.                                  *)
LEMMA FramedNothing == Framed(<<>>, <<>>)
  <1>1. <<>> \in Stream /\ <<>> \in Pending
    BY DEF Stream, Pending
  <1> QED BY <1>1 DEF Framed, Closed

(* It remains one when the broker sends another message.                   *)
LEMMA FramedAppend ==
    ASSUME NEW s, NEW r, Framed(s, r), NEW q \in Contents
    PROVE  Framed(s \o Bytes(q), r \o q)
  <1>1. s \in Stream /\ r \in Pending /\ Bytes(q) \in Stream /\ q \in Pending
    BY MessageTypes DEF Framed
  <1>2. s \o Bytes(q) \in Stream /\ r \o q \in Pending
    BY <1>1, ConcatProperties DEF Stream, Pending
  <1>3. ASSUME NEW R \in SUBSET (Stream \X Pending), Closed(R)
        PROVE  <<s \o Bytes(q), r \o q>> \in R
    <2>1. <<s, r>> \in R
      BY <1>3 DEF Framed
    <2> QED BY <1>1, <1>3, <2>1, Zenon DEF Closed
  <1> QED BY <1>2, <1>3, Zenon DEF Framed

(* Such a stream is nothing, or a message and then such a stream.          *)
Peels(s, r) ==
    s # <<>> => \E q \in Contents, t \in Stream, u \in Pending :
                    Framed(t, u) /\ s = Bytes(q) \o t /\ r = q \o u

(* A message appended to such a stream leaves it of that form.             *)
LEMMA PeelsAppend ==
    ASSUME NEW s \in Stream, NEW r \in Pending, NEW q \in Contents,
           s = <<>> => r = <<>>, Peels(s, r)
    PROVE  Peels(s \o Bytes(q), r \o q)
  <1>0. Bytes(q) \in Stream /\ q \in Pending
    BY MessageTypes
  <1>1. CASE s = <<>>
    <2>1. s \o Bytes(q) = Bytes(q) \o <<>> /\ r \o q = q \o <<>>
      BY <1>0, <1>1, ConcatEmptySeq DEF Stream, Pending
    <2>2. <<>> \in Stream /\ <<>> \in Pending
      BY DEF Stream, Pending
    <2> QED BY <2>1, <2>2, FramedNothing, Zenon DEF Peels
  <1>2. CASE s # <<>>
    <2>1. PICK a \in Contents, t \in Stream, u \in Pending :
              Framed(t, u) /\ s = Bytes(a) \o t /\ r = a \o u
      BY <1>2, Zenon DEF Peels
    <2>2. Bytes(a) \in Stream /\ a \in Pending
      BY MessageTypes
    <2>3. s \o Bytes(q) = Bytes(a) \o (t \o Bytes(q))
      <3>1. (Bytes(a) \o t) \o Bytes(q) = Bytes(a) \o (t \o Bytes(q))
        <4>1. PICK x, y : x = Bytes(a) /\ y = Bytes(q)
          OBVIOUS
        <4>2. x \in Seq(Int) /\ y \in Seq(Int) /\ t \in Seq(Int)
          BY <1>0, <2>2, <4>1 DEF Stream
        <4>3. (x \o t) \o y = x \o (t \o y)
          BY ONLY <4>2, Associative, Zenon
        <4> QED BY <4>1, <4>3, Zenon
      <3> QED BY <2>1, <3>1
    <2>4. r \o q = a \o (u \o q)
      <3>1. a \in Seq(Seq(Int)) /\ u \in Seq(Seq(Int)) /\ q \in Seq(Seq(Int))
        BY <1>0, <2>2 DEF Pending
      <3>2. (a \o u) \o q = a \o (u \o q)
        BY ONLY <3>1, AssociativePending, Zenon
      <3> QED BY <2>1, <3>2
    <2>5. Framed(t \o Bytes(q), u \o q)
      BY <2>1, FramedAppend
    <2>6. t \o Bytes(q) \in Stream /\ u \o q \in Pending
      BY <2>5 DEF Framed
    <2> QED BY <2>3, <2>4, <2>5, <2>6, Zenon DEF Peels
  <1> QED BY <1>1, <1>2

(* Every stream of whole messages is of that form, since the streams of    *)
(* that form are closed under appending a message.                         *)
LEMMA FramedPeels ==
    ASSUME NEW s, NEW r, Framed(s, r)
    PROVE  (s = <<>> => r = <<>>) /\ Peels(s, r)
  <1> DEFINE Good(x, y) == (x = <<>> => y = <<>>) /\ Peels(x, y)
             R == {z \in Stream \X Pending : Good(z[1], z[2])}
  <1>1. \A x \in Stream, y \in Pending : <<x, y>> \in R <=> Good(x, y)
    OBVIOUS
  <1>2. R \in SUBSET (Stream \X Pending)
    OBVIOUS
  <1> HIDE DEF R
  <1>3. <<<<>>, <<>>>> \in R
    <2>1. <<>> \in Stream /\ <<>> \in Pending
      BY DEF Stream, Pending
    <2> QED BY <1>1, <2>1 DEF Peels
  <1>4. ASSUME NEW x \in Stream, NEW y \in Pending, NEW q \in Contents, <<x, y>> \in R
        PROVE  <<x \o Bytes(q), y \o q>> \in R
    <2>1. Good(x, y)
      BY <1>1, <1>4
    <2>2. Bytes(q) \in Stream /\ q \in Pending /\ Bytes(q) # <<>>
      BY MessageTypes
    <2>3. x \o Bytes(q) \in Stream /\ y \o q \in Pending /\ x \o Bytes(q) # <<>>
      BY <2>2, ConcatProperties, ConcatEqualIffEmpty DEF Stream, Pending
    <2>4. Peels(x \o Bytes(q), y \o q)
      BY <2>1, PeelsAppend
    <2> QED BY <1>1, <2>3, <2>4, Zenon
  <1>5. Closed(R)
    BY <1>3, <1>4, Zenon DEF Closed
  <1>6. <<s, r>> \in R /\ s \in Stream /\ r \in Pending
    BY <1>2, <1>5 DEF Framed
  <1> QED BY <1>1, <1>6

-----------------------------------------------------------------------------
(* Taking bytes from the front of the stream.                              *)

(* A sequence without its first k elements, byte by byte.                  *)
LEMMA RestIs ==
    ASSUME NEW m \in Seq(Int), NEW k \in 0..Len(m), NEW l, l = Len(m)
    PROVE  /\ Rest(m, k) \in Seq(Int)
           /\ l \in Nat /\ Len(Rest(m, k)) = l - k
           /\ \A i \in 1..(l - k) : Rest(m, k)[i] = m[k + i]
  <1>2. l \in Nat /\ \A i \in 1..l : m[i] \in Int
    BY LenProperties, ElementOfSeq
  <1>3. k + 1 \in Int /\ l \in Int /\ \A i \in (k + 1)..l : m[i] \in Int
    BY <1>2
  <1>4. /\ SubSeq(m, k + 1, l) \in Seq(Int)
        /\ Len(SubSeq(m, k + 1, l)) = IF k + 1 <= l THEN l - (k + 1) + 1 ELSE 0
        /\ \A i \in 1..(l - (k + 1) + 1) : SubSeq(m, k + 1, l)[i] = m[(k + 1) + i - 1]
    BY <1>3, SubSeqProperties
  <1>5. Len(SubSeq(m, k + 1, l)) = l - k
    BY <1>2, <1>4
  <1>6. ASSUME NEW i \in 1..(l - k) PROVE SubSeq(m, k + 1, l)[i] = m[k + i]
    <2>1. l - (k + 1) + 1 = l - k /\ (k + 1) + i - 1 = k + i
      BY <1>2
    <2> QED BY <1>4, <2>1
  <1> QED BY <1>2, <1>4, <1>5, <1>6 DEF Rest

(* The rest of a rest.                                                     *)
LEMMA RestOfRest ==
    ASSUME NEW m \in Seq(Int), NEW k \in Nat, NEW n \in Nat, k + n <= Len(m)
    PROVE  Rest(Rest(m, k), n) = Rest(m, k + n)
  <1>1. PICK l, d, e, x, y, z :
            /\ l = Len(m) /\ d = l - k /\ e = l - (k + n)
            /\ x = Rest(m, k) /\ y = Rest(m, k + n) /\ z = Rest(x, n)
    OBVIOUS
  <1>2. l \in Nat
    BY <1>1, LenProperties
  <1>3. /\ k \in 0..l /\ k + n \in 0..l /\ n \in 0..d /\ d \in Nat /\ e \in Nat
        /\ e = d - n /\ e <= d
    BY <1>1, <1>2
  <1>4. x \in Seq(Int) /\ Len(x) = d /\ \A i \in 1..d : x[i] = m[k + i]
    BY <1>1, <1>3, RestIs, Zenon
  <1>5. y \in Seq(Int) /\ Len(y) = e /\ \A i \in 1..e : y[i] = m[(k + n) + i]
    <2>1. PICK g : g = k + n
      OBVIOUS
    <2>2. /\ Rest(m, g) \in Seq(Int) /\ Len(Rest(m, g)) = l - g
          /\ \A i \in 1..(l - g) : Rest(m, g)[i] = m[g + i]
      BY <1>1, <1>3, <2>1, RestIs, Zenon
    <2> QED BY <1>1, <2>1, <2>2
  <1>6. z \in Seq(Int) /\ Len(z) = e /\ \A i \in 1..e : z[i] = x[n + i]
    <2>1. /\ Rest(x, n) \in Seq(Int) /\ Len(Rest(x, n)) = d - n
          /\ \A i \in 1..(d - n) : Rest(x, n)[i] = x[n + i]
      BY <1>3, <1>4, RestIs, ZenonT(40)
    <2> QED BY <1>1, <1>3, <2>1
  <1>7. ASSUME NEW i \in 1..e PROVE z[i] = y[i]
    <2>1. n + i \in 1..d /\ k + (n + i) = (k + n) + i
      BY <1>3
    <2>2. z[i] = m[k + (n + i)]
      BY <1>4, <1>6, <2>1, Zenon
    <2> QED BY <1>5, <2>1, <2>2
  <1>8. z = y
    BY ONLY <1>5, <1>6, <1>7, SeqEqual
  <1> QED BY <1>1, <1>8

(* Taking from a concatenation at most what its first part has.            *)
LEMMA RestOfConcat ==
    ASSUME NEW x \in Seq(Int), NEW t \in Seq(Int), NEW n \in 0..Len(x)
    PROVE  Rest(x \o t, n) = Rest(x, n) \o t
  <1>1. PICK u, y, v, z, d, e, g, f :
            /\ u = x \o t /\ y = Rest(x, n) /\ v = Rest(u, n) /\ z = y \o t
            /\ d = Len(x) /\ g = Len(t) /\ e = d - n /\ f = d + g
    BY Zenon
  <1>2. d \in Nat /\ g \in Nat /\ n \in 0..d
    BY <1>1, LenProperties
  <1>3. /\ e \in Nat /\ f \in Nat /\ n \in 0..f /\ n + e = d /\ f - n = e + g
    BY <1>1, <1>2
  <1>4. /\ u \in Seq(Int) /\ Len(u) = f
        /\ \A i \in 1..d : u[i] = x[i]
        /\ \A i \in 1..g : u[d + i] = t[i]
    BY <1>1, Glue
  <1>5. y \in Seq(Int) /\ Len(y) = e /\ \A i \in 1..e : y[i] = x[n + i]
    BY <1>1, RestIs, Zenon
  <1>6. v \in Seq(Int) /\ Len(v) = e + g /\ \A i \in 1..(e + g) : v[i] = u[n + i]
    <2>1. /\ Rest(u, n) \in Seq(Int) /\ Len(Rest(u, n)) = f - n
          /\ \A i \in 1..(f - n) : Rest(u, n)[i] = u[n + i]
      BY <1>3, <1>4, RestIs, ZenonT(40)
    <2> QED BY <1>1, <1>3, <2>1, Zenon
  <1>7. /\ z \in Seq(Int) /\ Len(z) = e + g
        /\ \A i \in 1..e : z[i] = y[i]
        /\ \A i \in 1..g : z[e + i] = t[i]
    <2>1. y \in Seq(Int) /\ e = Len(y) /\ t \in Seq(Int) /\ z = y \o t
      BY <1>1, <1>5
    <2>2. /\ z \in Seq(Int) /\ Len(z) = e + Len(t)
          /\ \A i \in 1..e : z[i] = y[i]
          /\ \A i \in 1..Len(t) : z[e + i] = t[i]
      BY ONLY <2>1, Glue, SMTT(30)
    <2> QED BY <1>1, <2>2, Zenon
  <1>8. ASSUME NEW i \in 1..(e + g) PROVE v[i] = z[i]
    <2>1. CASE i <= e
      <3>1. i \in 1..e /\ n + i \in 1..d
        BY <1>2, <1>3, <2>1
      <3>2. v[i] = u[n + i] /\ u[n + i] = x[n + i] /\ z[i] = y[i] /\ y[i] = x[n + i]
        BY <1>4, <1>5, <1>6, <1>7, <3>1, Zenon
      <3> QED BY <3>2
    <2>2. CASE i > e
      <3>1. PICK j : j = i - e
        OBVIOUS
      <3>2. j \in 1..g /\ e + j = i /\ d + j = n + i
        BY <1>2, <1>3, <2>2, <3>1
      <3>3. z[e + j] = t[j] /\ u[d + j] = t[j] /\ v[i] = u[n + i]
        <4>1. z[e + j] = t[j]
          BY <1>7, <3>2, Zenon
        <4>2. u[d + j] = t[j]
          BY <1>4, <3>2, Zenon
        <4>3. v[i] = u[n + i]
          BY <1>6, Zenon
        <4> QED BY <4>1, <4>2, <4>3, Zenon
      <3> QED BY <3>2, <3>3
    <2> QED BY <1>3, <2>1, <2>2
  <1>9. v = z
    BY ONLY <1>6, <1>7, <1>8, SeqEqual
  <1> QED BY <1>1, <1>9

(* The parser has taken k bytes of message m and takes n more of the pbuf  *)
(* c: they are the next n bytes of m.                                      *)
Taken(m, t, c, w, k, n) ==
    /\ \A i \in 1..n : c[i] = m[k + i]
    /\ Rest(m, k + n) \o t = Rest(c, n) \o w

(* Bytes that were framed when they were sent are so when they are taken.  *)
LEMMA Take ==
    ASSUME NEW m \in Seq(Int), NEW t \in Seq(Int), NEW c \in Seq(Int), NEW w \in Seq(Int),
           NEW k \in Nat, NEW n \in Nat, k + n <= Len(m), n <= Len(c),
           Rest(m, k) \o t = c \o w
    PROVE  Taken(m, t, c, w, k, n)
  <1>1. PICK x, l, d, g, u : /\ x = Rest(m, k) /\ l = Len(m) /\ d = l - k
                             /\ g = Len(c) /\ u = c \o w
    BY Zenon
  <1>2. l \in Nat /\ g \in Nat
    BY <1>1, LenProperties
  <1>3. k \in 0..l /\ d \in Nat /\ n \in 0..d /\ n \in 0..g
    BY <1>1, <1>2
  <1>4. x \in Seq(Int) /\ Len(x) = d /\ \A i \in 1..d : x[i] = m[k + i]
    BY <1>1, <1>3, RestIs, Zenon
  <1>5. u = x \o t
    BY <1>1, Zenon
  <1>6. \A i \in 1..d : u[i] = x[i]
    BY <1>4, <1>5, Glue
  <1>7. \A i \in 1..g : u[i] = c[i]
    BY <1>1, Glue
  <1>8. ASSUME NEW i \in 1..n PROVE c[i] = m[k + i]
    <2>1. i \in 1..d /\ i \in 1..g
      BY <1>2, <1>3
    <2> QED BY <1>4, <1>6, <1>7, <2>1, Zenon
  <1>9. Rest(u, n) = Rest(x, n) \o t
    BY <1>3, <1>4, <1>5, RestOfConcat, Zenon
  <1>10. Rest(u, n) = Rest(c, n) \o w
    BY <1>1, <1>3, RestOfConcat, Zenon
  <1>11. Rest(x, n) = Rest(m, k + n)
    BY <1>1, RestOfRest
  <1> QED
    BY <1>8, <1>9, <1>10, <1>11, Zenon DEF Taken

-----------------------------------------------------------------------------
(* The invariant holds initially, and the broker and TCP keep it.          *)

InMessage == \E h, m, q, t, r : Within(h, m, q, t, r)

(* Nothing is sent and nothing is parsed.                                  *)
LEMMA InvInit == Init => IInv
  <1> SUFFICES ASSUME Init PROVE IInv
    OBVIOUS
  <1>1. <<>> \in Stream /\ <<>> \in Pending
    BY DEF Stream, Pending
  <1>2. rx_buffer \in [0..(BufLen - 1) -> Int]
    BY DEF Init
  <1>3. Types
    <2>1. 0 \in Nat /\ 0 \in Int /\ 0 \in 0..MaxMsgs
      BY InPublishAssumption
    <2> QED BY <1>1, <1>2, <2>1, Zenon DEF Init, Types
  <1>4. chunk \o stream = <<>>
    BY ConcatEmptySeq DEF Init
  <1>5. Between
    BY <1>4, FramedNothing DEF Init, Between
  <1> QED BY <1>3, <1>5 DEF IInv

(* Another message at the end of what is under way.                        *)
LEMMA SendKeeps ==
    ASSUME IInv, NEW q \in Contents,
           stream' = stream \o Bytes(q), inflight' = inflight \o q, sent' \in 0..MaxMsgs,
           UNCHANGED <<chunk, locals, msg_idx, rx_buffer, comms, bailed, rejected>>
    PROVE  IInv'
  <1>0. Types /\ Bytes(q) \in Stream /\ q \in Pending
    BY MessageTypes DEF IInv
  <1>1. Types'
    <2>1. stream' \in Stream /\ inflight' \in Pending
      BY <1>0, ConcatProperties DEF Types, Stream, Pending
    <2> QED BY <1>0, <2>1 DEF Types, locals, comms
  <1>2. chunk \o (stream \o Bytes(q)) = (chunk \o stream) \o Bytes(q)
    BY ONLY <1>0, Associative, Zenon DEF Types, Stream
  <1>3. (chunk \o stream)' = (chunk \o stream) \o Bytes(q)
    BY <1>2
  <1>4. CASE Between
    <2>1. Framed((chunk \o stream) \o Bytes(q), inflight \o q)
      BY <1>4, FramedAppend DEF Between
    <2>2. Between'
      BY <1>3, <1>4, <2>1 DEF Between, locals
    <2> QED BY <1>1, <2>2 DEF IInv
  <1>5. CASE InMessage
    <2>1. PICK h, m, a, t, r : Within(h, m, a, t, r)
      BY <1>5 DEF InMessage
    <2>2. /\ a \in Contents /\ m = Bytes(a) /\ Framed(t, r) /\ msg_idx \in 0..(Len(m) - 1)
          /\ Rest(m, msg_idx) \o t = chunk \o stream /\ inflight = a \o r
      BY <2>1 DEF Within, Position
    <2>3. a \in Seq(Seq(Int)) /\ r \in Seq(Seq(Int)) /\ q \in Seq(Seq(Int))
      BY <1>0, <2>2, MessageTypes DEF Framed, Pending
    <2>4. (a \o r) \o q = a \o (r \o q)
      BY ONLY <2>3, AssociativePending, Zenon
    <2>5. m \in Seq(Int) /\ t \in Seq(Int) /\ Bytes(q) \in Seq(Int)
      BY <1>0, <2>2, MessageTypes DEF Framed, Stream
    <2>6. Rest(m, msg_idx) \in Seq(Int)
      <3>1. msg_idx \in 0..Len(m)
        BY <2>2, <2>5, LenProperties
      <3> QED BY <2>5, <3>1, RestIs, Zenon
    <2>7. (Rest(m, msg_idx) \o t) \o Bytes(q) = Rest(m, msg_idx) \o (t \o Bytes(q))
      BY ONLY <2>5, <2>6, Associative, Zenon
    <2>8. Framed(t \o Bytes(q), r \o q)
      BY <2>2, FramedAppend
    <2>9. t \o Bytes(q) \in Stream /\ r \o q \in Pending
      BY <2>8 DEF Framed
    <2>10. Rest(m, msg_idx) \o (t \o Bytes(q)) = (chunk \o stream)'
      BY <1>3, <2>2, <2>7
    <2>11. inflight' = a \o (r \o q)
      BY <2>2, <2>4
    <2>12. Position(m, a, t \o Bytes(q), r \o q)'
      BY <2>2, <2>8, <2>9, <2>10, <2>11, Zenon DEF Position
    <2>13. (Header(h, m) /\ Window(h, m, a))'
      BY <2>1 DEF Within, Header, Window, Copied, PassedOn, Place, comms
    <2>14. (chunk # <<>> => Locals(h, m))'
      BY <2>1 DEF Within, Locals, locals
    <2>15. Within(h, m, a, t \o Bytes(q), r \o q)'
      BY <2>1, <2>12, <2>13, <2>14 DEF Within
    <2> QED BY <1>1, <2>15 DEF IInv
  <1> QED BY <1>4, <1>5 DEF IInv, InMessage

(* What the broker writes is the message.                                  *)
LEMMA PublishBytes ==
    ASSUME NEW s \in Seq(Int), NEW p \in Payloads
    PROVE  s \o <<PUBLISH>> \o LengthBytes(Len(p) + 3) \o <<0, 1, TOPIC>> \o p
               = s \o Bytes(<<p>>)
  <1>1. PICK a, x, y : /\ a = <<PUBLISH>> /\ x = LengthBytes(Len(p) + 3)
                       /\ y = <<0, 1, TOPIC>>
    BY Zenon
  <1>2. p \in Seq(Int) /\ Len(p) + 3 \in Nat /\ Base \in Nat /\ Base > 0
    BY PayloadFacts, InPublishAssumption
  <1>3. a \in Seq(Int) /\ y \in Seq(Int) /\ x \in Seq(Int)
    BY <1>1, <1>2 DEF PUBLISH, TOPIC, LengthBytes
  <1>4. PICK u, v : u = a \o x /\ v = u \o y
    BY Zenon
  <1>5. u \in Seq(Int) /\ v \in Seq(Int)
    BY <1>3, <1>4, ConcatProperties
  <1>6. (s \o a) \o x = s \o u
    <2>1. (s \o a) \o x = s \o (a \o x)
      BY ONLY s \in Seq(Int), <1>3, Associative, Zenon
    <2> QED BY <1>4, <2>1
  <1>7. (s \o u) \o y = s \o v
    <2>1. (s \o u) \o y = s \o (u \o y)
      BY ONLY s \in Seq(Int), <1>3, <1>5, Associative, ZenonT(30)
    <2> QED BY <1>4, <2>1
  <1>8. (s \o v) \o p = s \o (v \o p)
    BY ONLY s \in Seq(Int), <1>2, <1>5, Associative, Zenon
  <1>9. v \o p = Bytes(<<p>>)
    BY <1>1, <1>4, Zenon DEF Bytes
  <1> QED BY <1>1, <1>6, <1>7, <1>8, <1>9, Zenon

(* BrokerPublish and BrokerSuback append a whole message.                  *)
LEMMA BrokerKeeps ==
    ASSUME IInv, (\E n \in Lengths : BrokerPublish(n)) \/ BrokerSuback
    PROVE  IInv'
  <1>0. stream \in Seq(Int) /\ inflight \in Seq(Seq(Int)) /\ sent \in 0..MaxMsgs
        /\ MaxMsgs \in Nat
    BY InPublishAssumption DEF IInv, Types, Stream, Pending
  <1>1. ASSUME NEW n \in Lengths, BrokerPublish(n) PROVE IInv'
    <2>1. PICK p : p = Payload(n, sent')
      BY Zenon
    <2>2. sent' \in 1..MaxMsgs /\ sent' \in 0..MaxMsgs
      BY <1>0, <1>1 DEF BrokerPublish
    <2>3. p \in Payloads
      BY <2>1, <2>2 DEF Payloads
    <2>4. Len(p) = n /\ p \in Seq(Int)
      <3>1. n \in Nat
        BY InPublishAssumption
      <3> QED BY <2>1, <2>3, <3>1, PayloadFacts DEF Payload
    <2>5. stream' = stream \o Bytes(<<p>>)
      BY <1>0, <1>1, <2>1, <2>3, <2>4, PublishBytes, Zenon DEF BrokerPublish
    <2>6. inflight' = inflight \o <<p>>
      BY <1>0, <1>1, <2>1, <2>4, AppendIsConcat, Zenon DEF BrokerPublish
    <2>7. <<p>> \in Contents
      BY <2>3 DEF Contents
    <2>8. UNCHANGED <<chunk, locals, msg_idx, rx_buffer, comms, bailed, rejected>>
      BY <1>1 DEF BrokerPublish
    <2> QED BY <2>2, <2>5, <2>6, <2>7, <2>8, SendKeeps, ZenonT(30)
  <1>2. CASE BrokerSuback
    <2>1. <<>> \in Contents
      BY DEF Contents
    <2>2. stream' = stream \o Bytes(<<>>) /\ sent' \in 0..MaxMsgs
      BY <1>0, <1>2 DEF BrokerSuback, Bytes
    <2>3. inflight' = inflight \o <<>>
      BY <1>0, <1>2, ConcatEmptySeq DEF BrokerSuback
    <2>4. UNCHANGED <<chunk, locals, msg_idx, rx_buffer, comms, bailed, rejected>>
      BY <1>2 DEF BrokerSuback
    <2> QED BY <2>1, <2>2, <2>3, <2>4, SendKeeps, Zenon
  <1> QED BY <1>1, <1>2

(* TCP hands over a pbuf: nothing is lost at the cut, and the locals start *)
(* at the first byte of the fixed header again.                            *)
LEMMA RecvKeeps ==
    ASSUME IInv, NEW k \in 1..Len(stream), Recv(k)
    PROVE  IInv'
  <1>0. Types /\ stream \in Seq(Int) /\ Len(stream) \in Nat
    BY LenProperties DEF IInv, Types, Stream
  <1>1. chunk = <<>> /\ chunk \o stream = stream
    BY <1>0, ConcatEmptySeq DEF Recv
  <1>2. PICK s, l : s = stream /\ l = Len(s)
    OBVIOUS
  <1>3. /\ s \in Seq(Int) /\ l \in Nat /\ 1 \in 1..(l + 1) /\ k \in (1 - 1)..l
        /\ l \in k..l /\ k \in 0..l /\ k \in Nat
    BY <1>0, <1>2
  <1>4. chunk' = SubSeq(s, 1, k) /\ stream' = SubSeq(s, k + 1, l)
    BY <1>2 DEF Recv
  <1>5. (chunk \o stream)' = SubSeq(s, 1, l)
    BY <1>2, <1>3, <1>4, ConcatAdjacentSubSeq, Zenon
  <1>6. (chunk \o stream)' = chunk \o stream
    BY <1>1, <1>2, <1>3, <1>5, SubSeqFull
  <1>7. chunk' \in Seq(Int) /\ stream' \in Seq(Int)
    <2>1. \A i \in 1..l : s[i] \in Int
      BY <1>2, <1>3, ElementOfSeq
    <2>2. 1 \in Int /\ k \in Int /\ \A i \in 1..k : s[i] \in Int
      BY <1>3, <2>1
    <2>3. k + 1 \in Int /\ l \in Int /\ \A i \in (k + 1)..l : s[i] \in Int
      BY <1>3, <2>1
    <2> QED BY <1>4, <2>2, <2>3, SubSeqProperties
  <1>8. Types'
    <2>1. 0 \in Nat /\ 0 \in Int
      OBVIOUS
    <2> QED BY <1>0, <1>7, <2>1 DEF Recv, Types, Stream, comms, broker
  <1>9. CASE Between
    <2>1. Between'
      BY <1>6, <1>9, Zenon DEF Between, Recv
    <2> QED BY <1>8, <2>1 DEF IInv
  <1>10. CASE InMessage
    <2>1. PICK h, m, q, t, r : Within(h, m, q, t, r)
      BY <1>10 DEF InMessage
    <2>2. Position(m, q, t, r)'
      BY <1>6, <2>1, Zenon DEF Within, Position, Recv
    <2>3. (Header(h, m) /\ Window(h, m, q))'
      BY <2>1 DEF Within, Header, Window, Copied, PassedOn, Place, Recv, comms
    <2>4. h \in {2, 3}
      BY <2>1 DEF Within, HeaderLength
    <2>5. msg_idx' \in Nat
      BY <1>8 DEF Types
    <2>6. Locals(h, m)'
      BY <2>4, <2>5 DEF Locals, Recv
    <2>7. Within(h, m, q, t, r)'
      BY <2>1, <2>2, <2>3, <2>6 DEF Within
    <2> QED BY <1>8, <2>7 DEF IInv
  <1> QED BY <1>9, <1>10 DEF IInv, InMessage

(* A new connection starts between two messages, with nothing under way.   *)
LEMMA ReconnectKeeps ==
    ASSUME IInv, Reconnect
    PROVE  IInv'
  <1>0. Types
    BY DEF IInv
  <1>1. <<>> \in Stream /\ <<>> \in Pending /\ 0 \in Nat /\ 0 \in Int
    BY DEF Stream, Pending
  <1>2. rx_buffer' \in [0..(BufLen - 1) -> Int]
    BY DEF Reconnect, Reset
  <1>3. Types'
    BY <1>0, <1>1, <1>2 DEF Types, Reconnect, Reset, comms, broker
  <1>4. (chunk \o stream)' = <<>>
    BY ConcatEmptySeq DEF Reconnect
  <1>5. Between'
    BY <1>4, FramedNothing DEF Between, Reconnect, Reset
  <1> QED BY <1>3, <1>5 DEF IInv

(* While a pbuf is being parsed the parser is at the start of a message or *)
(* within one.                                                             *)
LEMMA Parsing ==
    ASSUME IInv, chunk # <<>>
    PROVE  InMessage
  <1> SUFFICES ASSUME Between PROVE InMessage
    BY DEF IInv, InMessage
  <1>0. chunk \in Seq(Int) /\ stream \in Seq(Int)
    BY DEF IInv, Types, Stream
  <1>1. chunk \o stream # <<>>
    BY <1>0, ConcatEqualIffEmpty
  <1>2. Peels(chunk \o stream, inflight)
    BY FramedPeels DEF Between
  <1>3. PICK q \in Contents, t \in Stream, r \in Pending :
            Framed(t, r) /\ chunk \o stream = Bytes(q) \o t /\ inflight = q \o r
    BY <1>1, <1>2, Zenon DEF Peels
  <1>4. PICK m, h : m = Bytes(q) /\ h = HeaderLength(q)
    OBVIOUS
  <1>5. m \in Seq(Int) /\ Len(m) \in Nat /\ Len(m) > h /\ h \in {2, 3}
    BY <1>4, MessageShape DEF Announced
  <1>6. msg_idx = 0 /\ fixed_hdr_idx = 0 /\ msg_rem_len = 0
    BY DEF Between
  <1>7. Rest(m, 0) = m
    BY <1>5, SubSeqFull DEF Rest
  <1>8. 0 \in 0..(Len(m) - 1)
    BY <1>5
  <1>9. Position(m, q, t, r)
    BY <1>3, <1>4, <1>6, <1>7, <1>8, Zenon DEF Position
  <1>10. Header(h, m) /\ Window(h, m, q)
    BY <1>5, <1>6 DEF Header, Window
  <1>11. Locals(h, m)
    BY <1>5, <1>6 DEF Locals
  <1>12. Within(h, m, q, t, r)
    BY <1>3, <1>4, <1>9, <1>10, <1>11 DEF Within
  <1> QED BY <1>12 DEF InMessage

-----------------------------------------------------------------------------
(* A byte of the fixed header.                                             *)

(* Byte f of a header of h bytes, counted from 0, and the length added up  *)
(* behind it: the header ends with byte h and with no other.               *)
Mul(n) == CASE n < 2 -> 0 [] n = 2 -> 1 [] n > 2 -> Base

Counted(h, m, n, byte, more) ==
    /\ byte \in Int /\ more \in Int
    /\ n = h <=> (n >= 2 /\ byte < Base)
    /\ n = h => more = Len(m) - h /\ more # 0
    /\ n < 2 => more = 0
    /\ n = 2 => more = m[2] % Base

(* A turn of mqtt_parse_incoming over byte f of the header counts so.      *)
LEMMA LengthSoFar ==
    ASSUME NEW h, NEW m, Announced(h, m), NEW f \in 0..(h - 1), NEW old,
           f < 2 => old = 0, f = 2 => old = m[2] % Base,
           NEW byte, byte = m[f + 1], NEW more, more = old + Mul(f + 1) * (byte % Base)
    PROVE  Counted(h, m, f + 1, byte, more)
  <1>0. /\ m \in Seq(Int) /\ h \in {2, 3} /\ Len(m) \in Nat /\ Len(m) > h
        /\ Base \in Nat /\ Base > 5
    BY InPublishAssumption DEF Announced
  <1>1. f \in {0, 1, 2} /\ (f = 2 => h = 3)
    BY <1>0
  <1>2. \A i \in 1..3 : i <= h => m[i] \in Int
    BY <1>0, ElementOfSeq
  <1>3. CASE f = 0
    <2>1. Mul(f + 1) = 0 /\ byte = m[1] /\ byte \in Int /\ old = 0
      BY <1>0, <1>2, <1>3 DEF Mul
    <2>2. byte % Base \in Int
      BY <1>0, <2>1
    <2>3. more = 0
      BY <2>1, <2>2
    <2> QED BY ONLY <1>0, <1>3, <2>1, <2>3 DEF Counted
  <1>4. CASE f = 1
    <2>1. Mul(f + 1) = 1 /\ byte = m[2] /\ byte \in Int /\ old = 0
      BY <1>0, <1>2, <1>4 DEF Mul
    <2>2. byte % Base \in Int
      BY <1>0, <2>1
    <2>3. more = byte % Base
      BY <2>1, <2>2
    <2>4. CASE h = 2
      <3>1. byte \in 0..(Base - 1) /\ byte = Len(m) - 2
        BY <2>1, <2>4 DEF Announced
      <3>2. byte % Base = byte
        BY <1>0, <3>1, SmallMod, Zenon
      <3> QED BY ONLY <1>0, <1>4, <2>1, <2>2, <2>3, <2>4, <3>1, <3>2 DEF Counted
    <2>5. CASE h = 3
      <3>1. byte >= Base
        BY <2>1, <2>5 DEF Announced
      <3> QED BY <1>0, <1>4, <2>1, <2>2, <2>3, <2>5, <3>1 DEF Counted
    <2> QED BY <1>0, <2>4, <2>5
  <1>5. CASE f = 2
    <2>1. h = 3 /\ old = m[2] % Base
      BY <1>1, <1>5
    <2>2. Mul(f + 1) = Base /\ byte = m[3] /\ byte \in Int
      BY <1>0, <1>2, <1>5, <2>1 DEF Mul
    <2>3. byte \in 0..(Base - 1) /\ (m[2] % Base) + Base * byte = Len(m) - 3
      BY <2>1, <2>2 DEF Announced
    <2>4. byte % Base = byte
      BY <1>0, <2>3, SmallMod, Zenon
    <2>5. more = Len(m) - 3
      BY <2>1, <2>2, <2>3, <2>4
    <2>6. byte < Base
      BY <1>0, <2>3
    <2>7. more # 0 /\ more \in Int
      BY ONLY <1>0, <2>1, <2>5, SMTT(30)
    <2>8. f + 1 = 3
      BY <1>5
    <2> QED BY ONLY <2>1, <2>2, <2>5, <2>6, <2>7, <2>8 DEF Counted
  <1> QED BY <1>1, <1>3, <1>4, <1>5

(* The turn of the loop that takes byte f of the header, whether it is in  *)
(* rx_buffer since an earlier pbuf or the next byte of this one.           *)
LEMMA HeaderKeeps ==
    ASSUME IInv, HeaderByte
    PROVE  IInv'
  <1>0. Types /\ chunk # <<>> /\ (fixed_hdr_idx < 2 \/ b >= Base)
    BY DEF IInv, HeaderByte
  <1>1. PICK h, m, q, t, r : Within(h, m, q, t, r)
    BY <1>0, Parsing, Zenon DEF InMessage
  <1>2. /\ Announced(h, m) /\ m = Bytes(q) /\ h = HeaderLength(q) /\ q \in Contents
        /\ Position(m, q, t, r) /\ Header(h, m) /\ Window(h, m, q) /\ Locals(h, m)
    BY <1>0, <1>1, MessageShape, Zenon DEF Within
  <1>3. /\ m \in Seq(Int) /\ h \in {2, 3} /\ Len(m) \in Nat /\ Len(m) > h
        /\ Base \in Nat /\ Base > 5 /\ BufLen \in Nat /\ BufLen > 7
    BY <1>2, InPublishAssumption DEF Announced
  <1>4. PICK f, k : f = fixed_hdr_idx /\ k = msg_idx
    OBVIOUS
  <1>5. f \in 0..(h - 1) /\ f <= k /\ k \in 0..(Len(m) - 1)
    <2>1. f \in 0..h /\ f <= k /\ k \in 0..(Len(m) - 1)
      BY <1>2, <1>4 DEF Locals, Position
    <2>2. ASSUME f = h PROVE FALSE
      <3>1. b < Base /\ b \in Int
        BY <1>0, <1>2, <1>4, <2>2 DEF Locals, Types
      <3> QED BY <1>0, <1>3, <1>4, <2>2, <3>1
    <2> QED BY <1>3, <2>1, <2>2
  <1>6. PICK byte, more, received :
            /\ byte = IF f < k THEN rx_buffer[f] ELSE Head(chunk)
            /\ more = msg_rem_len + Mul(f + 1) * (byte % Base)
            /\ received = IF f < k THEN k ELSE k + 1
    BY Zenon
  <1>7. /\ b' = byte
        /\ chunk' = IF f < k THEN chunk ELSE Tail(chunk)
        /\ rx_buffer' = IF f < k THEN rx_buffer ELSE [rx_buffer EXCEPT ![k] = byte]
        /\ fixed_hdr_idx' = IF (f + 1 >= 2 /\ byte < Base) /\ more = 0 THEN 0 ELSE f + 1
        /\ msg_idx' = IF (f + 1 >= 2 /\ byte < Base) /\ more = 0 THEN 0 ELSE received
        /\ msg_rem_len' = IF (f + 1 >= 2 /\ byte < Base) /\ more # 0
                          THEN Remaining(more, f + 1, received) ELSE more
        /\ UNCHANGED <<stream, comms, inflight, handled, broker, bailed, rejected>>
    BY <1>4, <1>6 DEF HeaderByte, Mul
  <1>8. k + 1 <= Len(m) /\ 1 <= Len(chunk) /\ Len(chunk) \in Nat /\ chunk \in Seq(Int)
    <2>1. chunk \in Seq(Int)
      BY <1>0 DEF Types, Stream
    <2>2. Len(chunk) \in Nat /\ Len(chunk) # 0
      BY <1>0, <2>1, EmptySeq
    <2> QED BY <1>3, <1>5, <2>1, <2>2
  <1>9. Taken(m, t, chunk, stream, k, 1)
    <2>1. /\ t \in Seq(Int) /\ stream \in Seq(Int)
          /\ Rest(m, k) \o t = chunk \o stream
      BY <1>0, <1>2, <1>4, Zenon DEF Types, Position, Stream
    <2>2. k \in Nat /\ 1 \in Nat
      BY <1>3, <1>5
    <2> QED BY ONLY <1>3, <1>8, <2>1, <2>2, Take, Zenon
  <1>10. byte = m[f + 1]
    <2>1. CASE f < k
      BY <1>2, <1>4, <1>5, <1>6, <2>1, Zenon DEF Header
    <2>2. CASE ~(f < k)
      <3>1. f = k /\ byte = chunk[1]
        BY <1>3, <1>5, <1>6, <1>8, <2>2
      <3>2. chunk[1] = m[k + 1]
        BY <1>9 DEF Taken
      <3> QED BY <3>1, <3>2
    <2> QED BY <2>1, <2>2
  <1>11. Counted(h, m, f + 1, byte, more)
    <2>1. (f < 2 => msg_rem_len = 0) /\ (f = 2 => msg_rem_len = m[2] % Base)
      BY <1>2, <1>3, <1>4, <1>5 DEF Locals
    <2> QED BY <1>2, <1>5, <1>6, <1>10, <2>1, LengthSoFar, Zenon
  <1>12. received \in 1..(Len(m) - 1) /\ f + 1 <= received /\ received \in Nat
    <2>1. received = IF f < k THEN k ELSE k + 1
      BY <1>6, Zenon
    <2> QED BY ONLY <1>3, <1>5, <2>1
  <1>13. /\ fixed_hdr_idx' = f + 1 /\ msg_idx' = received
         /\ msg_rem_len' = IF f + 1 = h THEN Len(m) - received ELSE more
    <2>1. f + 1 = h => Remaining(more, f + 1, received) = Len(m) - received
      BY ONLY <1>3, <1>5, <1>11, <1>12 DEF Remaining, Counted
    <2>2. (f + 1 >= 2 /\ byte < Base) <=> f + 1 = h
      BY <1>11 DEF Counted
    <2>3. f + 1 = h => more # 0
      BY <1>11, Zenon DEF Counted
    <2> QED BY <1>7, <2>1, <2>2, <2>3
  <1>14. ASSUME f < k
         PROVE  (Position(m, q, t, r) /\ Header(h, m) /\ Window(h, m, q))'
    <2>1. /\ chunk' = chunk /\ rx_buffer' = rx_buffer /\ msg_idx' = msg_idx
          /\ stream' = stream /\ inflight' = inflight /\ incoming_publish' = incoming_publish
          /\ sub' = sub
      BY <1>4, <1>6, <1>7, <1>13, <1>14 DEF comms
    <2> QED BY <1>2, <2>1, Zenon DEF Position, Header, Window, Copied, PassedOn, Place
  <1>15. ASSUME ~(f < k)
         PROVE  (Position(m, q, t, r) /\ Header(h, m) /\ Window(h, m, q))'
    <2>1. /\ f = k /\ received = k + 1
          /\ chunk' = Rest(chunk, 1) /\ stream' = stream /\ inflight' = inflight
          /\ rx_buffer' = [rx_buffer EXCEPT ![k] = byte]
      <3>1. f = k /\ received = k + 1
        BY <1>3, <1>5, <1>6, <1>15
      <3>2. Tail(chunk) = Rest(chunk, 1)
        BY <1>0, <1>8, TailIsSubSeq DEF Rest
      <3> QED BY <1>7, <1>15, <3>1, <3>2
    <2>3. k \in 0..(h - 1) /\ k \in 0..(BufLen - 1)
      BY <1>3, <1>5, <2>1
    <2>4. rx_buffer \in [0..(BufLen - 1) -> Int] /\ byte \in Int
      BY <1>0, <1>11, Zenon DEF Types, Counted
    <2>6. Position(m, q, t, r)'
      <3>1. Rest(m, k + 1) \o t = Rest(chunk, 1) \o stream
        BY <1>9, Zenon DEF Taken
      <3>2. Rest(m, msg_idx') \o t = chunk' \o stream'
        BY <1>13, <2>1, <3>1, Zenon
      <3>3. msg_idx' \in 0..(Len(m) - 1)
        BY <1>3, <1>12, <1>13
      <3> QED BY <1>2, <2>1, <3>2, <3>3 DEF Position
    <2>7. Header(h, m)'
      <3> SUFFICES ASSUME NEW j \in 0..(h - 1), j < k + 1
                   PROVE  rx_buffer'[j] = m[j + 1]
        BY <1>13, <2>1 DEF Header
      <3>1. CASE j = k
        BY <1>10, <2>1, <2>3, <2>4, <3>1, Zenon
      <3>2. CASE j # k
        <4>1. j < k /\ j \in 0..(BufLen - 1)
          BY <1>3, <2>3, <3>2, SMTT(30)
        <4>2. rx_buffer[j] = m[j + 1]
          BY <1>2, <1>4, <4>1 DEF Header
        <4> QED BY <2>1, <2>3, <2>4, <3>2, <4>1, <4>2, Zenon
      <3> QED BY <3>1, <3>2
    <2>8. Window(h, m, q)'
      <3> SUFFICES ASSUME msg_idx' >= h PROVE (Copied(h, m) /\ PassedOn(h, q))'
        BY DEF Window
      <3>1. msg_idx' = h
        BY <1>3, <1>13, <2>1, <2>3
      <3>2. Place(h)' = h
        <4>1. 0 \in 0..((BufLen - h) - 1) /\ BufLen - h \in Nat /\ h - h = 0 /\ 0 + h = h
          BY <1>3
        <4>2. 0 % (BufLen - h) = 0
          BY <4>1, SmallMod
        <4>3. Place(h)' = ((h - h) % (BufLen - h)) + h
          BY <3>1 DEF Place
        <4> QED BY <4>1, <4>2, <4>3
      <3>3. Copied(h, m)'
        BY <1>3, <3>2 DEF Copied
      <3>4. PassedOn(h, q)'
        BY <1>3, <3>1, <3>2 DEF PassedOn
      <3> QED BY <3>3, <3>4
    <2> QED BY <2>6, <2>7, <2>8
  <1>16. (Position(m, q, t, r) /\ Header(h, m) /\ Window(h, m, q))'
    BY <1>14, <1>15, Zenon
  <1>17. Locals(h, m)'
    <2>1. /\ f + 1 \in 0..h /\ f + 1 <= received /\ (f + 1 < 2 => f + 1 # h)
          /\ (f + 1 = 2 /\ h = 3 => f + 1 # h /\ f + 1 = 1 + 1)
      BY <1>3, <1>5, <1>12
    <2>2. f + 1 < 2 => more = 0
      BY <1>11 DEF Counted
    <2>3. f + 1 = 2 => byte = m[2] /\ more = m[2] % Base
      BY <1>10, <1>11 DEF Counted
    <2>4. f + 1 = h => byte < Base
      BY <1>11, Zenon DEF Counted
    <2> QED BY <1>7, <1>13, <2>1, <2>2, <2>3, <2>4, Zenon DEF Locals
  <1>18. Types'
    <2>1. f + 1 \in Nat
      BY <1>3, <1>5
    <2>2. byte \in Int /\ msg_rem_len' \in Int
      BY <1>3, <1>11, <1>12, <1>13 DEF Counted
    <2>3. chunk' \in Stream /\ rx_buffer' \in [0..(BufLen - 1) -> Int]
      <3>1. CASE f < k
        BY <1>0, <1>7, <3>1 DEF Types
      <3>2. CASE ~(f < k)
        <4>1. Tail(chunk) \in Stream
          BY <1>0, <1>8, HeadTailProperties DEF Stream
        <4> QED BY <1>0, <1>7, <2>2, <3>2, <4>1, Zenon DEF Types
      <3> QED BY <3>1, <3>2
    <2> QED BY <1>0, <1>7, <1>12, <1>13, <2>1, <2>2, <2>3 DEF Types, comms, broker
  <1>19. Within(h, m, q, t, r)'
    BY <1>2, <1>16, <1>17 DEF Within
  <1> QED BY <1>18, <1>19 DEF IInv

-----------------------------------------------------------------------------
(* Bytes behind the fixed header.                                          *)

(* n bytes of message m are copied to place s of rx_buffer, which becomes  *)
(* rx.                                                                     *)
Copying(h, m, q, t, r, s, n, rx) ==
    /\ q \in Contents /\ m = Bytes(q) /\ h = HeaderLength(q) /\ Announced(h, m)
    /\ Framed(t, r) /\ inflight = q \o r
    /\ msg_idx \in h..(Len(m) - 1) /\ s = Place(h)
    /\ s \in h..(BufLen - 1) /\ s <= msg_idx /\ (s # msg_idx => msg_idx >= BufLen)
    /\ n \in 1..(BufLen - s) /\ msg_idx + n <= Len(m)
    /\ rx \in [0..(BufLen - 1) -> Int]
    /\ \A j \in 0..(h - 1) : rx[j] = m[j + 1]
    /\ \A i \in h..(s + n - 1) : rx[i] = m[msg_idx - s + i + 1]
    /\ Rest(chunk, n) \in Seq(Int)
    /\ Rest(m, msg_idx + n) \o t = Rest(chunk, n) \o stream
    /\ PassedOn(h, q) /\ b < Base /\ fixed_hdr_idx = h

(* What a turn does whether or not a fragment is passed on.                *)
Turn(h, m, n) ==
    /\ msg_rem_len' = Len(m) - (msg_idx + n)
    /\ fixed_hdr_idx' = IF Len(m) - (msg_idx + n) = 0 THEN 0 ELSE h
    /\ UNCHANGED <<b, broker>>

Due(m, n, s) == Len(m) - (msg_idx + n) = 0 \/ n = BufLen - s

Fragment(h, m, s, n, rx) ==
    /\ Due(m, n, s) /\ rx[0] = PUBLISH
    /\ PublishFragment(rx, msg_idx + n, s + n - h, Len(m) - (msg_idx + n), Rest(chunk, n))

Plain(h, m, s, n, rx) ==
    /\ ~(Due(m, n, s) /\ rx[0] = PUBLISH)
    /\ rx_buffer' = rx /\ chunk' = Rest(chunk, n)
    /\ msg_idx' = IF Len(m) - (msg_idx + n) = 0 THEN 0 ELSE msg_idx + n
    /\ UNCHANGED <<stream, comms, inflight, handled, bailed, rejected>>

(* A turn of mqtt_parse_incoming behind the header copies so, and passes a *)
(* fragment to mqtt_message_received or does not.                          *)
LEMMA CopyingBytes ==
    ASSUME IInv, CopyBytes
    PROVE  \E h, m, q, t, r, s, n, rx :
              /\ Copying(h, m, q, t, r, s, n, rx) /\ Turn(h, m, n)
              /\ Fragment(h, m, s, n, rx) \/ Plain(h, m, s, n, rx)
  <1>0. Types /\ chunk # <<>> /\ ~(fixed_hdr_idx < 2 \/ b >= Base)
    BY DEF IInv, CopyBytes
  <1>1. PICK h, m, q, t, r : Within(h, m, q, t, r)
    BY <1>0, Parsing DEF InMessage
  <1>2. /\ Announced(h, m) /\ m = Bytes(q) /\ h = HeaderLength(q) /\ q \in Contents
        /\ Position(m, q, t, r) /\ Header(h, m) /\ Window(h, m, q) /\ Locals(h, m)
    BY <1>0, <1>1, MessageShape DEF Within
  <1>3. /\ m \in Seq(Int) /\ h \in {2, 3} /\ Len(m) \in Nat /\ Len(m) > h
        /\ Base \in Nat /\ Base > 5 /\ BufLen \in Nat /\ BufLen > 7
    BY <1>2, InPublishAssumption DEF Announced
  <1>4. PICK k, l : k = msg_idx /\ l = Len(chunk)
    BY Zenon
  <1>5. /\ fixed_hdr_idx = h /\ k \in h..(Len(m) - 1) /\ msg_rem_len = Len(m) - k
    <2>1. /\ fixed_hdr_idx \in 0..h /\ fixed_hdr_idx <= k /\ k \in 0..(Len(m) - 1)
          /\ fixed_hdr_idx = 2 /\ h = 3 => b = m[2]
          /\ fixed_hdr_idx = h => msg_rem_len = Len(m) - k
      BY <1>2, <1>4 DEF Locals, Position
    <2>2. ASSUME fixed_hdr_idx = 2, h = 3 PROVE FALSE
      <3>1. b = m[2] /\ m[2] >= Base
        BY <1>2, <2>1, <2>2 DEF Announced
      <3> QED BY <1>0, <3>1
    <2>3. fixed_hdr_idx = h
      BY <1>0, <1>3, <2>1, <2>2
    <2> QED BY <1>3, <2>1, <2>3
  <1>6. chunk \in Seq(Int) /\ l \in Nat /\ l # 0
    <2>1. chunk \in Seq(Int)
      BY <1>0 DEF Types, Stream
    <2> QED BY <1>0, <1>4, <2>1, EmptySeq
  <1>7. PICK s, n : s = Place(h) /\ n = CopyLength(BufLen - s)
    OBVIOUS
  <1>8. s = CopyStart
    BY <1>5, <1>7 DEF CopyStart, Place
  <1>9. s \in h..(BufLen - 1) /\ s <= k /\ (s # k => k >= BufLen)
    <2>1. PICK v, d, w : v = k - h /\ d = BufLen - h /\ w = v % d
      OBVIOUS
    <2>2. v \in Nat /\ d \in Nat /\ d > 0
      BY <1>3, <1>5, <2>1
    <2>3. w \in 0..(d - 1) /\ w <= v /\ (w # v => v >= d)
      BY <2>1, <2>2, PlaceMoves
    <2>4. s = w + h
      BY <1>4, <1>7, <2>1 DEF Place
    <2> QED BY ONLY <1>3, <1>5, <2>1, <2>2, <2>3, <2>4
  <1>10. n \in 1..(BufLen - s) /\ k + n <= Len(m) /\ n <= l
    <2>1. n = MinOf(MinOf(l, Len(m) - k), BufLen - s)
      BY <1>4, <1>5, <1>7 DEF CopyLength
    <2>2. PICK g, z, y : g = Len(m) - k /\ z = BufLen - s /\ y = MinOf(l, g)
      OBVIOUS
    <2>3. g \in Nat /\ g > 0 /\ z \in Nat /\ z > 0
      BY ONLY <1>3, <1>5, <1>9, <2>2
    <2>4. y \in Nat /\ y > 0 /\ y <= l /\ y <= g
      BY ONLY <1>6, <2>2, <2>3 DEF MinOf
    <2>5. n = MinOf(y, z)
      BY <2>1, <2>2
    <2>6. n \in Nat /\ n > 0 /\ n <= y /\ n <= z
      BY ONLY <2>3, <2>4, <2>5 DEF MinOf
    <2>7. k + n <= Len(m)
      BY ONLY <1>3, <1>5, <2>2, <2>4, <2>6
    <2> QED BY ONLY <1>6, <2>2, <2>3, <2>4, <2>6, <2>7
  <1>11. PICK rx : rx = [i \in 0..(BufLen - 1) |->
                           IF i \in s..(s + n - 1) THEN chunk[i - s + 1]
                           ELSE rx_buffer[i]]
    BY Zenon
  <1>12. Taken(m, t, chunk, stream, k, n)
    <2>1. /\ t \in Seq(Int) /\ stream \in Seq(Int)
          /\ Rest(m, k) \o t = chunk \o stream
      BY <1>0, <1>2, <1>4, Zenon DEF Types, Position, Stream
    <2>2. k \in Nat /\ n \in Nat /\ n <= Len(chunk)
      BY <1>3, <1>4, <1>5, <1>9, <1>10
    <2> QED BY ONLY <1>3, <1>6, <1>10, <2>1, <2>2, Take, Zenon
  <1>13. Rest(chunk, n) \in Seq(Int)
    <2>1. n \in 0..Len(chunk)
      BY <1>3, <1>4, <1>6, <1>9, <1>10
    <2> QED BY <1>6, <2>1, RestIs
  <1>14. rx_buffer \in [0..(BufLen - 1) -> Int]
    BY <1>0 DEF Types
  <1>15. \A i \in s..(s + n - 1) : i - s + 1 \in 1..l /\ i - s + 1 \in 1..n
    BY ONLY <1>3, <1>6, <1>9, <1>10
  <1>16. rx \in [0..(BufLen - 1) -> Int]
    <2>1. \A i \in 1..l : chunk[i] \in Int
      BY <1>4, <1>6, ElementOfSeq
    <2>2. ASSUME NEW i \in 0..(BufLen - 1), i \in s..(s + n - 1)
          PROVE  chunk[i - s + 1] \in Int
      BY <1>15, <2>1, <2>2
    <2>3. ASSUME NEW i \in 0..(BufLen - 1) PROVE rx_buffer[i] \in Int
      BY <1>14
    <2> QED BY <1>11, <2>2, <2>3
  <1>17. ASSUME NEW j \in 0..(h - 1) PROVE rx[j] = m[j + 1]
    <2>1. j \in 0..(BufLen - 1) /\ j \notin s..(s + n - 1) /\ j < k
      BY ONLY <1>3, <1>5, <1>9, <1>10, j \in 0..(h - 1)
    <2>2. rx_buffer[j] = m[j + 1]
      BY <1>2, <1>4, <2>1, Zenon DEF Header
    <2> QED BY <1>11, <2>1, <2>2
  <1>18. ASSUME NEW i \in h..(s + n - 1) PROVE rx[i] = m[k - s + i + 1]
    <2>0. i \in 0..(BufLen - 1)
      BY ONLY <1>3, <1>9, <1>10, i \in h..(s + n - 1)
    <2>1. CASE i < s
      <3>1. i \in h..(s - 1) /\ i \notin s..(s + n - 1)
        BY ONLY <1>3, <1>9, <1>10, <2>1, i \in h..(s + n - 1)
      <3>2. rx_buffer[i] = m[k - s + i + 1]
        <4>1. Copied(h, m)
          BY <1>2, <1>3, <1>4, <1>5 DEF Window
        <4> QED BY <1>4, <1>7, <3>1, <4>1, Zenon DEF Copied
      <3> QED BY <1>11, <2>0, <3>1, <3>2
    <2>2. CASE i >= s
      <3>1. i \in s..(s + n - 1)
        BY ONLY <1>3, <1>9, <1>10, <2>2, i \in h..(s + n - 1)
      <3>2. PICK j : j = i - s + 1
        OBVIOUS
      <3>3. j \in 1..n /\ k + j = k - s + i + 1
        BY ONLY <1>3, <1>5, <1>9, <1>15, <3>1, <3>2
      <3>4. chunk[j] = m[k + j]
        BY <1>12, <3>3 DEF Taken
      <3>5. rx[i] = chunk[j]
        BY <1>11, <2>0, <3>1, <3>2
      <3> QED BY <3>3, <3>4, <3>5
    <2> QED BY <1>3, <1>9, <2>0, <2>1, <2>2
  <1>19. PassedOn(h, q)
    BY <1>2, <1>3, <1>4, <1>5 DEF Window
  <1>b. b < Base
    <2>1. b \in Int /\ ~(b >= Base)
      BY <1>0 DEF Types
    <2> QED BY <1>3, <2>1
  <1>20. Copying(h, m, q, t, r, s, n, rx)
    <2>1. Rest(m, k + n) \o t = Rest(chunk, n) \o stream
      BY <1>12 DEF Taken
    <2>2. Framed(t, r) /\ inflight = q \o r
      BY <1>2 DEF Position
    <2> QED BY <1>2, <1>4, <1>5, <1>7, <1>9, <1>10, <1>13, <1>16, <1>17, <1>18, <1>19,
               <1>b, <2>1, <2>2, Zenon DEF Copying
  <1>21. msg_rem_len - n = Len(m) - (msg_idx + n)
    BY ONLY <1>3, <1>4, <1>5, <1>9, <1>10
  <1>22. Turn(h, m, n)
    BY <1>5, <1>7, <1>8, <1>21, SMTT(30) DEF CopyBytes, Turn
  <1>23. Fragment(h, m, s, n, rx) \/ Plain(h, m, s, n, rx)
    BY <1>5, <1>7, <1>8, <1>11, <1>21, Zenon DEF CopyBytes, Fragment, Plain, Due, Rest
  <1> QED BY <1>20, <1>22, <1>23, Zenon

(* The numbers of a copy.                                                  *)
LEMMA CopyNumbers ==
    ASSUME NEW h, NEW m, NEW q, NEW t, NEW r, NEW s, NEW n, NEW rx,
           Copying(h, m, q, t, r, s, n, rx), NEW k, k = msg_idx
    PROVE  /\ m \in Seq(Int) /\ h \in {2, 3} /\ Len(m) \in Nat /\ BufLen \in Nat /\ BufLen > 7
           /\ k \in h..(Len(m) - 1) /\ s \in h..(BufLen - 1) /\ s <= k
           /\ (s # k => k >= BufLen) /\ n \in 1..(BufLen - s) /\ k + n <= Len(m)
           /\ k \in Nat /\ s \in Nat /\ n \in Nat /\ s + n <= BufLen
  <1>1. /\ m \in Seq(Int) /\ h \in {2, 3} /\ Len(m) \in Nat /\ BufLen \in Nat /\ BufLen > 7
    BY InPublishAssumption DEF Copying, Announced
  <1>2. /\ k \in h..(Len(m) - 1) /\ s \in h..(BufLen - 1) /\ s <= k
        /\ (s # k => k >= BufLen) /\ n \in 1..(BufLen - s) /\ k + n <= Len(m)
    BY DEF Copying
  <1>3. k \in Nat /\ s \in Nat /\ n \in Nat /\ s + n <= BufLen
    BY ONLY <1>1, <1>2
  <1> QED BY <1>1, <1>2, <1>3, Zenon

(* The place of the next byte: behind the copy, or at the start of the     *)
(* window when the copy fills it.                                          *)
LEMMA NextPlace ==
    ASSUME NEW h, NEW m, NEW q, NEW t, NEW r, NEW s, NEW n, NEW rx,
           Copying(h, m, q, t, r, s, n, rx), msg_idx' = msg_idx + n
    PROVE  Place(h)' = IF n = BufLen - s THEN h ELSE s + n
  <1>1. PICK k, v, d, w : k = msg_idx /\ v = k - h /\ d = BufLen - h /\ w = v % d
    OBVIOUS
  <1>2. /\ h \in {2, 3} /\ BufLen \in Nat /\ BufLen > 7 /\ k \in Nat /\ k >= h
        /\ s \in Nat /\ n \in Nat /\ s + n <= BufLen
    <2>1. k \in h..(Len(m) - 1)
      BY <1>1, CopyNumbers
    <2> QED BY <1>1, <2>1, CopyNumbers
  <1>3. v \in Nat /\ d \in Nat /\ d > 0
    BY ONLY <1>1, <1>2
  <1>4. /\ w \in 0..(d - 1)
        /\ w + n < d => (v + n) % d = w + n
        /\ w + n = d => (v + n) % d = 0
    <2>1. /\ v % d \in 0..(d - 1)
          /\ \A i \in Nat : (v % d) + i < d => (v + i) % d = (v % d) + i
          /\ \A i \in Nat : (v % d) + i = d => (v + i) % d = 0
      BY <1>3, PlaceMoves, Zenon
    <2> QED BY <1>1, <1>2, <2>1, Zenon
  <1>5. s = w + h
    BY <1>1 DEF Copying, Place
  <1>6. v + n = (k + n) - h
    BY ONLY <1>1, <1>2
  <1>7. Place(h)' = ((v + n) % d) + h
    BY <1>1, <1>6 DEF Place
  <1>8. CASE n = BufLen - s
    <2>1. w + n = d
      BY ONLY <1>1, <1>2, <1>3, <1>4, <1>5, <1>8
    <2> QED BY <1>2, <1>4, <1>7, <1>8, <2>1
  <1>9. CASE n # BufLen - s
    <2>1. w + n < d /\ (w + n) + h = s + n
      <3>1. w \in Nat
        BY <1>3, <1>4
      <3> QED BY ONLY <1>1, <1>2, <1>3, <3>1, <1>5, <1>9
    <2> QED BY <1>4, <1>7, <1>9, <2>1
  <1> QED BY <1>8, <1>9

(* The message goes on: what was copied stays in the window, unless that   *)
(* was passed on.                                                          *)
LEMMA MessageGoesOn ==
    ASSUME Types, NEW h, NEW m, NEW q, NEW t, NEW r, NEW s, NEW n, NEW rx,
           Copying(h, m, q, t, r, s, n, rx), Turn(h, m, n), Len(m) - (msg_idx + n) # 0,
           rx_buffer' = rx, chunk' = Rest(chunk, n), msg_idx' = msg_idx + n,
           UNCHANGED <<stream, inflight, rejected, bailed>>,
           incoming_publish' \in BOOLEAN, PassedOn(h, q)'
    PROVE  IInv'
  <1>1. PICK k : k = msg_idx
    BY Zenon
  <1>2. /\ m \in Seq(Int) /\ h \in {2, 3} /\ Len(m) \in Nat /\ BufLen \in Nat /\ BufLen > 7
        /\ k \in h..(Len(m) - 1) /\ s \in h..(BufLen - 1) /\ s <= k
        /\ n \in 1..(BufLen - s) /\ k + n <= Len(m)
        /\ k \in Nat /\ s \in Nat /\ n \in Nat /\ s + n <= BufLen
    BY <1>1, CopyNumbers, Zenon
  <1>3. k + n \in 0..(Len(m) - 1) /\ k + n \in Nat /\ k + n >= h
    BY <1>1, <1>2
  <1>4. Types'
    <2>1. Len(m) - (k + n) \in Int /\ h \in Nat
      BY <1>2, <1>3
    <2>2. rx \in [0..(BufLen - 1) -> Int] /\ Rest(chunk, n) \in Stream
      BY DEF Copying, Stream
    <2> QED BY <1>1, <1>3, <2>1, <2>2, Zenon DEF Types, Turn, broker
  <1>5. Position(m, q, t, r)'
    BY <1>1, <1>3, Zenon DEF Copying, Position, Framed
  <1>6. Header(h, m)'
    BY Zenon DEF Copying, Header
  <1>7. Copied(h, m)'
    <2>0. PICK g : g = Place(h)'
      OBVIOUS
    <2> SUFFICES ASSUME NEW i \in h..(g - 1)
                 PROVE  rx[i] = m[(k + n) - g + i + 1]
      BY <1>1, <2>0, Zenon DEF Copied
    <2>1. CASE n = BufLen - s
      <3>1. g = h
        BY <2>0, <2>1, NextPlace, Zenon
      <3>2. FALSE
        BY ONLY <1>2, <3>1, i \in h..(g - 1), SMTT(30)
      <3> QED BY <3>2, Zenon
    <2>2. CASE n # BufLen - s
      <3>1. g = s + n
        BY <2>0, <2>2, NextPlace
      <3>2. i \in h..(s + n - 1)
        BY <1>2, <3>1
      <3>3. (k + n) - (s + n) + i + 1 = k - s + i + 1
        BY <1>2, <3>2
      <3>4. rx[i] = m[k - s + i + 1]
        BY <1>1, <3>2, Zenon DEF Copying
      <3> QED BY <3>1, <3>3, <3>4, Zenon
    <2> QED BY <2>1, <2>2, Zenon
  <1>8. Window(h, m, q)'
    BY <1>7, Zenon DEF Window
  <1>9. Locals(h, m)'
    <2>1. fixed_hdr_idx' = h /\ msg_rem_len' = Len(m) - (k + n) /\ b' = b /\ b < Base
      BY <1>1, Zenon DEF Turn, Copying
    <2> QED BY <1>1, <1>2, <1>3, <2>1 DEF Locals
  <1>10. Within(h, m, q, t, r)'
    BY <1>5, <1>6, <1>8, <1>9, Zenon DEF Within, Copying
  <1> QED BY <1>4, <1>10 DEF IInv

(* The message ends.                                                       *)
LEMMA MessageEnds ==
    ASSUME Types, NEW h, NEW m, NEW q, NEW t, NEW r, NEW s, NEW n, NEW rx,
           Copying(h, m, q, t, r, s, n, rx), Turn(h, m, n), Len(m) - (msg_idx + n) = 0,
           rx_buffer' = rx, chunk' = Rest(chunk, n), msg_idx' = 0, inflight' = r,
           UNCHANGED <<stream, rejected, bailed>>, incoming_publish' \in BOOLEAN
    PROVE  IInv'
  <1>1. PICK k : k = msg_idx
    OBVIOUS
  <1>2. m \in Seq(Int) /\ Len(m) \in Nat /\ k + n = Len(m)
    <2>1. m \in Seq(Int) /\ Len(m) \in Nat /\ k \in Nat /\ n \in Nat
      BY <1>1, CopyNumbers, Zenon
    <2> QED BY <1>1, <2>1
  <1>3. t \in Seq(Int) /\ r \in Pending
    BY DEF Copying, Framed, Stream
  <1>4. Rest(m, k + n) = <<>>
    BY <1>2, SubSeqEmpty DEF Rest
  <1>5. (chunk \o stream)' = t
    <2>1. <<>> \o t = Rest(chunk, n) \o stream
      BY <1>1, <1>4, Zenon DEF Copying
    <2>2. <<>> \o t = t
      BY <1>3, ConcatEmptySeq, Zenon
    <2> QED BY <2>1, <2>2
  <1>6. Between'
    BY <1>5, Zenon DEF Between, Turn, Copying
  <1>7. Types'
    <2>1. 0 \in Nat /\ 0 \in Int
      OBVIOUS
    <2>2. rx \in [0..(BufLen - 1) -> Int] /\ Rest(chunk, n) \in Stream
      BY DEF Copying, Stream
    <2> QED BY <1>3, <2>1, <2>2, Zenon DEF Types, Turn, broker
  <1> QED BY <1>6, <1>7 DEF IInv

(* A turn that passes nothing on: a SUBACK, or a PUBLISH that neither ends *)
(* nor fills the window.                                                   *)
LEMMA PlainKeeps ==
    ASSUME Types, NEW h, NEW m, NEW q, NEW t, NEW r, NEW s, NEW n, NEW rx,
           Copying(h, m, q, t, r, s, n, rx), Turn(h, m, n), Plain(h, m, s, n, rx)
    PROVE  IInv' /\ UNCHANGED <<inflight, handled>>
  <1>1. PICK k : k = msg_idx
    BY Zenon
  <1>2. /\ h \in {2, 3} /\ k \in Nat /\ s \in Nat /\ n \in Nat /\ s <= k
    BY <1>1, CopyNumbers
  <1>3. q # <<>> => rx[0] = PUBLISH
    <2>1. q # <<>> => m[1] = PUBLISH
      BY MessageShape, Zenon DEF Copying, Carries
    <2>2. rx[0] = m[0 + 1]
      <3>1. 0 \in 0..(h - 1)
        BY <1>2
      <3> QED BY <3>1 DEF Copying
    <2>3. 0 + 1 = 1
      OBVIOUS
    <2> QED BY <2>1, <2>2, <2>3, Zenon
  <1>4. /\ rx_buffer' = rx /\ chunk' = Rest(chunk, n)
        /\ UNCHANGED <<stream, rejected, bailed>> /\ UNCHANGED <<inflight, handled>>
        /\ incoming_publish' = incoming_publish /\ sub' = sub
        /\ incoming_publish \in BOOLEAN
    BY DEF Plain, comms, Types
  <1>5. CASE Len(m) - (msg_idx + n) = 0
    <2>1. msg_idx' = 0 /\ q = <<>>
      BY <1>3, <1>5, Zenon DEF Plain, Due
    <2>2. inflight' = r
      BY <1>4, <2>1, ConcatEmptySeq, Zenon DEF Copying, Framed, Pending
    <2>3. IInv'
      BY <1>4, <1>5, <2>1, <2>2, MessageEnds, Zenon
    <2> QED BY <1>4, <2>3
  <1>6. CASE Len(m) - (msg_idx + n) # 0
    <2>1. msg_idx' = msg_idx + n
      BY <1>6 DEF Plain
    <2>2. PassedOn(h, q)'
      <3>1. CASE q = <<>>
        BY <3>1, Zenon DEF PassedOn
      <3>2. CASE q # <<>>
        <4>1. n # BufLen - s
          BY <1>3, <3>2, Zenon DEF Plain, Due
        <4>2. Place(h)' = s + n
          BY <2>1, <4>1, NextPlace
        <4>3. (msg_idx - Place(h))' = k - s
          BY <1>1, <1>2, <2>1, <4>2
        <4>4. msg_idx - Place(h) = k - s
          BY <1>1, Zenon DEF Copying
        <4> QED BY <1>4, <4>3, <4>4, Zenon DEF Copying, PassedOn
      <3> QED BY <3>1, <3>2
    <2>3. IInv'
      BY <1>4, <1>6, <2>1, <2>2, MessageGoesOn, Zenon
    <2> QED BY <1>4, <2>3
  <1> QED BY <1>5, <1>6

-----------------------------------------------------------------------------
(* A fragment of a PUBLISH.                                                *)

Reassembly(x, y, z, w) == [in |-> x, sub |-> y, handled |-> z, bailed |-> w]

(* The fields of the reassembly's state.                                   *)
LEMMA Fields ==
    ASSUME NEW x, NEW y, NEW z, NEW w, NEW c, c = Reassembly(x, y, z, w)
    PROVE  c.in = x /\ c.sub = y /\ c.handled = z /\ c.bailed = w
  BY DEF Reassembly

(* mqtt_pub_cb accepts a payload if it fits, and rewinds sub_ptr.          *)
LEMMA PubCb ==
    ASSUME NEW x, NEW y, NEW z, NEW w, NEW l, NEW u, u = (l <= SubCap)
    PROVE  mqtt_pub_cb(Reassembly(x, y, z, w), l) = Reassembly(u, <<>>, z, w)
  <1>1. PICK c, e : c = Reassembly(x, y, z, w) /\ e = mqtt_pub_cb(c, l)
    OBVIOUS
  <1>2. e = [c EXCEPT !.in = u, !.sub = <<>>]
    BY <1>1, Zenon DEF mqtt_pub_cb
  <1>3. e = Reassembly(u, <<>>, z, w)
    <2>1. c = Reassembly(x, y, z, w)
      BY <1>1
    <2> QED BY ONLY <1>2, <2>1, Zenon DEF Reassembly
  <1> QED BY <1>1, <1>3, Zenon

(* A prefix of a payload and the bytes that follow it.                     *)
LEMMA Prefix ==
    ASSUME NEW p \in Seq(Int), NEW d \in Nat, NEW g \in Nat, d + g <= Len(p),
           NEW data, data = [i \in 1..g |-> p[d + i]]
    PROVE  /\ data \in Seq(Int) /\ Len(data) = g
           /\ SubSeq(p, 1, d) \in Seq(Int) /\ Len(SubSeq(p, 1, d)) = d
           /\ SubSeq(p, 1, d) \o data = SubSeq(p, 1, d + g)
  <1>1. PICK l : l = Len(p)
    BY Zenon
  <1>2. l \in Nat /\ d + g <= l
    BY <1>1, LenProperties
  <1>3. /\ 1 \in 1..(l + 1) /\ d \in (1 - 1)..l /\ d + g \in d..l
        /\ d + 1 \in Int /\ d + g \in Int /\ 1 \in Int /\ d \in Int
    BY <1>2
  <1>4. SubSeq(p, 1, d) \o SubSeq(p, d + 1, d + g) = SubSeq(p, 1, d + g)
    BY <1>1, <1>3, ConcatAdjacentSubSeq, Zenon
  <1>5. \A i \in 1..l : p[i] \in Int
    BY <1>1, ElementOfSeq
  <1>6. (\A i \in 1..d : p[i] \in Int) /\ (\A i \in (d + 1)..(d + g) : p[i] \in Int)
    BY <1>2, <1>5
  <1>7. /\ SubSeq(p, 1, d) \in Seq(Int)
        /\ Len(SubSeq(p, 1, d)) = IF 1 <= d THEN d - 1 + 1 ELSE 0
    BY <1>3, <1>6, SubSeqProperties
  <1>8. Len(SubSeq(p, 1, d)) = d
    BY <1>7
  <1>9. PICK y : y = SubSeq(p, d + 1, d + g)
    BY Zenon
  <1>10. /\ y \in Seq(Int)
         /\ Len(y) = IF d + 1 <= d + g THEN (d + g) - (d + 1) + 1 ELSE 0
         /\ \A i \in 1..((d + g) - (d + 1) + 1) : y[i] = p[(d + 1) + i - 1]
    <2>1. PICK a, e : a = d + 1 /\ e = d + g
      BY Zenon
    <2>2. a \in Int /\ e \in Int /\ \A i \in a..e : p[i] \in Int
      BY <1>3, <1>6, <2>1, Zenon
    <2>3. /\ SubSeq(p, a, e) \in Seq(Int)
          /\ Len(SubSeq(p, a, e)) = IF a <= e THEN e - a + 1 ELSE 0
          /\ \A i \in 1..(e - a + 1) : SubSeq(p, a, e)[i] = p[a + i - 1]
      BY ONLY <2>2, SubSeqProperties
    <2> QED BY <1>9, <2>1, <2>3
  <1>11. Len(y) = g /\ (d + g) - (d + 1) + 1 = g
    BY <1>10
  <1>12. data \in Seq(Int) /\ Len(data) = g
    <2>1. \A i \in 1..g : p[d + i] \in Int
      <3> TAKE i \in 1..g
      <3>1. d + i \in 1..l
        BY <1>2
      <3> QED BY <1>5, <3>1
    <2> QED BY <2>1
  <1>13. ASSUME NEW i \in 1..g PROVE y[i] = data[i]
    <2>1. (d + 1) + i - 1 = d + i
      OBVIOUS
    <2> QED BY <1>10, <1>11, <2>1
  <1>14. y = data
    BY ONLY <1>10, <1>11, <1>12, <1>13, SeqEqual
  <1> QED BY <1>4, <1>7, <1>8, <1>9, <1>12, <1>14, Zenon

(* Of payload p, d bytes were passed on before and data are the next g.    *)
NextBytes(p, d, g, data) ==
    /\ p \in Seq(Int) /\ d \in Nat /\ g \in Nat /\ d + g <= Len(p)
    /\ data = [i \in 1..g |-> p[d + i]]

Held(p, d, x, y) ==
    /\ x = (Len(p) <= SubCap)
    /\ x => y = SubSeq(p, 1, d)

(* The reassembly c once e bytes of p were passed on.                      *)
Reassembled(c, p, e, z, w, last) ==
    /\ c.bailed = w
    /\ c.in = (Len(p) <= SubCap /\ ~last)
    /\ Len(p) <= SubCap => c.sub = SubSeq(p, 1, e)
    /\ c.handled = IF last /\ Len(p) <= SubCap THEN Append(z, p) ELSE z

(* mqtt_data_cb with the next bytes of a payload.                          *)
LEMMA DataCb ==
    ASSUME NEW p, NEW d, NEW g, NEW data, NEW x, NEW y, NEW z, NEW w,
           NEW last \in BOOLEAN, NextBytes(p, d, g, data), Held(p, d, x, y),
           last => d + g = Len(p)
    PROVE  Reassembled(mqtt_data_cb(Reassembly(x, y, z, w), data, last),
                       p, d + g, z, w, last)
  <1>0. PICK a, c : /\ a = Reassembly(x, y, z, w)
                    /\ c = mqtt_data_cb(Reassembly(x, y, z, w), data, last)
    OBVIOUS
  <1>1. a.in = x /\ a.sub = y /\ a.handled = z /\ a.bailed = w
    <2>1. a = Reassembly(x, y, z, w)
      BY <1>0
    <2> QED BY ONLY <2>1, Fields
  <1>2. c = mqtt_data_cb(a, data, last)
    BY <1>0, Zenon
  <1>3. CASE ~(Len(p) <= SubCap)
    <2>1. x = FALSE
      <3>1. (Len(p) <= SubCap) = FALSE
        BY <1>3
      <3> QED BY <3>1, Zenon DEF Held
    <2>2. c = a
      BY <1>1, <1>2, <2>1, Zenon DEF mqtt_data_cb
    <2>3. c.in = FALSE
      BY <1>1, <2>1, <2>2, Zenon
    <2> QED BY <1>0, <1>1, <1>3, <2>2, <2>3, Zenon DEF Reassembled
  <1>4. CASE Len(p) <= SubCap
    <2>0. x /\ y = SubSeq(p, 1, d)
      BY <1>4, Zenon DEF Held
    <2>1. /\ Len(data) = g /\ Len(y) = d /\ y \o data = SubSeq(p, 1, d + g)
      <3>1. /\ Len(data) = g /\ Len(SubSeq(p, 1, d)) = d
            /\ SubSeq(p, 1, d) \o data = SubSeq(p, 1, d + g)
        BY Prefix DEF NextBytes
      <3> QED BY <2>0, <3>1, Zenon
    <2>2. Len(p) \in Nat /\ SubCap \in Nat /\ d \in Nat /\ g \in Nat /\ d + g <= Len(p)
          /\ p \in Seq(Int)
      BY LenProperties, InPublishAssumption DEF NextBytes
    <2>3. ~(Len(y) + Len(data) > SubCap)
      BY <1>4, <2>1, <2>2
    <2>4. PICK v, l, u : /\ v = y \o data /\ u = ~last
                         /\ l = IF last THEN Append(z, v) ELSE z
      BY Zenon
    <2>5. c = [a EXCEPT !.sub = v, !.handled = l, !.in = u]
      BY <1>1, <1>2, <2>0, <2>3, <2>4, Zenon DEF mqtt_data_cb
    <2>6. c = Reassembly(u, v, l, w)
      <3>1. a = Reassembly(x, y, z, w)
        BY <1>0
      <3> QED BY ONLY <2>5, <3>1, Zenon DEF Reassembly
    <2>7. c.in = u /\ c.sub = v /\ c.handled = l /\ c.bailed = w
      BY ONLY <2>6, Fields
    <2>8. last => v = p
      BY <2>1, <2>2, <2>4, SubSeqFull
    <2> QED BY <1>0, <1>4, <2>1, <2>4, <2>7, <2>8, Zenon DEF Reassembled
  <1> QED BY <1>3, <1>4, Zenon

(* What a turn leaves when fragment data was passed on with result c.      *)
Passed(c, rx, received, more, rest) ==
    /\ incoming_publish' = c.in /\ sub' = c.sub
    /\ handled' = c.handled /\ bailed' = c.bailed
    /\ inflight' = IF more = 0 THEN Tail(inflight) ELSE inflight
    /\ rx_buffer' = rx /\ chunk' = rest
    /\ msg_idx' = IF more = 0 THEN 0 ELSE received
    /\ UNCHANGED <<stream, rejected>>

Refused ==
    /\ rejected' = (rejected \/ Head(inflight) # <<>>)
    /\ stream' = <<>> /\ chunk' = <<>> /\ inflight' = <<>>
    /\ Reset
    /\ UNCHANGED <<comms, handled, bailed>>

(* Of length bytes behind a header of h bytes those behind a topic of one  *)
(* byte, or all of them in a later fragment, go to mqtt_data_cb.           *)
FirstData(rx, h, received, length, more, rest) ==
    \E data, c :
        /\ data = [i \in 1..(length - 3) |-> rx[h + (3 + i - 1)]]
        /\ c = mqtt_data_cb(mqtt_pub_cb(
                   Reassembly(incoming_publish, sub, handled, bailed),
                   more + length - 3), data, more = 0)
        /\ Passed(c, rx, received, more, rest)

LaterData(rx, h, received, length, more, rest) ==
    \E data, c :
        /\ data = [i \in 1..length |-> rx[h + (0 + i - 1)]]
        /\ c = mqtt_data_cb(Reassembly(incoming_publish, sub, handled, bailed),
                            data, more = 0)
        /\ Passed(c, rx, received, more, rest)

(* The first fragment, with a topic of one byte.                           *)
LEMMA FirstFragment ==
    ASSUME NEW rx, NEW received, NEW length \in Int, NEW more, NEW rest, received <= BufLen,
           rx[fixed_hdr_idx + 0] = 0, rx[fixed_hdr_idx + 1] = 1,
           PublishFragment(rx, received, length, more, rest)
    PROVE  \/ length < 4 /\ Refused
           \/ /\ length >= 4
              /\ FirstData(rx, fixed_hdr_idx, received, length, more, rest)
  <1> DEFINE at(i) == rx[fixed_hdr_idx + i]
             after == 2 + 256 * at(0) + at(1)
             offset == IF received <= BufLen THEN after ELSE 0
             data == [i \in 1..(length - offset) |-> at(offset + i - 1)]
             c0 == Reassembly(incoming_publish, sub, handled, bailed)
             c1 == IF received <= BufLen THEN mqtt_pub_cb(c0, more + length - offset) ELSE c0
             c2 == IF data # <<>> \/ more = 0 THEN mqtt_data_cb(c1, data, more = 0) ELSE c1
  <1>1. IF received <= BufLen /\ ~TopicFits(after, length) THEN Refused
        ELSE Passed(c2, rx, received, more, rest)
    BY Zenon DEF PublishFragment, Refused, Passed, Reassembly
  <1>2. after = 3
    OBVIOUS
  <1>3. offset = 3
    BY <1>2, Zenon
  <1>4. TopicFits(after, length) <=> length >= 4
    BY <1>2 DEF TopicFits
  <1>5. CASE length < 4
    <2>1. ~TopicFits(after, length)
      BY <1>4, <1>5
    <2> QED BY <1>1, <1>5, <2>1, Zenon
  <1>6. CASE length >= 4
    <2>0. PICK z, a, c :
              /\ z = [i \in 1..(length - 3) |-> rx[fixed_hdr_idx + (3 + i - 1)]]
              /\ a = mqtt_pub_cb(c0, more + length - 3)
              /\ c = mqtt_data_cb(a, z, more = 0)
      BY Zenon
    <2>1. data = z
      BY <1>3, <2>0
    <2>2. z # <<>>
      <3>1. 1 \in DOMAIN z
        BY <1>6, <2>0
      <3> QED BY <3>1
    <2>3. c1 = a
      BY <1>3, <2>0
    <2>4. c2 = c
      <3>1. data # <<>>
        BY <2>1, <2>2, Zenon
      <3>2. c2 = mqtt_data_cb(c1, data, more = 0)
        BY <3>1, Zenon
      <3> HIDE DEF data, c1, c2
      <3> QED BY <2>0, <2>1, <2>3, <3>2, Zenon
    <2>5. Passed(c, rx, received, more, rest)
      <3>1. TopicFits(after, length)
        BY <1>4, <1>6
      <3> QED BY <1>1, <2>4, <3>1, Zenon
    <2> QED BY <1>6, <2>0, <2>5, Zenon DEF FirstData
  <1>7. length < 4 \/ length >= 4
    BY SMTT(30)
  <1> QED BY <1>5, <1>6, <1>7, ZenonT(30)

(* A later fragment.                                                       *)
LEMMA LaterFragment ==
    ASSUME NEW rx, NEW received, NEW length \in Int, NEW more, NEW rest,
           ~(received <= BufLen), length > 0,
           PublishFragment(rx, received, length, more, rest)
    PROVE  LaterData(rx, fixed_hdr_idx, received, length, more, rest)
  <1> DEFINE at(i) == rx[fixed_hdr_idx + i]
             after == 2 + 256 * at(0) + at(1)
             offset == IF received <= BufLen THEN after ELSE 0
             data == [i \in 1..(length - offset) |-> at(offset + i - 1)]
             c0 == Reassembly(incoming_publish, sub, handled, bailed)
             c1 == IF received <= BufLen THEN mqtt_pub_cb(c0, more + length - offset) ELSE c0
             c2 == IF data # <<>> \/ more = 0 THEN mqtt_data_cb(c1, data, more = 0) ELSE c1
  <1>1. IF received <= BufLen /\ ~TopicFits(after, length) THEN Refused
        ELSE Passed(c2, rx, received, more, rest)
    BY Zenon DEF PublishFragment, Refused, Passed, Reassembly
  <1>2. offset = 0 /\ length - 0 = length
    OBVIOUS
  <1>3. data = [i \in 1..length |-> rx[fixed_hdr_idx + (0 + i - 1)]]
    BY <1>2, Zenon
  <1>4. data # <<>>
    <2>1. 1 \in DOMAIN data
      BY <1>3, SMTT(30)
    <2> QED BY <2>1
  <1>5. c2 = mqtt_data_cb(c0, data, more = 0)
    BY <1>4
  <1>6. Passed(c2, rx, received, more, rest)
    BY <1>1, Zenon
  <1> QED BY <1>3, <1>5, <1>6, ZenonT(30) DEF LaterData

ChannelStep ==
    Channel!ChPublish \/ Channel!ChDeliver \/ Channel!ChLose \/ UNCHANGED <<inflight, handled>>

(* A fragment that is due and ends with byte e of payload p; more bytes of *)
(* the message are to come.                                                *)
Ending(h, m, q, p, s, n, more, e, last) ==
    /\ Due(m, n, s) /\ p \in Seq(Int) /\ q = <<p>>
    /\ more = Len(m) - (msg_idx + n) /\ e = msg_idx + n - h - 3 /\ e > 0
    /\ last = (more = 0)

(* Once it is passed on the payload is handled if it was the last fragment *)
(* and the payload fits.                                                   *)
LEMMA AfterFragment ==
    ASSUME Types, NEW h, NEW m, NEW q, NEW t, NEW r, NEW s, NEW n, NEW rx,
           Copying(h, m, q, t, r, s, n, rx), Turn(h, m, n),
           NEW p, NEW more, NEW e, NEW last, Ending(h, m, q, p, s, n, more, e, last),
           NEW c, Passed(c, rx, msg_idx + n, more, Rest(chunk, n)),
           Reassembled(c, p, e, handled, bailed, last)
    PROVE  IInv' /\ ChannelStep
  <1>0. PICK k : k = msg_idx
    OBVIOUS
  <1>e. /\ Due(m, n, s) /\ p \in Seq(Int) /\ q = <<p>> /\ more = Len(m) - (msg_idx + n)
        /\ e = k + n - h - 3 /\ e > 0 /\ last = (more = 0)
    BY <1>0, Zenon DEF Ending
  <1>1. /\ inflight # <<>> /\ Head(inflight) = p /\ Tail(inflight) = r
    <2>1. inflight = <<p>> \o r /\ r \in Seq(Seq(Int))
      BY <1>e DEF Copying, Framed, Pending
    <2> QED BY <2>1, SMTT(30)
  <1>2. /\ rx_buffer' = rx /\ chunk' = Rest(chunk, n)
        /\ UNCHANGED <<stream, rejected, bailed>>
        /\ incoming_publish' = (Len(p) <= SubCap /\ ~(more = 0))
        /\ handled' = IF more = 0 /\ Len(p) <= SubCap THEN Append(handled, p) ELSE handled
        /\ Len(p) <= SubCap => sub' = SubSeq(p, 1, e)
    BY <1>e, Zenon DEF Passed, Reassembled
  <1>3. incoming_publish' \in BOOLEAN
    BY <1>2, Zenon
  <1>4. CASE more = 0
    <2>1. msg_idx' = 0 /\ inflight' = r
      BY <1>1, <1>4, Zenon DEF Passed
    <2>2. IInv'
      BY <1>2, <1>3, <1>4, <1>e, <2>1, MessageEnds, Zenon
    <2>3. handled' = IF Len(Head(inflight)) <= SubCap
                     THEN Append(handled, Head(inflight)) ELSE handled
      BY <1>1, <1>2, <1>4, Zenon
    <2>4. Channel!ChDeliver
      BY <1>1, <2>1, <2>3, Zenon DEF Channel!ChDeliver
    <2> QED BY <2>2, <2>4, Zenon DEF ChannelStep
  <1>5. CASE more # 0
    <2>1. msg_idx' = msg_idx + n /\ inflight' = inflight /\ n = BufLen - s
      BY <1>5, <1>e, Zenon DEF Passed, Due
    <2>2. handled' = handled
      BY <1>2, <1>5, Zenon
    <2>3. PassedOn(h, q)'
      <3>1. Place(h)' = h
        BY <2>1, NextPlace, Zenon
      <3>2. k \in Nat /\ n \in Nat /\ h \in {2, 3}
        BY <1>0, CopyNumbers, Zenon
      <3>3. PICK d : d = (k + n) - h
        OBVIOUS
      <3>4. d > 3 /\ d - 3 = e
        BY ONLY <3>2, <3>3, <1>e
      <3>5. (msg_idx - Place(h))' = d
        BY <1>0, <2>1, <3>1, <3>3
      <3>6. incoming_publish' <=> Len(p) <= SubCap
        BY <1>2, <1>5, Zenon
      <3>7. incoming_publish' => sub' = SubSeq(p, 1, d - 3)
        BY <1>2, <3>4, <3>6, Zenon
      <3>8. q[1] = p
        BY <1>e, Zenon
      <3> QED BY <3>4, <3>5, <3>6, <3>7, <3>8, Zenon DEF PassedOn
    <2>4. IInv'
      BY <1>2, <1>3, <1>5, <1>e, <2>1, <2>3, MessageGoesOn, Zenon
    <2> QED BY <2>1, <2>2, <2>4, Zenon DEF ChannelStep
  <1> QED BY <1>4, <1>5, Zenon

(* mqtt_message_received gives up the connection over an empty payload.    *)
LEMMA AfterRefusal ==
    ASSUME Types, Refused, inflight # <<>>, Head(inflight) = <<>>,
           NEW h, NEW m, NEW n, Turn(h, m, n), NEW g \in Nat, fixed_hdr_idx' = g,
           msg_rem_len' \in Int
    PROVE  IInv' /\ ChannelStep
  <1>1. <<>> \in Stream /\ <<>> \in Pending /\ 0 \in Nat
    BY DEF Stream, Pending
  <1>2. rx_buffer' \in [0..(BufLen - 1) -> Int] /\ msg_idx' = 0
    BY DEF Refused, Reset
  <1>3. rejected' = FALSE
    BY Zenon DEF Refused, Types
  <1>4. Types'
    BY <1>1, <1>2, <1>3, Zenon DEF Types, Refused, Turn, comms, broker
  <1>5. (chunk \o stream)' = <<>>
    BY ConcatEmptySeq DEF Refused
  <1>6. Between'
    BY <1>2, <1>5, FramedNothing, Zenon DEF Between, Refused
  <1>7. Channel!ChLose
    BY DEF Refused, Channel!ChLose
  <1> QED BY <1>4, <1>6, <1>7 DEF IInv, ChannelStep

(* The turn that passes a fragment on.                                     *)
LEMMA FragmentKeeps ==
    ASSUME Types, NEW h, NEW m, NEW q, NEW t, NEW r, NEW s, NEW n, NEW rx,
           Copying(h, m, q, t, r, s, n, rx), Turn(h, m, n), Fragment(h, m, s, n, rx)
    PROVE  IInv' /\ ChannelStep
  <1>1. PICK k, more, length : /\ k = msg_idx /\ more = Len(m) - (msg_idx + n)
                               /\ length = s + n - h
    OBVIOUS
  <1>2. /\ h \in {2, 3} /\ Len(m) \in Nat /\ BufLen \in Nat /\ BufLen > 7
        /\ k \in Nat /\ s \in Nat /\ n \in Nat /\ k >= h /\ s >= h /\ n >= 1
        /\ s <= k /\ (s # k => k >= BufLen) /\ k + n <= Len(m) /\ s + n <= BufLen
    <2>1. /\ h \in {2, 3} /\ Len(m) \in Nat /\ BufLen \in Nat /\ BufLen > 7
          /\ k \in h..(Len(m) - 1) /\ s \in h..(BufLen - 1) /\ s <= k
          /\ (s # k => k >= BufLen) /\ n \in 1..(BufLen - s) /\ k + n <= Len(m)
          /\ k \in Nat /\ s \in Nat /\ n \in Nat /\ s + n <= BufLen
      BY <1>1, CopyNumbers, Zenon
    <2> QED BY ONLY <2>1
  <1>3. more = Len(m) - (k + n) /\ more \in Nat /\ length \in Nat /\ length > 0
    BY ONLY <1>1, <1>2
  <1>4. q # <<>>
    <2>1. 0 \in 0..(h - 1)
      BY <1>2
    <2>2. rx[0] = m[0 + 1]
      BY <2>1 DEF Copying
    <2>3. m[1] = PUBLISH
      <3>1. rx[0] = PUBLISH
        BY Zenon DEF Fragment
      <3>2. 0 + 1 = 1
        OBVIOUS
      <3> QED BY <2>2, <3>1, <3>2, Zenon
    <2>4. q \in Contents /\ m = Bytes(q) /\ h = HeaderLength(q)
      BY DEF Copying
    <2>5. q = <<>> => m[1] # PUBLISH
      BY ONLY <2>4, MessageShape, Zenon
    <2> QED BY <2>3, <2>5, Zenon
  <1>5. PICK p : p = q[1] /\ q = <<p>> /\ Carries(h, m, p)
    BY <1>4, MessageShape DEF Copying
  <1>6. PICK l : l = Len(p)
    BY Zenon
  <1>7. /\ p \in Seq(Int) /\ l \in Nat /\ Len(m) = h + 3 + l
        /\ m[h + 1] = 0 /\ m[h + 2] = 1
        /\ \A i \in 1..l : m[h + 3 + i] = p[i]
    BY <1>5, <1>6, Zenon DEF Carries
  <1>8. \A i \in h..(s + n - 1) : rx[i] = m[k - s + i + 1]
    BY <1>1, Zenon DEF Copying
  <1>9. fixed_hdr_idx = h /\ rejected = FALSE /\ bailed = FALSE /\ incoming_publish \in BOOLEAN
    BY Zenon DEF Copying, Types
  <1>10. PublishFragment(rx, k + n, length, more, Rest(chunk, n))
    BY <1>1, Zenon DEF Fragment
  <1>11. (more = 0 \/ n = BufLen - s) /\ Due(m, n, s)
    BY <1>1, Zenon DEF Fragment, Due
  <1>12. CASE s = k
    <2>1. k + n <= BufLen
      BY ONLY <1>2, <1>12, Zenon
    <2>2. length >= 3 /\ (length < 4 => more = 0 /\ l = 0) /\ more + length - 3 = l
      <3>1. l \in Nat /\ Len(m) = h + 3 + l
        BY <1>7, Zenon
      <3> QED BY ONLY <1>1, <1>2, <1>3, <1>11, <1>12, <3>1, SMTT(30)
    <2>3. \A i \in h..(s + n - 1) : rx[i] = m[i + 1]
      <3> TAKE i \in h..(s + n - 1)
      <3>1. k - s + i + 1 = i + 1
        BY ONLY <1>2, <1>12, i \in h..(s + n - 1)
      <3> QED BY <1>8, <3>1, Zenon
    <2>4. rx[h + 0] = 0 /\ rx[h + 1] = 1
      <3>1. /\ h + 0 \in h..(s + n - 1) /\ h + 1 \in h..(s + n - 1)
            /\ (h + 0) + 1 = h + 1 /\ (h + 1) + 1 = h + 2
        BY ONLY <1>1, <1>2, <1>3, <2>2, SMTT(30)
      <3>2. rx[h + 0] = m[(h + 0) + 1] /\ rx[h + 1] = m[(h + 1) + 1]
        BY <2>3, <3>1, Zenon
      <3> QED BY <1>7, <3>1, <3>2, Zenon
    <2>5. \/ length < 4 /\ Refused
          \/ /\ length >= 4
             /\ FirstData(rx, h, k + n, length, more, Rest(chunk, n))
      <3>1. length \in Int
        BY <1>3
      <3>2. rx[fixed_hdr_idx + 0] = 0 /\ rx[fixed_hdr_idx + 1] = 1 /\ fixed_hdr_idx = h
        BY <1>9, <2>4, Zenon
      <3> QED BY <1>10, <2>1, <3>1, <3>2, FirstFragment, Zenon
    <2>6. CASE length < 4
      <3>1. Refused /\ more = 0 /\ l = 0
        BY <1>3, <2>2, <2>5, <2>6
      <3>2. p = <<>>
        BY <1>6, <1>7, <3>1, EmptySeq, Zenon
      <3>3. inflight # <<>> /\ Head(inflight) = <<>>
        <4>1. inflight = <<p>> \o r /\ r \in Seq(Seq(Int))
          BY <1>5 DEF Copying, Framed, Pending
        <4> QED BY <1>7, <3>2, <4>1
      <3>4. 0 \in Nat /\ fixed_hdr_idx' = 0 /\ msg_rem_len' \in Int
        BY <1>1, <1>3, <3>1 DEF Turn
      <3> QED BY <3>1, <3>3, <3>4, AfterRefusal, Zenon
    <2>7. CASE length >= 4
      <3>1. PICK data, c :
                /\ data = [i \in 1..(length - 3) |-> rx[h + (3 + i - 1)]]
                /\ c = mqtt_data_cb(mqtt_pub_cb(
                           Reassembly(incoming_publish, sub, handled, bailed),
                           more + length - 3), data, more = 0)
                /\ Passed(c, rx, k + n, more, Rest(chunk, n))
        <4>1. ~(length < 4)
          BY <1>3, <2>7
        <4> QED BY <2>5, <4>1, Zenon DEF FirstData
      <3>2. PICK g, e : g = length - 3 /\ e = k + n - h - 3
        BY Zenon
      <3>3. /\ g \in Nat /\ 0 \in Nat /\ 0 + g <= l /\ e = 0 + g /\ e > 0
            /\ (more = 0 => 0 + g = l)
        BY ONLY <1>1, <1>2, <1>3, <1>7, <1>12, <2>2, <2>7, <3>2, SMTT(30)
      <3>4. data = [i \in 1..g |-> p[0 + i]]
        <4>1. ASSUME NEW i \in 1..g PROVE rx[h + (3 + i - 1)] = p[0 + i]
          <5>1. /\ h + (3 + i - 1) \in h..(s + n - 1)
                /\ (h + (3 + i - 1)) + 1 = h + 3 + i /\ i \in 1..l /\ 0 + i = i
            BY ONLY <1>1, <1>2, <1>7, <3>2, <3>3, i \in 1..g, SMTT(40)
          <5>2. rx[h + (3 + i - 1)] = m[(h + (3 + i - 1)) + 1]
            BY <2>3, <5>1, Zenon
          <5> QED BY <1>7, <5>1, <5>2, Zenon
        <4> QED BY <3>1, <3>2, <4>1, Zenon
      <3>5. PICK last, x : last = (more = 0) /\ x = (l <= SubCap)
        OBVIOUS
      <3>6. c = mqtt_data_cb(Reassembly(x, <<>>, handled, bailed), data, last)
        <4>1. mqtt_pub_cb(Reassembly(incoming_publish, sub, handled, bailed), l)
                  = Reassembly(x, <<>>, handled, bailed)
          <5>1. PICK a, y, z, w : /\ a = incoming_publish /\ y = sub
                                  /\ z = handled /\ w = bailed
            BY Zenon
          <5>2. x = (l <= SubCap)
            BY <3>5, Zenon
          <5>3. mqtt_pub_cb(Reassembly(a, y, z, w), l) = Reassembly(x, <<>>, z, w)
            BY ONLY <5>2, PubCb
          <5> QED BY <5>1, <5>3, Zenon
        <4> QED BY <2>2, <3>1, <3>5, <4>1, Zenon
      <3>7. Held(p, 0, x, <<>>)
        <4>1. <<>> = SubSeq(p, 1, 0)
          BY SubSeqEmpty
        <4> QED BY <1>6, <3>5, <4>1, Zenon DEF Held
      <3>8. NextBytes(p, 0, g, data)
        BY <1>6, <1>7, <3>3, <3>4, Zenon DEF NextBytes
      <3>9. last \in BOOLEAN /\ (last => 0 + g = Len(p))
        BY <1>6, <3>3, <3>5, Zenon
      <3>10. Reassembled(c, p, e, handled, bailed, last)
        BY <3>3, <3>6, <3>7, <3>8, <3>9, DataCb, Zenon
      <3>11. Ending(h, m, q, p, s, n, more, e, last)
        BY <1>1, <1>5, <1>7, <1>11, <3>2, <3>3, <3>5, Zenon DEF Ending
      <3>12. Passed(c, rx, msg_idx + n, more, Rest(chunk, n))
        BY <1>1, <3>1, ZenonT(30)
      <3> QED BY <3>10, <3>11, <3>12, AfterFragment, Zenon
    <2> QED BY <1>3, <2>6, <2>7
  <1>13. CASE s # k
    <2>1. PICK d, e, last : d = k - s - 3 /\ e = k + n - h - 3 /\ last = (more = 0)
      OBVIOUS
    <2>2. /\ k - s > 3
          /\ incoming_publish <=> Len(p) <= SubCap
          /\ incoming_publish => sub = SubSeq(p, 1, d)
      <3>1. PICK u : u = k - s
        BY Zenon
      <3>2. u > 0 /\ d = u - 3
        BY ONLY <1>2, <1>13, <2>1, <3>1, SMTT(30)
      <3>3. msg_idx - Place(h) = u
        BY <1>1, <3>1, Zenon DEF Copying
      <3>4. /\ u > 3
            /\ incoming_publish <=> Len(q[1]) <= SubCap
            /\ incoming_publish => sub = SubSeq(q[1], 1, u - 3)
        BY <1>4, <3>2, <3>3, Zenon DEF Copying, PassedOn
      <3> QED BY <1>5, <3>1, <3>2, <3>4, Zenon
    <2>3. /\ d \in Nat /\ d + length <= l /\ e = d + length /\ e > 0
          /\ (more = 0 => d + length = l) /\ ~(k + n <= BufLen)
      <3>1. k - s > 3
        BY <2>2
      <3> QED BY ONLY <1>1, <1>2, <1>3, <1>7, <1>13, <2>1, <3>1, SMTT(40)
    <2>4. PICK data, c :
              /\ data = [i \in 1..length |-> rx[h + (0 + i - 1)]]
              /\ c = mqtt_data_cb(Reassembly(incoming_publish, sub, handled, bailed),
                                  data, more = 0)
              /\ Passed(c, rx, k + n, more, Rest(chunk, n))
      <3>1. length \in Int
        BY <1>3
      <3>2. /\ ~(k + n <= BufLen) /\ length > 0 /\ fixed_hdr_idx = h
            /\ PublishFragment(rx, k + n, length, more, Rest(chunk, n))
        BY <1>3, <1>9, <1>10, <2>3, Zenon
      <3>3. LaterData(rx, h, k + n, length, more, Rest(chunk, n))
        BY <3>1, <3>2, LaterFragment, ZenonT(30)
      <3> QED BY <3>3, ZenonT(30) DEF LaterData
    <2>5. data = [i \in 1..length |-> p[d + i]]
      <3>1. ASSUME NEW i \in 1..length PROVE rx[h + (0 + i - 1)] = p[d + i]
        <4>1. /\ h + (0 + i - 1) \in h..(s + n - 1)
              /\ k - s + (h + (0 + i - 1)) + 1 = h + 3 + (d + i) /\ d + i \in 1..l
          <5>1. /\ h \in Nat /\ s \in Nat /\ n \in Nat /\ k \in Nat /\ length = s + n - h
                /\ d = k - s - 3 /\ d \in Nat /\ l \in Nat /\ d + length <= l
            BY <1>1, <1>2, <1>7, <2>1, <2>3, SMTT(30)
          <5>2. h + (0 + i - 1) \in h..(s + n - 1)
            BY ONLY <5>1, i \in 1..length
          <5>3. k - s + (h + (0 + i - 1)) + 1 = h + 3 + (d + i)
            BY ONLY <5>1, i \in 1..length
          <5>4. d + i \in 1..l
            BY ONLY <5>1, i \in 1..length, SMTT(30)
          <5> QED BY <5>2, <5>3, <5>4, Zenon
        <4>2. rx[h + (0 + i - 1)] = m[k - s + (h + (0 + i - 1)) + 1]
          BY <1>8, <4>1, Zenon
        <4> QED BY <1>7, <4>1, <4>2, Zenon
      <3> QED BY <2>4, <3>1, Zenon
    <2>6. NextBytes(p, d, length, data)
      BY <1>3, <1>6, <1>7, <2>3, <2>5, Zenon DEF NextBytes
    <2>7. Held(p, d, incoming_publish, sub)
      <3>1. incoming_publish = (Len(p) <= SubCap)
        <4>1. PICK a, f : a = incoming_publish /\ f = (Len(p) <= SubCap)
          BY Zenon
        <4>2. a \in BOOLEAN /\ f \in BOOLEAN
          <5>1. CASE Len(p) <= SubCap
            BY <1>9, <4>1, <5>1, Zenon
          <5>2. CASE ~(Len(p) <= SubCap)
            BY <1>9, <4>1, <5>2
          <5> QED BY <5>1, <5>2, Zenon
        <4>3. a <=> f
          BY <2>2, <4>1, Zenon
        <4>4. a = f
          BY ONLY <4>2, <4>3, Zenon
        <4> QED BY <4>1, <4>4, Zenon
      <3> QED BY <2>2, <3>1, Zenon DEF Held
    <2>8. last \in BOOLEAN /\ (last => d + length = Len(p))
      BY <1>6, <2>1, <2>3, Zenon
    <2>9. Reassembled(c, p, e, handled, bailed, last)
      <3>1. c = mqtt_data_cb(Reassembly(incoming_publish, sub, handled, bailed), data, last)
        BY <2>1, <2>4, Zenon
      <3>2. Reassembled(mqtt_data_cb(Reassembly(incoming_publish, sub, handled, bailed),
                                     data, last), p, d + length, handled, bailed, last)
        BY <2>6, <2>7, <2>8, DataCb, Zenon
      <3> QED BY <2>3, <3>1, <3>2, Zenon
    <2>10. Ending(h, m, q, p, s, n, more, e, last)
      BY <1>1, <1>5, <1>7, <1>11, <2>1, <2>3, Zenon DEF Ending
    <2>11. Passed(c, rx, msg_idx + n, more, Rest(chunk, n))
      BY <1>1, <2>4, Zenon
    <2> QED BY <2>9, <2>10, <2>11, AfterFragment, Zenon
  <1> QED BY <1>12, <1>13, Zenon

(* mqtt_rx_cb's turn over the bytes after the header.                      *)
LEMMA CopyKeeps ==
    ASSUME IInv, CopyBytes
    PROVE  IInv' /\ ChannelStep
  <1>1. PICK h, m, q, t, r, s, n, rx :
              /\ Copying(h, m, q, t, r, s, n, rx) /\ Turn(h, m, n)
              /\ Fragment(h, m, s, n, rx) \/ Plain(h, m, s, n, rx)
    BY CopyingBytes
  <1>2. Types
    BY DEF IInv
  <1>3. CASE Fragment(h, m, s, n, rx)
    BY <1>1, <1>2, <1>3, FragmentKeeps, Zenon
  <1>4. CASE Plain(h, m, s, n, rx)
    <2>1. IInv' /\ UNCHANGED <<inflight, handled>>
      BY <1>1, <1>2, <1>4, PlainKeeps, Zenon
    <2> QED BY <2>1, Zenon DEF ChannelStep
  <1> QED BY <1>1, <1>3, <1>4, Zenon

-----------------------------------------------------------------------------
(* The invariant and the refinement.                                       *)

(* A payload the broker publishes enters the channel.                      *)
LEMMA PublishMaps ==
    ASSUME IInv, NEW n \in Lengths, BrokerPublish(n)
    PROVE  Channel!ChPublish
  <1>1. sent' \in 1..MaxMsgs
    BY InPublishAssumption DEF IInv, Types, BrokerPublish
  <1>2. PICK id : id = sent'
    BY Zenon
  <1>3. Payload(n, id) \in {Payload(l, i) : l \in Lengths, i \in 1..MaxMsgs}
    BY <1>1, <1>2
  <1>4. inflight' = Append(inflight, Payload(n, id)) /\ handled' = handled
    BY <1>2, Zenon DEF BrokerPublish
  <1> QED BY <1>3, <1>4 DEF Channel!ChPublish

(* Every step keeps the invariant and maps to a step of the channel.       *)
LEMMA StepKeeps ==
    ASSUME IInv, [Next]_vars
    PROVE  IInv' /\ ChannelStep
  <1>1. ASSUME NEW n \in Lengths, BrokerPublish(n) PROVE IInv' /\ ChannelStep
    BY <1>1, BrokerKeeps, PublishMaps, Zenon DEF ChannelStep
  <1>2. CASE BrokerSuback
    <2>1. UNCHANGED <<inflight, handled>>
      BY <1>2, Zenon DEF BrokerSuback
    <2> QED BY <1>2, <2>1, BrokerKeeps, Zenon DEF ChannelStep
  <1>3. ASSUME NEW k \in 1..Len(stream), Recv(k) PROVE IInv' /\ ChannelStep
    <2>1. UNCHANGED <<inflight, handled>>
      BY <1>3 DEF Recv
    <2> QED BY <1>3, <2>1, RecvKeeps, Zenon DEF ChannelStep
  <1>4. CASE Reconnect
    <2>1. Channel!ChLose
      BY <1>4 DEF Reconnect, Channel!ChLose
    <2> QED BY <1>4, <2>1, ReconnectKeeps, Zenon DEF ChannelStep
  <1>5. CASE HeaderByte
    <2>1. UNCHANGED <<inflight, handled>>
      BY <1>5 DEF HeaderByte
    <2> QED BY <1>5, <2>1, HeaderKeeps, Zenon DEF ChannelStep
  <1>6. CASE CopyBytes
    BY <1>6, CopyKeeps, Zenon
  <1>7. CASE UNCHANGED vars
    <2>1. UNCHANGED <<inflight, handled>>
      BY <1>7, Zenon DEF vars
    <2>2. IInv'
      <3>1. Types'
        BY <1>7, Zenon DEF vars, locals, comms, broker, IInv, Types
      <3>2. CASE Between
        BY <1>7, <3>1, <3>2, Zenon DEF vars, locals, IInv, Between
      <3>3. ASSUME NEW h, NEW m, NEW q, NEW t, NEW r, Within(h, m, q, t, r)
            PROVE  Within(h, m, q, t, r)'
        <4>1. Place(h)' = Place(h)
          BY <1>7, Zenon DEF vars, Place
        <4>2. Position(m, q, t, r)' /\ Header(h, m)' /\ (chunk' # <<>> => Locals(h, m)')
          BY <1>7, <3>3, SMTT(30) DEF vars, locals, Within, Position, Header, Locals
        <4>3. Window(h, m, q)'
          BY <1>7, <3>3, <4>1, Zenon DEF vars, comms, Within, Window, Copied, PassedOn
        <4> QED BY <3>3, <4>2, <4>3, Zenon DEF Within
      <3> QED BY <3>1, <3>2, <3>3, SMTT(30) DEF IInv
    <2> QED BY <2>1, <2>2, Zenon DEF ChannelStep
  <1> QED BY <1>1, <1>2, <1>3, <1>4, <1>5, <1>6, <1>7, Zenon DEF Next

(* The invariant holds in every reachable state: what is unread is what is *)
(* left of whole messages, the header bytes in rx_buffer are those of the  *)
(* message being read, and sub_buffer holds the payload bytes passed on.   *)
THEOREM InPublishInvariant == Spec => []IInv
  <1> QED BY InvInit, StepKeeps, PTL DEF Spec

(* Whatever the lengths, the buffer sizes and the cuts that TCP makes, no  *)
(* connection is given up over a publish with a payload and the fragments  *)
(* of a message never add up to more than mqtt_pub_cb was told.            *)
THEOREM OnlyEmptyPayloadsRefused == Spec => []OnlyEmptyRefused
  <1>1. IInv => OnlyEmptyRefused
    BY DEF IInv, Types, OnlyEmptyRefused
  <1> QED BY <1>1, InPublishInvariant, PTL

(* The parser and the callbacks implement the channel: the payloads that   *)
(* process_incoming_publish sees are the published ones, whole, in order   *)
(* and at most once, those that do not fit left out.                       *)
THEOREM ParserImplementsChannel == Spec => ChannelRefined
  <1>1. ASSUME Init PROVE Channel!ChInit
    BY <1>1 DEF Init, Channel!ChInit
  <1>2. ASSUME IInv, [Next]_vars PROVE
            [Channel!ChPublish \/ Channel!ChDeliver \/ Channel!ChLose]_Channel!chVars
    BY <1>2, StepKeeps DEF ChannelStep, Channel!chVars
  <1> QED BY <1>1, <1>2, InPublishInvariant, PTL DEF Spec, ChannelRefined, Channel!ChSpec
=============================================================================
