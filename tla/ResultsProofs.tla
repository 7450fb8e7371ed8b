---------------------------- MODULE ResultsProofs ----------------------------
(***************************************************************************)
(* Frames leave whole and in turn, for every number of descriptors, and    *)
(* with the header sizes of the code at most one result is lost.           *)
(*                                                                         *)
(* FramesIntact is not inductive: that a holder writes a descriptor that   *)
(* is still its own rests on no two holding the same one (Holders), and    *)
(* the order in which frames leave on the descriptors in use being one run *)
(* from the DMA's to the driver's, numbered upwards (InTurn).              *)
(***************************************************************************)
EXTENDS Results, TLAPS

Steps == {"idle", "get", "enqueue", "queued", "write", "release"}
Slots == [st : {"free", "locked", "own"}, by : Threads \cup {"nobody"},
          no : 0..(Frames - 1)]

MacTypes ==
    /\ desc \in [Descs -> Slots] /\ txptr \in Descs /\ dma \in Descs
    /\ pc \in [Threads -> Steps] /\ td \in [Threads -> Descs]
    /\ allocated \in 0..(Frames - 1) /\ out \in 0..(Frames - 1)

(* The descriptor after d, its distance behind o, and the number of the    *)
(* frame that is k behind frame n.                                         *)
Succ(d) == IF d + 1 = NDesc THEN 0 ELSE d + 1
Dist(o, d) == IF d >= o THEN d - o ELSE d + NDesc - o
Number(n, k) == IF n + k < Frames THEN n + k ELSE n + k - Frames

(* k descriptors are in use: the first k from o on, with the k numbers     *)
(* from n on.  Descriptor w comes next, and its number will be a.          *)
RunOf(q, o, w, n, a, k) ==
    /\ \A d \in Descs : /\ q[d].st # "free" <=> Dist(o, d) < k
                        /\ q[d].st # "free" => q[d].no = Number(n, Dist(o, d))
    /\ IF k = NDesc THEN w = o ELSE Dist(o, w) = k
    /\ a = Number(n, k)

InTurn == \E k \in 0..NDesc : RunOf(desc, dma, txptr, out, allocated, k)

(* A thread between the take and the release of a descriptor holds it      *)
(* alone, and from its write on what the descriptor holds is its frame.    *)
Holds(t) == pc[t] \in {"write", "release"}
Holders ==
    /\ \A t \in Threads : Holds(t) => desc[td[t]].st = "locked"
    /\ \A t \in Threads : pc[t] = "release" => desc[td[t]].by = t
    /\ \A t, u \in Threads : Holds(t) /\ Holds(u) /\ t # u => td[t] # td[u]

MacInv == MacTypes /\ InTurn /\ Holders /\ intact

(* With the code's header sizes the room takes three values.               *)
CodeSizes ==
    Headroom = 56 /\ UDP_HLEN = 8 /\ IP_HLEN = 20 /\ SIZEOF_ETH_HDR = 14
Rooms ==
    /\ \/ room \in {56, 14} /\ lost = 0
       \/ room = 6 /\ lost \in 0..1
    /\ ref \in {1, 2} /\ (pc["mc"] = "idle" => ref = 1)

-----------------------------------------------------------------------------
(* Both counters that wrap do so by one step at a time.                    *)
LEMMA Wraps ==
    /\ \A d \in Descs : (d + 1) % NDesc = Succ(d) /\ Succ(d) \in Descs
    /\ \A n \in 0..(Frames - 1) : /\ (n + 1) % Frames = Number(n, 1)
                                  /\ Number(n, 1) \in 0..(Frames - 1)
  <1>1. \A d \in Descs : (d + 1) % NDesc = Succ(d) /\ Succ(d) \in Descs
    BY MacAssumption DEF Descs, Succ
  <1>2. \A n \in 0..(Frames - 1) : /\ (n + 1) % Frames = Number(n, 1)
                                   /\ Number(n, 1) \in 0..(Frames - 1)
    BY MacAssumption DEF Number
  <1> QED BY <1>1, <1>2

(* Distances lie in 0..NDesc-1, and tell descriptors apart.                *)
LEMMA Distances ==
    ASSUME NEW o \in Descs, NEW d \in Descs, NEW e \in Descs
    PROVE  /\ Dist(o, d) \in 0..(NDesc - 1)
           /\ Dist(o, d) = Dist(o, e) => d = e
           /\ Dist(o, o) = 0
  BY MacAssumption DEF Descs, Dist

(* One step of either end changes the distance by one.                     *)
LEMMA DistanceSteps ==
    ASSUME NEW o \in Descs, NEW d \in Descs
    PROVE  /\ Dist(o, d) < NDesc - 1 => Dist(o, Succ(d)) = Dist(o, d) + 1
           /\ Dist(o, d) = NDesc - 1 => Succ(d) = o
           /\ d # o => Dist(Succ(o), d) = Dist(o, d) - 1
           /\ Dist(Succ(o), o) = NDesc - 1
  BY MacAssumption DEF Descs, Dist, Succ

(* The frame k behind n's successor is the one k+1 behind n, and as there  *)
(* are more numbers than descriptors the frame 0 behind n is n itself.     *)
LEMMA Numbers ==
    ASSUME NEW n \in 0..(Frames - 1), NEW k \in 0..(NDesc - 1)
    PROVE  /\ Number(n, 0) = n
           /\ Number(Number(n, 1), k) = Number(n, k + 1)
           /\ Number(Number(n, k), 1) = Number(n, k + 1)
  BY MacAssumption DEF Number

(* The driver takes the descriptor behind the run.                         *)
LEMMA RunGrows ==
    ASSUME NEW q \in [Descs -> Slots], NEW o \in Descs, NEW w \in Descs,
           NEW n \in 0..(Frames - 1), NEW a \in 0..(Frames - 1),
           NEW k \in 0..NDesc, RunOf(q, o, w, n, a, k), q[w].st = "free",
           NEW s \in Slots, s.st # "free", s.no = a
    PROVE  /\ k + 1 \in 0..NDesc
           /\ RunOf([q EXCEPT ![w] = s], o, Succ(w), n, Number(a, 1), k + 1)
  <1>1. k # NDesc
    BY Distances, MacAssumption DEF RunOf
  <1>2. Dist(o, w) = k
    BY <1>1 DEF RunOf
  <1>3. k + 1 \in 0..NDesc /\ k \in 0..(NDesc - 1)
    BY <1>1, MacAssumption
  <1>4. ASSUME NEW d \in Descs
        PROVE  LET x == [q EXCEPT ![w] = s][d]
               IN  /\ x.st # "free" <=> Dist(o, d) < k + 1
                   /\ x.st # "free" => x.no = Number(n, Dist(o, d))
    <2>1. Dist(o, d) \in 0..(NDesc - 1) /\ (Dist(o, d) = k => d = w)
      BY <1>2, Distances
    <2>2. /\ q[d].st # "free" <=> Dist(o, d) < k
          /\ q[d].st # "free" => q[d].no = Number(n, Dist(o, d))
      BY DEF RunOf
    <2>3. CASE d = w
      <3>1. [q EXCEPT ![w] = s][d] = s
        BY <2>3
      <3>2. a = Number(n, k) /\ k < k + 1
        BY <1>3, MacAssumption DEF RunOf
      <3> QED BY <2>3, <3>1, <3>2, <1>2
    <2>4. CASE d # w
      <3>1. [q EXCEPT ![w] = s][d] = q[d]
        BY <2>4
      <3>2. Dist(o, d) < k + 1 <=> Dist(o, d) < k
        BY <2>1, <2>4, <1>3, MacAssumption
      <3> QED BY <3>1, <3>2, <2>2
    <2> QED BY <2>3, <2>4
  <1>5. IF k + 1 = NDesc THEN Succ(w) = o ELSE Dist(o, Succ(w)) = k + 1
    BY <1>1, <1>2, DistanceSteps, MacAssumption
  <1>6. Number(a, 1) = Number(n, k + 1)
    BY <1>3, Numbers DEF RunOf
  <1> QED BY <1>3, <1>4, <1>5, <1>6 DEF RunOf

(* The DMA frees the first descriptor of the run, whose number is the next *)
(* to leave.                                                               *)
LEMMA RunShrinks ==
    ASSUME NEW q \in [Descs -> Slots], NEW o \in Descs, NEW w \in Descs,
           NEW n \in 0..(Frames - 1), NEW a \in 0..(Frames - 1),
           NEW k \in 0..NDesc, RunOf(q, o, w, n, a, k), q[o].st # "free"
    PROVE  /\ q[o].no = n
           /\ k - 1 \in 0..NDesc
           /\ RunOf([q EXCEPT ![o] = NoFrame], Succ(o), w, Number(n, 1), a, k - 1)
  <1>1. k > 0 /\ k - 1 \in 0..(NDesc - 1) /\ k - 1 \in 0..NDesc
    BY Distances, MacAssumption DEF RunOf
  <1>2. q[o].no = n
    <2>1. q[o].no = Number(n, Dist(o, o)) /\ Dist(o, o) = 0
      BY Distances DEF RunOf
    <2>2. 0 \in 0..(NDesc - 1)
      BY MacAssumption
    <2> QED BY <2>1, <2>2, Numbers
  <1>3. ASSUME NEW d \in Descs
        PROVE  LET x == [q EXCEPT ![o] = NoFrame][d]
               IN  /\ x.st # "free" <=> Dist(Succ(o), d) < k - 1
                   /\ x.st # "free" =>
                        x.no = Number(Number(n, 1), Dist(Succ(o), d))
    <2>1. /\ q[d].st # "free" <=> Dist(o, d) < k
          /\ q[d].st # "free" => q[d].no = Number(n, Dist(o, d))
      BY DEF RunOf
    <2>2. Dist(o, d) \in 0..(NDesc - 1)
      BY Distances
    <2>3. CASE d = o
      <3>1. [q EXCEPT ![o] = NoFrame][d].st = "free"
        BY <2>3 DEF NoFrame
      <3>2. ~(Dist(Succ(o), d) < k - 1)
        BY <2>3, DistanceSteps, MacAssumption
      <3> QED BY <3>1, <3>2
    <2>4. CASE d # o
      <3>1. [q EXCEPT ![o] = NoFrame][d] = q[d]
        BY <2>4
      <3>2. Dist(Succ(o), d) = Dist(o, d) - 1
        BY <2>4, DistanceSteps
      <3>3. Succ(o) \in Descs
        BY Wraps
      <3>4. Dist(Succ(o), d) \in 0..(NDesc - 1)
        BY <3>3, Distances
      <3>5. Dist(o, d) < k <=> Dist(Succ(o), d) < k - 1
        BY <2>2, <3>2, <1>1, MacAssumption
      <3>6. Dist(Succ(o), d) + 1 = Dist(o, d)
        BY <2>2, <3>2, MacAssumption
      <3>7. Number(Number(n, 1), Dist(Succ(o), d)) = Number(n, Dist(o, d))
        BY <3>4, <3>6, Numbers
      <3> QED BY <3>1, <3>5, <3>7, <2>1
    <2> QED BY <2>3, <2>4
  <1>4. k - 1 # NDesc /\ Dist(Succ(o), w) = k - 1
    <2>1. CASE k = NDesc
      BY <2>1, DistanceSteps, MacAssumption DEF RunOf
    <2>2. CASE k # NDesc
      <3>1. Dist(o, w) = k /\ w # o
        BY <2>2, <1>1, Distances DEF RunOf
      <3> QED BY <3>1, <1>1, DistanceSteps, MacAssumption
    <2> QED BY <2>1, <2>2
  <1>5. a = Number(Number(n, 1), k - 1)
    <2>1. (k - 1) + 1 = k
      BY <1>1
    <2> QED BY <2>1, <1>1, Numbers DEF RunOf
  <1> QED BY <1>1, <1>2, <1>3, <1>4, <1>5 DEF RunOf

(* A write or a release leaves the run as it is.                           *)
LEMMA RunStays ==
    ASSUME NEW q, NEW r, NEW o, NEW w, NEW n, NEW a, NEW k,
           RunOf(q, o, w, n, a, k),
           \A d \in Descs : /\ r[d].st = "free" <=> q[d].st = "free"
                            /\ r[d].no = q[d].no
    PROVE  RunOf(r, o, w, n, a, k)
  BY DEF RunOf

-----------------------------------------------------------------------------
(* A step of the transmit path: a thread's, the DMA's or the link's.       *)
MacStep ==
    \/ \E t \in Threads : Call(t) \/ Output(t) \/ TimeOut(t)
    \/ Transmit \/ Suspend \/ PollLink \/ UNCHANGED mac

(* Every step keeps the descriptors in use one numbered run, keeps holders *)
(* apart, and hands to the wire what was written, in turn.                 *)
LEMMA MacInvKept ==
    ASSUME MacInv, MacStep
    PROVE  MacInv'
  <1>0. PICK k \in 0..NDesc : RunOf(desc, dma, txptr, out, allocated, k)
    BY DEF MacInv, InTurn
  <1>t. MacTypes /\ Holders /\ intact
    BY DEF MacInv
  <1>1. ASSUME NEW t \in Threads, Call(t) \/ Enqueue(t) \/ TimeOut(t)
        PROVE  MacInv'
    <2>1. PICK s \in {"get", "queued", "idle"} : pc' = [pc EXCEPT ![t] = s]
      BY <1>1 DEF Call, Enqueue, TimeOut
    <2>2. UNCHANGED <<desc, txptr, dma, td, allocated, out, intact>>
      BY <1>1 DEF Call, Enqueue, TimeOut
    <2>3. MacTypes'
      BY <1>t, <2>1, <2>2 DEF MacTypes, Steps
    <2>4. InTurn'
      BY <1>0, <2>2 DEF InTurn
    <2>5. \A u \in Threads : pc'[u] \in {"write", "release"} => pc'[u] = pc[u]
      BY <1>t, <2>1 DEF MacTypes
    <2>6. Holders'
      BY <1>t, <2>2, <2>5 DEF Holders, Holds
    <2> QED BY <1>t, <2>2, <2>3, <2>4, <2>6 DEF MacInv
  <1>2. ASSUME NEW t \in Threads, Get(t)
        PROVE  MacInv'
    <2>1. CASE ~(link_up /\ Available(txptr))
      <3>1. /\ pc' = [pc EXCEPT ![t] = "enqueue"]
            /\ UNCHANGED <<desc, txptr, dma, td, allocated, out, intact>>
        BY <1>2, <2>1 DEF Get
      <3>2. MacTypes'
        BY <1>t, <3>1 DEF MacTypes, Steps
      <3>3. InTurn'
        BY <1>0, <3>1 DEF InTurn
      <3>4. \A u \in Threads : pc'[u] \in {"write", "release"} => pc'[u] = pc[u]
        BY <1>t, <3>1 DEF MacTypes
      <3>5. Holders'
        BY <1>t, <3>1, <3>4 DEF Holders, Holds
      <3> QED BY <1>t, <3>1, <3>2, <3>3, <3>5 DEF MacInv
    <2>2. CASE link_up /\ Available(txptr)
      <3> DEFINE s == [st |-> "locked", by |-> "nobody", no |-> allocated]
      <3>1. /\ desc' = [desc EXCEPT ![txptr] = s]
            /\ td' = [td EXCEPT ![t] = txptr]
            /\ txptr' = (txptr + 1) % NDesc
            /\ allocated' = (allocated + 1) % Frames
            /\ pc' = [pc EXCEPT ![t] = "write"]
            /\ UNCHANGED <<dma, out, intact>>
        BY <1>2, <2>2 DEF Get
      <3>2. s \in Slots /\ s.st = "locked" /\ s.no = allocated
        BY <1>t DEF MacTypes, Slots
      <3> HIDE DEF s
      <3>3. /\ txptr' = Succ(txptr) /\ txptr' \in Descs
            /\ allocated' = Number(allocated, 1)
            /\ allocated' \in 0..(Frames - 1)
        BY <1>t, <3>1, Wraps DEF MacTypes
      <3>4. MacTypes'
        BY <1>t, <3>1, <3>2, <3>3 DEF MacTypes, Steps
      <3>5. desc[txptr].st = "free"
        BY <2>2 DEF Available
      <3>6. k + 1 \in 0..NDesc
            /\ RunOf(desc', dma', txptr', out', allocated', k + 1)
        <4>1. /\ desc \in [Descs -> Slots] /\ txptr \in Descs /\ dma \in Descs
              /\ allocated \in 0..(Frames - 1) /\ out \in 0..(Frames - 1)
              /\ s.st # "free"
          BY <1>t, <3>2 DEF MacTypes
        <4>2. /\ k + 1 \in 0..NDesc
              /\ RunOf([desc EXCEPT ![txptr] = s], dma, Succ(txptr), out,
                       Number(allocated, 1), k + 1)
          BY <1>0, <4>1, <3>2, <3>5, RunGrows, ZenonT(30)
        <4> QED BY <3>1, <3>3, <4>2
      <3>7. InTurn'
        BY <3>6 DEF InTurn
      <3>8. /\ pc'[t] = "write" /\ td'[t] = txptr
            /\ desc'[txptr].st = "locked"
        BY <1>t, <3>1, <3>2 DEF MacTypes
      <3>9. ASSUME NEW u \in Threads, u # t, Holds(u)
            PROVE  td[u] # txptr
        BY <3>9, <1>t, <3>5 DEF Holders
      <3>10. \A u \in Threads : u # t => pc'[u] = pc[u] /\ td'[u] = td[u]
        BY <1>t, <3>1 DEF MacTypes
      <3>11. \A u \in Threads : u # t /\ Holds(u) => desc'[td[u]] = desc[td[u]]
        BY <1>t, <3>1, <3>9 DEF MacTypes
      <3>12. \A u \in Threads : Holds(u)' => desc'[td'[u]].st = "locked"
        BY <1>t, <3>8, <3>10, <3>11 DEF Holders, Holds
      <3>13. \A u \in Threads : pc'[u] = "release" => desc'[td'[u]].by = u
        BY <1>t, <3>8, <3>10, <3>11 DEF Holders, Holds
      <3>14. \A u, v \in Threads : (Holds(u) /\ Holds(v))' /\ u # v
                                      => td'[u] # td'[v]
        BY <1>t, <3>8, <3>9, <3>10 DEF Holders, Holds
      <3>15. Holders'
        BY <3>12, <3>13, <3>14 DEF Holders
      <3> QED BY <1>t, <3>1, <3>4, <3>7, <3>15 DEF MacInv
    <2> QED BY <2>1, <2>2
  <1>3. ASSUME NEW t \in Threads, Write(t)
        PROVE  MacInv'
    <2>1. /\ pc[t] = "write"
          /\ desc' = [desc EXCEPT ![td[t]].by = t]
          /\ pc' = [pc EXCEPT ![t] = "release"]
          /\ UNCHANGED <<txptr, dma, td, allocated, out>>
      BY <1>3 DEF Write
    <2>2. desc[td[t]].st = "locked" /\ td[t] \in Descs /\ Holds(t)
      BY <1>t, <2>1 DEF Holders, Holds, MacTypes
    <2>3. intact'
      BY <1>3, <1>t, <2>2 DEF Write
    <2>4. MacTypes'
      BY <1>t, <2>1, <2>2 DEF MacTypes, Steps, Slots
    <2>5. /\ \A d \in Descs : desc'[d].st = desc[d].st /\ desc'[d].no = desc[d].no
          /\ \A d \in Descs : d # td[t] => desc'[d] = desc[d]
          /\ desc'[td[t]].by = t
      BY <1>t, <2>1, <2>2 DEF MacTypes, Slots
    <2>6. InTurn'
      <3>1. RunOf(desc', dma, txptr, out, allocated, k)
        BY <1>0, <2>5, RunStays
      <3> QED BY <2>1, <3>1 DEF InTurn
    <2>7. /\ \A u \in Threads : Holds(u)' <=> Holds(u)
          /\ \A u \in Threads : u # t => pc'[u] = pc[u]
          /\ \A u \in Threads : td'[u] = td[u] /\ td[u] \in Descs
      BY <1>t, <2>1 DEF Holds, MacTypes
    <2>8. \A u \in Threads : pc'[u] = "release" => desc'[td'[u]].by = u
      BY <1>t, <2>2, <2>5, <2>7 DEF Holders, Holds
    <2>9. Holders'
      BY <1>t, <2>5, <2>7, <2>8 DEF Holders
    <2> QED BY <2>3, <2>4, <2>6, <2>9 DEF MacInv
  <1>4. ASSUME NEW t \in Threads, Release(t)
        PROVE  MacInv'
    <2>1. /\ pc[t] = "release"
          /\ desc' = [desc EXCEPT ![td[t]].st = "own"]
          /\ pc' = [pc EXCEPT ![t] = "idle"] /\ td' = [td EXCEPT ![t] = 0]
          /\ UNCHANGED <<txptr, dma, allocated, out>>
      BY <1>4 DEF Release
    <2>2. /\ desc[td[t]].st = "locked" /\ desc[td[t]].by = t
          /\ td[t] \in Descs /\ Holds(t)
      BY <1>t, <2>1 DEF Holders, Holds, MacTypes
    <2>3. intact'
      BY <1>4, <1>t, <2>2 DEF Release
    <2>4. MacTypes'
      <3>1. 0 \in Descs
        BY MacAssumption DEF Descs
      <3> QED BY <1>t, <2>1, <2>2, <3>1 DEF MacTypes, Steps, Slots
    <2>5. /\ \A d \in Descs : desc'[d].st = "free" <=> desc[d].st = "free"
          /\ \A d \in Descs : desc'[d].no = desc[d].no
          /\ \A d \in Descs : d # td[t] => desc'[d] = desc[d]
      BY <1>t, <2>1, <2>2 DEF MacTypes, Slots
    <2>6. InTurn'
      <3>1. RunOf(desc', dma, txptr, out, allocated, k)
        BY <1>0, <2>5, RunStays
      <3> QED BY <2>1, <3>1 DEF InTurn
    <2>7. /\ \A u \in Threads : Holds(u)' => u # t
          /\ \A u \in Threads : u # t => /\ pc'[u] = pc[u] /\ td'[u] = td[u]
                                         /\ td[u] \in Descs
      BY <1>t, <2>1 DEF Holds, MacTypes
    <2>8. \A u \in Threads : Holds(u)' => /\ Holds(u) /\ td[u] # td[t]
                                          /\ desc'[td'[u]] = desc[td[u]]
      BY <1>t, <2>2, <2>5, <2>7 DEF Holders, Holds
    <2>9. Holders'
      BY <1>t, <2>7, <2>8 DEF Holders, Holds
    <2> QED BY <2>3, <2>4, <2>6, <2>9 DEF MacInv
  <1>5. CASE Transmit
    <2>1. /\ desc[dma].st = "own"
          /\ desc' = [desc EXCEPT ![dma] = NoFrame]
          /\ dma' = Succ(dma) /\ dma' \in Descs
          /\ out' = Number(out, 1) /\ out' \in 0..(Frames - 1)
          /\ pc' = Woken
          /\ UNCHANGED <<txptr, td, allocated>>
      BY <1>5, <1>t, Wraps DEF Transmit, MacTypes
    <2>2. /\ desc[dma].no = out /\ k - 1 \in 0..NDesc
          /\ RunOf(desc', dma', txptr', out', allocated', k - 1)
      <3>1. /\ desc \in [Descs -> Slots] /\ txptr \in Descs /\ dma \in Descs
            /\ allocated \in 0..(Frames - 1) /\ out \in 0..(Frames - 1)
            /\ desc[dma].st # "free"
        BY <1>t, <2>1 DEF MacTypes
      <3>2. /\ desc[dma].no = out /\ k - 1 \in 0..NDesc
            /\ RunOf([desc EXCEPT ![dma] = NoFrame], Succ(dma), txptr,
                     Number(out, 1), allocated, k - 1)
        BY <1>0, <3>1, RunShrinks, ZenonT(60)
      <3> QED BY <2>1, <3>2
    <2>3. intact'
      BY <1>5, <1>t, <2>2 DEF Transmit
    <2>4. InTurn'
      BY <2>2 DEF InTurn
    <2>5. NoFrame \in Slots
      BY MacAssumption DEF NoFrame, Slots
    <2>6. MacTypes'
      BY <1>t, <2>1, <2>5 DEF MacTypes, Woken, Steps
    <2>7. \A u \in Threads : pc'[u] \in {"write", "release"} => pc'[u] = pc[u]
      BY <1>t, <2>1 DEF Woken, MacTypes
    <2>8. \A u \in Threads : Holds(u) => desc'[td[u]] = desc[td[u]]
      BY <1>t, <2>1 DEF Holders, MacTypes
    <2>9. Holders'
      BY <1>t, <2>1, <2>7, <2>8 DEF Holders, Holds
    <2> QED BY <2>3, <2>4, <2>6, <2>9 DEF MacInv
  <1>6. CASE Suspend \/ PollLink \/ UNCHANGED mac
    BY <1>6 DEF Suspend, PollLink, mac, MacInv, MacTypes, InTurn, Holders, Holds
  <1> QED BY <1>1, <1>2, <1>3, <1>4, <1>5, <1>6 DEF MacStep, Output

(* It holds at the start.                                                  *)
LEMMA MacInvInit == MacInit => MacInv
  <1> SUFFICES ASSUME MacInit PROVE MacInv
    OBVIOUS
  <1>1. 0 \in Descs /\ 0 \in 0..(Frames - 1) /\ 0 \in 0..NDesc
    BY MacAssumption DEF Descs
  <1>2. MacTypes
    BY <1>1 DEF MacInit, MacTypes, NoFrame, Slots, Steps
  <1>3. RunOf(desc, dma, txptr, out, allocated, 0)
    <2>1. \A d \in Descs : Dist(0, d) \in 0..(NDesc - 1) /\ Dist(0, 0) = 0
      BY <1>1, Distances
    <2>2. \A d \in Descs : ~(Dist(0, d) < 0)
      BY <2>1, MacAssumption
    <2>3. Number(0, 0) = 0
      BY MacAssumption DEF Number
    <2>4. Dist(0, 0) = 0
      BY <1>1, <2>1
    <2> QED BY <2>2, <2>3, <2>4, MacAssumption DEF MacInit, RunOf, NoFrame
  <1>4. Holders
    BY DEF MacInit, Holders, Holds
  <1> QED BY <1>1, <1>2, <1>3, <1>4 DEF MacInv, InTurn, MacInit

-----------------------------------------------------------------------------
(* Every step of the composition is a step of the transmit path.           *)
LEMMA StepOfPath ==
    ASSUME [Next]_vars
    PROVE  MacStep
  <1>1. CASE EmitInPlace \/ EmitChained
    BY <1>1 DEF EmitInPlace, EmitChained, MacStep, Threads
  <1>2. CASE \E t \in Threads : ThreadStep(t)
    BY <1>2 DEF ThreadStep, MacStep
  <1>3. CASE \E t \in {"comm", "tcpip"} : Call(t) /\ UNCHANGED <<room, ref, lost>>
    BY <1>3 DEF MacStep, Threads
  <1>4. CASE PollLink \/ Dma
    BY <1>4 DEF Dma, MacStep
  <1>5. CASE UNCHANGED vars
    BY <1>5 DEF vars, MacStep
  <1> QED BY <1>1, <1>2, <1>3, <1>4, <1>5 DEF Next

(* The transmit path keeps its invariant under every thread and the DMA.   *)
LEMMA MacInvHolds == Spec => []MacInv
  <1>1. Init => MacInv
    BY MacInvInit DEF Init
  <1>2. MacInv /\ [Next]_vars => MacInv'
    BY MacInvKept, StepOfPath
  <1> QED BY <1>1, <1>2, PTL DEF Spec

(* Whatever the number of descriptors and the interleaving of the three    *)
(* senders with the DMA, no descriptor is written by two threads or while  *)
(* the DMA owns it, and frames leave whole, each once, in the order in     *)
(* which their descriptors were handed out (hal_mac_lld.c:419-485).        *)
THEOREM ResultsFramesIntact == Spec => []FramesIntact
  <1>1. MacInv => FramesIntact
    BY DEF MacInv, FramesIntact
  <1> QED BY <1>1, MacInvHolds, PTL

(* The first result leaves 14 bytes in front of the payload, the second    *)
(* takes the UDP header and fails, and from 6 bytes on every header goes   *)
(* into a pbuf of its own; its reference is given back before mcTask's     *)
(* next result.                                                            *)
LEMMA RoomsKept ==
    ASSUME CodeSizes, MacTypes, Rooms, [Next]_vars
    PROVE  Rooms'
  <1>t. pc \in [Threads -> Steps] /\ "mc" \in Threads
    BY DEF MacTypes, Threads
  <1>1. CASE EmitInPlace
    <2>1. pc["mc"] = "idle" /\ ref = 1 /\ ref' = 1 /\ room >= 8
      BY <1>1 DEF EmitInPlace, mcRuns, Rooms, CodeSizes
    <2>2. CASE room = 56
      <3>1. lost' = 0 /\ room' = 14
        BY <1>1, <2>2 DEF EmitInPlace, Rooms, CodeSizes, Left
      <3> QED BY <2>1, <3>1 DEF Rooms
    <2>3. CASE room = 14
      <3>1. room' = 6
        BY <1>1, <2>3 DEF EmitInPlace, CodeSizes, Left
      <3>2. lost' \in 0..1
        BY <1>1, <2>3 DEF EmitInPlace, Rooms, CodeSizes, Left
      <3> QED BY <2>1, <3>1, <3>2 DEF Rooms
    <2> QED BY <2>1, <2>2, <2>3 DEF Rooms
  <1>2. CASE EmitChained
    <2>1. pc["mc"] = "idle" /\ ref = 1 /\ ref' = 2 /\ UNCHANGED <<room, lost>>
      BY <1>2 DEF EmitChained, mcRuns, Rooms
    <2>2. pc'["mc"] = "get"
      BY <1>2, <1>t DEF EmitChained, Call
    <2> QED BY <2>1, <2>2 DEF Rooms
  <1>3. ASSUME NEW t \in Threads, ThreadStep(t)
        PROVE  Rooms'
    <2>1. UNCHANGED <<room, lost>> /\ FreeHeader(t)
      BY <1>3 DEF ThreadStep
    <2>2. \A u \in Threads : u # t => pc'[u] = pc[u]
      BY <1>3, <1>t DEF ThreadStep, Output, Get, Enqueue, Write, Release, TimeOut
    <2>3. CASE t = "mc"
      <3>1. ref' \in {1, 2} /\ (pc'["mc"] = "idle" => ref' = 1)
        BY <2>1, <2>3 DEF FreeHeader, Rooms
      <3> QED BY <2>1, <3>1 DEF Rooms
    <2>4. CASE t # "mc"
      <3>1. ref' = ref /\ pc'["mc"] = pc["mc"]
        BY <2>1, <2>2, <2>4, <1>t DEF FreeHeader
      <3> QED BY <2>1, <3>1 DEF Rooms
    <2> QED BY <2>3, <2>4
  <1>4. CASE \E t \in {"comm", "tcpip"} : Call(t) /\ UNCHANGED <<room, ref, lost>>
    <2>1. pc'["mc"] = pc["mc"] /\ UNCHANGED <<room, ref, lost>>
      BY <1>4, <1>t DEF Call
    <2> QED BY <2>1 DEF Rooms
  <1>5. CASE Dma
    <2>1. (pc'["mc"] = "idle" => pc["mc"] = "idle") /\ UNCHANGED <<room, ref, lost>>
      BY <1>5, <1>t DEF Dma, Transmit, Suspend, Woken
    <2> QED BY <2>1 DEF Rooms
  <1>6. CASE (PollLink /\ UNCHANGED <<room, ref, lost>>) \/ UNCHANGED vars
    BY <1>6 DEF PollLink, vars, mac, Rooms
  <1> QED BY <1>1, <1>2, <1>3, <1>4, <1>5, <1>6 DEF Next

(* With lwIP's 56 bytes of headroom and 8, 20 and 14 bytes of headers, at  *)
(* most one result is lost for lack of room, the payload stays inside the  *)
(* pbuf, and the pbuf is mcTask's alone between two results                *)
(* (motor_control.c:28-30, udp.c:710-728, ip4.c:855-861).                  *)
THEOREM ResultsOneLost ==
    ASSUME CodeSizes
    PROVE  Spec => []OneResultLost
  <1>1. Init => Rooms
    BY DEF Init, Rooms, CodeSizes
  <1>2. MacInv /\ Rooms /\ [Next]_vars => Rooms'
    BY RoomsKept DEF MacInv
  <1>3. Rooms => OneResultLost
    BY DEF Rooms, OneResultLost, CodeSizes
  <1> QED BY <1>1, <1>2, <1>3, MacInvHolds, PTL DEF Spec
=============================================================================
