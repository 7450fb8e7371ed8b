----------------------------- MODULE BootProofs -----------------------------
(***************************************************************************)
(* Proofs about what main starts: Boot first, then Schedule.               *)
(*                                                                         *)
(* No received frame is forgotten, and what main starts finds the          *)
(* interface up under the chip's address, for every number of descriptors, *)
(* every size of the mailbox and the pools, every width of the chip's      *)
(* addresses and bytes and every content of it.                            *)
(*                                                                         *)
(* Neither property is inductive.  That one look at the ring tells whether *)
(* all of it is empty rests on the full descriptors being a single run     *)
(* that starts where the driver looks (OneRun), and that an event is on    *)
(* its way for them on where each of lwip_thread's steps stands            *)
(* (Announced).  That the address is the chip's rests on the driver and    *)
(* the chip counting the same bits at every clock (InStep).                *)
(***************************************************************************)
EXTENDS Boot, Schedule, TLAPS

States == {"dma", "good", "bad"}
Events == {"timer", "frame"}

Types ==
    /\ rd \in [Ring -> States] /\ dmaptr \in Ring /\ rxptr \in Ring
    /\ epending \in SUBSET Events /\ mask \in SUBSET Events
    /\ lpc \in {"none"} \cup BootSteps \cup LoopSteps

(* The oldest descriptor not given back, and the distance of d behind it.  *)
Oldest == IF lpc = "read" THEN Pred(rxptr) ELSE rxptr
Dist(o, d) == IF d >= o THEN d - o ELSE d + NRx - o

(* The k full descriptors are the k from the oldest on, and the DMA writes *)
(* behind them.                                                            *)
RunOf(r, o, w, k) ==
    /\ \A d \in Ring : r[d] # "dma" <=> Dist(o, d) < k
    /\ IF k = NRx THEN w = o ELSE Dist(o, w) = k

OneRun == \E k \in 0..NRx : RunOf(rd, Oldest, dmaptr, k)

Held == lpc = "read" => rd[Pred(rxptr)] # "dma"

Announced ==
    \/ \A d \in Ring : rd[d] = "dma"
    \/ "frame" \in epending
    \/ lpc \in {"netif_add", "events", "frame", "read"}
    \/ lpc \in {"poll", "compare"} /\ "frame" \in mask

(* A descriptor's neighbours are in the ring and are each other's.         *)
LEMMA Neighbours ==
    ASSUME NEW d \in Ring
    PROVE  /\ Succ(d) \in Ring /\ Pred(d) \in Ring
           /\ Pred(Succ(d)) = d /\ Succ(Pred(d)) = d
  BY ReceptionAssumption DEF Ring, Succ, Pred

(* Distances lie in 0..NRx-1, and tell descriptors apart.                  *)
LEMMA Distances ==
    ASSUME NEW o \in Ring, NEW d \in Ring, NEW e \in Ring
    PROVE  /\ Dist(o, d) \in 0..(NRx - 1)
           /\ Dist(o, d) = Dist(o, e) => d = e
           /\ Dist(o, o) = 0
  BY ReceptionAssumption DEF Ring, Dist

(* One step of either end changes the distance by one.                     *)
LEMMA DistanceSteps ==
    ASSUME NEW o \in Ring, NEW d \in Ring
    PROVE  /\ Dist(o, d) < NRx - 1 => Dist(o, Succ(d)) = Dist(o, d) + 1
           /\ Dist(o, d) = NRx - 1 => Succ(d) = o
           /\ d # o => Dist(Succ(o), d) = Dist(o, d) - 1
           /\ Dist(Succ(o), o) = NRx - 1
  BY ReceptionAssumption DEF Ring, Dist, Succ

(* The DMA fills the descriptor behind the run.                            *)
LEMMA RunGrows ==
    ASSUME NEW r \in [Ring -> States], NEW o \in Ring, NEW w \in Ring,
           NEW k \in 0..NRx, RunOf(r, o, w, k), r[w] = "dma",
           NEW f \in {"good", "bad"}
    PROVE  k + 1 \in 0..NRx
           /\ RunOf([r EXCEPT ![w] = f], o, Succ(w), k + 1)
  <1>1. k # NRx
    BY Distances, ReceptionAssumption DEF RunOf
  <1>2. Dist(o, w) = k
    BY <1>1 DEF RunOf
  <1>3. k + 1 \in 0..NRx
    BY <1>1, ReceptionAssumption
  <1>4. \A d \in Ring : [r EXCEPT ![w] = f][d] # "dma" <=> Dist(o, d) < k + 1
    <2> TAKE d \in Ring
    <2>1. Dist(o, d) \in 0..(NRx - 1) /\ (Dist(o, d) = k => d = w)
      BY <1>2, Distances
    <2>2. r[d] # "dma" <=> Dist(o, d) < k
      BY DEF RunOf
    <2>3. CASE d = w
      BY <2>3, <1>2, ReceptionAssumption
    <2>4. CASE d # w
      BY <2>4, <2>1, <2>2, ReceptionAssumption
    <2> QED BY <2>3, <2>4
  <1>5. IF k + 1 = NRx THEN Succ(w) = o ELSE Dist(o, Succ(w)) = k + 1
    BY <1>1, <1>2, DistanceSteps, ReceptionAssumption
  <1> QED BY <1>3, <1>4, <1>5 DEF RunOf

(* The driver gives the oldest descriptor of the run back.                 *)
LEMMA RunShrinks ==
    ASSUME NEW r \in [Ring -> States], NEW o \in Ring, NEW w \in Ring,
           NEW k \in 0..NRx, RunOf(r, o, w, k), r[o] # "dma"
    PROVE  k - 1 \in 0..NRx
           /\ RunOf([r EXCEPT ![o] = "dma"], Succ(o), w, k - 1)
  <1>1. k > 0
    BY Distances DEF RunOf
  <1>2. k - 1 \in 0..NRx /\ k - 1 # NRx
    BY <1>1, ReceptionAssumption
  <1>3. \A d \in Ring : [r EXCEPT ![o] = "dma"][d] # "dma" <=>
                            Dist(Succ(o), d) < k - 1
    <2> TAKE d \in Ring
    <2>1. r[d] # "dma" <=> Dist(o, d) < k
      BY DEF RunOf
    <2>2. Dist(o, d) \in 0..(NRx - 1)
      BY Distances
    <2>3. CASE d = o
      BY <2>3, DistanceSteps, ReceptionAssumption
    <2>4. CASE d # o
      BY <2>4, <2>1, <2>2, <1>1, DistanceSteps, ReceptionAssumption
    <2> QED BY <2>3, <2>4
  <1>4. Dist(Succ(o), w) = k - 1
    <2>1. CASE k = NRx
      BY <2>1, DistanceSteps DEF RunOf
    <2>2. CASE k # NRx
      <3>1. Dist(o, w) = k /\ w # o
        BY <2>2, <1>1, Distances DEF RunOf
      <3> QED BY <3>1, DistanceSteps
    <2> QED BY <2>1, <2>2
  <1> QED BY <1>2, <1>3, <1>4 DEF RunOf

(* When the oldest descriptor is with the DMA, all are.                    *)
LEMMA EmptyRun ==
    ASSUME NEW r \in [Ring -> States], NEW o \in Ring, NEW w \in Ring,
           NEW k \in 0..NRx, RunOf(r, o, w, k), r[o] = "dma"
    PROVE  \A d \in Ring : r[d] = "dma"
  <1>1. k = 0
    BY Distances, ReceptionAssumption DEF RunOf
  <1> QED BY <1>1, Distances DEF RunOf

-----------------------------------------------------------------------------
(* Every step keeps the types; in particular both pointers stay in the     *)
(* ring.                                                                   *)
LEMMA TypesKept ==
    ASSUME Types, [ReceptionNext]_recvVars
    PROVE  Types'
  <1> USE DEF Types, rxVars, lwipVars, BootSteps, LoopSteps, States, Events
  <1>1. CASE FrameArrives
    BY <1>1, Neighbours DEF FrameArrives, Signal
  <1>2. CASE TimerTick \/ CableChanges
    BY <1>2, Zenon DEF TimerTick, CableChanges, Signal
  <1>3. CASE LwipBoot
    BY <1>3, Zenon DEF LwipBoot, TcpipInit, CopyHwaddr, MacStart, NetifAdd, AddEvents,
                Resume, SetPriority, Goto, BootFrame
  <1>4. CASE WaitAny \/ PollLink \/ CompareLink
    BY <1>4, Zenon DEF WaitAny, PollLink, CompareLink, NextEvent
  <1>5. CASE GetDescriptor
    BY <1>5, Neighbours DEF GetDescriptor
  <1>6. CASE HandOver
    BY <1>6, Neighbours DEF HandOver
  <1>7. CASE TcpipServe \/ TcpipDone \/ McWakes \/ McSleeps \/ McYields
    BY <1>7, Zenon DEF TcpipServe, TcpipDone, McWakes, McSleeps, McYields
  <1>8. CASE CreateLwip \/ CreateMc
    BY <1>8, Zenon DEF CreateLwip, CreateMc
  <1>9. CASE UNCHANGED recvVars
    BY <1>9 DEF recvVars
  <1> QED BY <1>1, <1>2, <1>3, <1>4, <1>5, <1>6, <1>7, <1>8, <1>9
       DEF ReceptionNext, Hardware, Threads, LwipLoop

(* The full descriptors stay one run.                                      *)
LEMMA OneRunKept ==
    ASSUME Types, OneRun, Held, [ReceptionNext]_recvVars
    PROVE  OneRun' /\ Held'
  <1>1. PICK k \in 0..NRx : RunOf(rd, Oldest, dmaptr, k)
    BY DEF OneRun
  <1>2. /\ rd \in [Ring -> States] /\ rxptr \in Ring /\ dmaptr \in Ring
        /\ Oldest \in Ring
    BY Neighbours DEF Types, Oldest
  <1>3. CASE FrameArrives
    <2>1. lpc' = lpc /\ rxptr' = rxptr /\ Oldest' = Oldest
      BY <1>3 DEF FrameArrives, Signal, Oldest
    <2>2. PICK f \in {"good", "bad"} : rd' = [rd EXCEPT ![dmaptr] = f]
      BY <1>3, Zenon DEF FrameArrives
    <2>3. rd[dmaptr] = "dma" /\ dmaptr' = Succ(dmaptr)
      BY <1>3 DEF FrameArrives
    <2>4. k + 1 \in 0..NRx /\ RunOf(rd', Oldest', dmaptr', k + 1)
      BY <1>1, <1>2, <2>1, <2>2, <2>3, RunGrows, Zenon
    <2>5. Held'
      BY <1>2, <2>1, <2>2, Neighbours DEF Held
    <2> QED BY <2>4, <2>5 DEF OneRun
  <1>4. CASE GetDescriptor
    <2>1. lpc = "frame" /\ Oldest = rxptr /\ dmaptr' = dmaptr
      BY <1>4 DEF GetDescriptor, Oldest
    <2>2. CASE rd[rxptr] = "dma"
      <3>1. lpc' = "wait" /\ rd' = rd /\ rxptr' = rxptr
        BY <1>4, <2>2 DEF GetDescriptor
      <3> QED BY <1>1, <2>1, <3>1 DEF OneRun, Held, Oldest, RunOf
    <2>3. CASE rd[rxptr] = "good"
      <3>1. lpc' = "read" /\ rd' = rd /\ rxptr' = Succ(rxptr)
        BY <1>4, <2>3 DEF GetDescriptor
      <3>2. Oldest' = rxptr /\ Pred(rxptr') = rxptr
        BY <1>2, <3>1, Neighbours DEF Oldest
      <3> QED BY <1>1, <2>1, <2>3, <3>1, <3>2 DEF OneRun, Held, RunOf
    <2>4. CASE rd[rxptr] = "bad"
      <3>1. /\ lpc' = "frame" /\ rd' = [rd EXCEPT ![rxptr] = "dma"]
            /\ rxptr' = Succ(rxptr) /\ Oldest' = Succ(rxptr)
        BY <1>4, <2>1, <2>4 DEF GetDescriptor, Oldest
      <3>2. k - 1 \in 0..NRx /\ RunOf(rd', Oldest', dmaptr', k - 1)
        BY <1>1, <1>2, <2>1, <2>4, <3>1, RunShrinks, Zenon
      <3> QED BY <3>1, <3>2 DEF OneRun, Held
    <2> QED BY <1>2, <2>2, <2>3, <2>4 DEF States
  <1>5. CASE HandOver
    <2>1. /\ lpc = "read" /\ lpc' = "frame" /\ rxptr' = rxptr
          /\ dmaptr' = dmaptr /\ rd' = [rd EXCEPT ![Pred(rxptr)] = "dma"]
      BY <1>5 DEF HandOver
    <2>2. Oldest = Pred(rxptr) /\ Oldest' = Succ(Oldest)
      BY <1>2, <2>1, Neighbours DEF Oldest
    <2>3. rd[Oldest] # "dma"
      BY <2>1, <2>2 DEF Held
    <2>4. k - 1 \in 0..NRx /\ RunOf(rd', Oldest', dmaptr', k - 1)
      BY <1>1, <1>2, <2>1, <2>2, <2>3, RunShrinks, Zenon
    <2> QED BY <2>1, <2>4 DEF OneRun, Held
  <1>6. ASSUME UNCHANGED rxVars, lpc # "read", lpc' # "read"
        PROVE  OneRun' /\ Held'
    BY <1>1, <1>6 DEF rxVars, OneRun, Held, Oldest, RunOf
  <1>7. ASSUME UNCHANGED rxVars, lpc' = lpc
        PROVE  OneRun' /\ Held'
    BY <1>1, <1>7, Zenon DEF rxVars, OneRun, Held, Oldest, RunOf
  <1>8. CASE LwipBoot \/ CreateLwip
    BY <1>6, <1>8 DEF LwipBoot, TcpipInit, CopyHwaddr, MacStart, NetifAdd,
                AddEvents, Resume, SetPriority, Goto, BootFrame, CreateLwip
  <1>9. CASE WaitAny \/ PollLink \/ CompareLink
    BY <1>6, <1>9 DEF WaitAny, PollLink, CompareLink, NextEvent
  <1>10. CASE TimerTick \/ CableChanges \/ TcpipServe \/ TcpipDone
              \/ McWakes \/ McSleeps \/ McYields \/ CreateMc
    BY <1>7, <1>10, Zenon DEF TimerTick, CableChanges, Signal, TcpipServe, TcpipDone,
                 McWakes, McSleeps, McYields, CreateMc, lwipVars
  <1>11. CASE UNCHANGED recvVars
    BY <1>7, <1>11 DEF recvVars, rxVars
  <1> QED BY <1>3, <1>4, <1>5, <1>8, <1>9, <1>10, <1>11
       DEF ReceptionNext, Hardware, Threads, LwipLoop

(* A full descriptor stays announced until it is served.                   *)
LEMMA AnnouncedKept ==
    ASSUME Types, OneRun, Announced, [ReceptionNext]_recvVars
    PROVE  Announced'
  <1> USE DEF Announced
  <1>1. CASE FrameArrives
    BY <1>1, Zenon DEF FrameArrives, Signal, Registered, Types, BeforeStart,
                BootSteps, LoopSteps
  <1>2. CASE LwipBoot \/ CreateLwip
    BY <1>2 DEF LwipBoot, TcpipInit, CopyHwaddr, MacStart, NetifAdd, AddEvents,
                Resume, SetPriority, Goto, BootFrame, CreateLwip, rxVars
  <1>3. CASE WaitAny \/ PollLink \/ CompareLink
    BY <1>3 DEF WaitAny, PollLink, CompareLink, NextEvent, rxVars
  <1>4. CASE GetDescriptor
    <2>1. CASE rd[rxptr] = "dma"
      <3>1. lpc = "frame" /\ rd' = rd /\ Oldest = rxptr
        BY <1>4, <2>1 DEF GetDescriptor, Oldest
      <3>2. \A d \in Ring : rd[d] = "dma"
        BY <2>1, <3>1, EmptyRun DEF OneRun, Types
      <3> QED BY <3>1, <3>2
    <2>2. CASE rd[rxptr] # "dma"
      BY <1>4, <2>2 DEF GetDescriptor
    <2> QED BY <2>1, <2>2
  <1>5. CASE HandOver
    BY <1>5 DEF HandOver
  <1>6. CASE TimerTick \/ CableChanges \/ TcpipServe \/ TcpipDone
             \/ McWakes \/ McSleeps \/ McYields \/ CreateMc
    BY <1>6, Zenon DEF TimerTick, CableChanges, Signal, TcpipServe, TcpipDone,
                McWakes, McSleeps, McYields, CreateMc, lwipVars, rxVars
  <1>7. CASE UNCHANGED recvVars
    BY <1>7 DEF recvVars
  <1> QED BY <1>1, <1>2, <1>3, <1>4, <1>5, <1>6, <1>7
       DEF ReceptionNext, Hardware, Threads, LwipLoop

(* Whenever lwip_thread is about to sleep with no event pending, no frame  *)
(* waits in the ring: neither the interrupt that comes between the last    *)
(* look and chEvtWaitAny nor the frames before the registration are lost,  *)
(* for every number of receive descriptors.                                *)
THEOREM NoReceivedFrameForgotten == ReceptionSpec => []NoFrameForgotten
  <1>1. ReceptionInit => Types /\ OneRun /\ Held /\ Announced
    <2> SUFFICES ASSUME ReceptionInit
                 PROVE  Types /\ OneRun /\ Held /\ Announced
      OBVIOUS
    <2>1. Types /\ Held /\ Announced
      BY ReceptionAssumption
      DEF ReceptionInit, Types, Held, Announced, Ring, States, Events
    <2>2. Oldest = 0 /\ dmaptr = 0 /\ 0 \in Ring
      BY ReceptionAssumption DEF ReceptionInit, Oldest, Ring
    <2>3. \A d \in Ring : rd[d] = "dma" /\ ~(Dist(0, d) < 0)
      BY <2>2, Distances DEF ReceptionInit
    <2>4. RunOf(rd, Oldest, dmaptr, 0)
      BY <2>2, <2>3, Distances, ReceptionAssumption DEF RunOf
    <2> QED BY <2>1, <2>4, ReceptionAssumption DEF OneRun
  <1>2. Types /\ OneRun /\ Held /\ Announced /\ [ReceptionNext]_recvVars
        => (Types /\ OneRun /\ Held /\ Announced)'
    BY TypesKept, OneRunKept, AnnouncedKept
  <1>3. Announced => NoFrameForgotten
    BY DEF Announced, NoFrameForgotten
  <1> QED BY <1>1, <1>2, <1>3, PTL DEF ReceptionSpec

-----------------------------------------------------------------------------
CommandBits == 3 + AddrBits

EeTypes ==
    /\ mem \in [0..MacLen -> Bytes] /\ cs \in BOOLEAN
    /\ sent \in 0..CommandBits /\ got \in Seq({0, 1})
    /\ nbits \in 0..(ByteBits - 1) /\ nbytes \in 0..(MacLen + 1)
    /\ b \in Bytes /\ _macaddress \in [1..MacLen -> Bytes]

(* The chip has the command bits the driver has sent, and after the last   *)
(* of them puts out the bit the driver's loops are at.                     *)
InStep ==
    /\ sent < CommandBits => nbits = 0 /\ nbytes = 0
    /\ nbytes = MacLen + 1 => nbits = 0
    /\ cs \/ (sent = 0 /\ got = <<>> /\ addr = 0 /\ offset = 1) \/ nbytes = MacLen + 1
    /\ cs => /\ Len(got) = sent
             /\ \A j \in 1..sent : got[j] = ReadFromZero[j]
             /\ offset = nbits + 1
             /\ addr = IF nbytes = MacLen + 1 THEN 0 ELSE nbytes

(* The bits and the bytes read so far are the chip's.                      *)
ReadSoFar ==
    /\ \A j \in 1..nbits : b[ByteBits - nbits + j] = mem[nbytes][j]
    /\ \A j \in 1..MacLen : j < nbytes => _macaddress[j] = mem[j]

EeInv == EeTypes /\ InStep /\ ReadSoFar

(* main is past the read only with all bytes read, lwip_thread runs only   *)
(* once main has created it and carries the address from its second step   *)
(* on, and main is past lwipInit only once lwip_thread has resumed it.     *)
Started ==
    /\ mpc \notin {"eeprom", "halted"} => nbytes = MacLen + 1
    /\ mpc \in {"eeprom", "create", "halted"} => lpc = "none"
    /\ mpc \in {"suspend", "suspended", "motor", "comms", "exit"} => lpc # "none"
    /\ mpc \in {"motor", "comms", "exit"} => lpc \in {"priority"} \cup LoopSteps
    /\ mpc \in {"eeprom", "create", "suspend", "suspended", "motor", "comms",
               "exit", "halted"}
    /\ lpc \in {"none"} \cup BootSteps \cup LoopSteps
    /\ lpc \in {"macStart", "netif_add", "events", "resume", "priority"}
              \cup LoopSteps => hwaddr = [i \in 1..MacLen |-> mem[i]]

(* The command is a start bit, the read opcode and an address of zeros.    *)
LEMMA CommandIs ==
    /\ CommandBits \in Nat /\ CommandBits > 3
    /\ Len(ReadFromZero) = CommandBits
    /\ ReadFromZero[1] = 1 /\ ReadFromZero[2] = 1 /\ ReadFromZero[3] = 0
    /\ \A j \in 4..CommandBits : ReadFromZero[j] = 0
    /\ \A j \in 1..CommandBits : ReadFromZero[j] \in {0, 1}
  <1> DEFINE z == [i \in 1..AddrBits |-> 0]
  <1>1. z \in Seq({0, 1}) /\ Len(z) = AddrBits
    BY EepromAssumption
  <1>2. \A j \in 1..AddrBits : z[j] = 0
    OBVIOUS
  <1>3. ReadFromZero = <<1, 1, 0>> \o z
    BY Zenon DEF ReadFromZero, Command
  <1> HIDE DEF z
  <1>4. Len(ReadFromZero) = CommandBits
    BY <1>1, <1>3, EepromAssumption DEF CommandBits
  <1>5. ReadFromZero[1] = 1 /\ ReadFromZero[2] = 1 /\ ReadFromZero[3] = 0
    BY <1>1, <1>3, EepromAssumption
  <1>6. \A j \in 4..CommandBits : ReadFromZero[j] = 0
    BY <1>1, <1>2, <1>3, EepromAssumption DEF CommandBits
  <1>7. CommandBits \in Nat /\ CommandBits > 3
    BY EepromAssumption DEF CommandBits
  <1>8. \A j \in 1..CommandBits : ReadFromZero[j] \in {0, 1}
    BY <1>5, <1>6, <1>7
  <1> QED BY <1>4, <1>5, <1>6, <1>7, <1>8

(* With nbits bits of byte v in the accumulator, one more shift gives      *)
(* nbits + 1 of them, and all of v when it was the last.                   *)
LEMMA ShiftAdds ==
    ASSUME NEW v \in Bytes, NEW a \in Bytes, NEW n \in 0..(ByteBits - 1),
           \A j \in 1..n : a[ByteBits - n + j] = v[j]
    PROVE  /\ Shift(a, v[n + 1]) \in Bytes
           /\ \A j \in 1..(n + 1) : Shift(a, v[n + 1])[ByteBits - (n + 1) + j] = v[j]
           /\ n = ByteBits - 1 => Shift(a, v[n + 1]) = v
  <1>1. n + 1 \in 1..ByteBits /\ v[n + 1] \in {0, 1}
    BY EepromAssumption DEF Bytes
  <1> DEFINE x == v[n + 1]
  <1>2. /\ \A i \in 1..ByteBits : Shift(a, x)[i] = IF i = ByteBits THEN x ELSE a[i + 1]
        /\ DOMAIN Shift(a, x) = 1..ByteBits
        /\ Shift(a, x) = [i \in 1..ByteBits |-> Shift(a, x)[i]]
    BY DEF Shift
  <1>3. \A i \in 1..ByteBits : Shift(a, x)[i] \in {0, 1}
    <2> TAKE i \in 1..ByteBits
    <2>1. CASE i = ByteBits
      BY <2>1, <1>1, <1>2
    <2>2. CASE i # ByteBits
      <3>1. i + 1 \in 1..ByteBits
        BY <2>2, EepromAssumption
      <3> QED BY <2>2, <3>1, <1>2 DEF Bytes
    <2> QED BY <2>1, <2>2
  <1>4. Shift(a, x) \in Bytes
    BY <1>2, <1>3 DEF Bytes
  <1>5. ASSUME NEW j \in 1..(n + 1)
        PROVE  Shift(a, x)[ByteBits - (n + 1) + j] = v[j]
    <2>1. CASE j = n + 1
      <3>1. ByteBits - (n + 1) + j = ByteBits /\ ByteBits \in 1..ByteBits
        BY <2>1, EepromAssumption
      <3> QED BY <2>1, <3>1, <1>2, Zenon
    <2>2. CASE j # n + 1
      <3>1. /\ j \in 1..n
            /\ ByteBits - (n + 1) + j \in 1..ByteBits
            /\ ByteBits - (n + 1) + j # ByteBits
            /\ ByteBits - (n + 1) + j + 1 = ByteBits - n + j
        BY <2>2, EepromAssumption
      <3> QED BY <3>1, <1>2
    <2> QED BY <2>1, <2>2
  <1>6. ASSUME n = ByteBits - 1 PROVE Shift(a, x) = v
    <2>1. \A j \in 1..ByteBits : ByteBits - (n + 1) + j = j /\ j \in 1..(n + 1)
      BY <1>6, EepromAssumption
    <2>2. \A j \in 1..ByteBits : Shift(a, x)[j] = v[j]
      BY <2>1, <1>5
    <2>3. v = [j \in 1..ByteBits |-> v[j]]
      BY DEF Bytes
    <2>4. [j \in 1..ByteBits |-> Shift(a, x)[j]] = [j \in 1..ByteBits |-> v[j]]
      BY <2>2
    <2> HIDE DEF x
    <2> QED BY <2>3, <2>4, <1>2
  <1> QED BY <1>4, <1>5, <1>6

(* Before the read nothing is selected, received or answered.             *)
LEMMA EeInvInit == EepromInit => EeInv
  <1> SUFFICES ASSUME EepromInit PROVE EeInv
    OBVIOUS
  <1>1. mem \in [0..MacLen -> Bytes] /\ Zero \in Bytes
    BY EepromAssumption DEF EepromInit, Zero, Bytes
  <1>2. /\ sent = 0 /\ nbits = 0 /\ nbytes = 0 /\ got = <<>> /\ cs = FALSE
        /\ addr = 0 /\ offset = 1 /\ b = Zero
        /\ _macaddress = [i \in 1..MacLen |-> Zero]
    BY DEF EepromInit
  <1>3. EeTypes
    <2>1. 0 \in 0..CommandBits /\ 0 \in 0..(ByteBits - 1) /\ 0 \in 0..(MacLen + 1)
      BY EepromAssumption, CommandIs
    <2>2. cs \in BOOLEAN
      BY <1>2, Zenon
    <2>4. got \in Seq({0, 1})
      BY <1>2
    <2>3. _macaddress \in [1..MacLen -> Bytes]
      BY <1>1, <1>2
    <2> QED BY <1>1, <1>2, <2>1, <2>2, <2>3, <2>4 DEF EeTypes
  <1>4. InStep
    BY <1>2, EepromAssumption DEF InStep
  <1>5. ReadSoFar
    BY <1>2, EepromAssumption DEF ReadSoFar
  <1> QED BY <1>3, <1>4, <1>5 DEF EeInv

(* A command bit reaches the chip, and the start bit is not ignored.       *)
LEMMA CommandBitKept ==
    ASSUME EeInv, write_address
    PROVE  EeInv'
  <1> DEFINE x == ReadFromZero[sent + 1]
  <1>1. /\ cs /\ sent < CommandBits /\ sent' = sent + 1 /\ Clock(x)
        /\ UNCHANGED <<mem, cs, nbits, nbytes, b, _macaddress>>
    BY CommandIs DEF write_address, transfer_bit, Clock
  <1>2. /\ sent \in 0..CommandBits /\ sent + 1 \in 1..CommandBits
        /\ x \in {0, 1} /\ (sent = 0 => x = 1) /\ (sent >= 3 => x = 0)
    BY <1>1, CommandIs DEF EeInv, EeTypes
  <1>3. /\ Len(got) = sent /\ got \in Seq({0, 1})
        /\ \A j \in 1..sent : got[j] = ReadFromZero[j]
        /\ nbits = 0 /\ nbytes = 0 /\ addr = 0 /\ offset = 1
    BY <1>1, EepromAssumption DEF EeInv, InStep, EeTypes
  <1> HIDE DEF x
  <1>4. ShiftIn(x)
    BY <1>1, <1>3 DEF Clock, CommandBits
  <1>5. got' = Append(got, x)
    BY <1>2, <1>3, <1>4 DEF ShiftIn
  <1>6. addr' = 0 /\ offset' = 1
    <2>1. 0 % (MacLen + 1) = 0
      BY EepromAssumption
    <2> QED BY <1>2, <1>3, <1>4, <2>1 DEF ShiftIn
  <1>7. got' \in Seq({0, 1}) /\ Len(got') = sent'
    BY <1>1, <1>2, <1>3, <1>5
  <1>8. \A j \in 1..sent' : got'[j] = ReadFromZero[j]
    BY <1>1, <1>2, <1>3, <1>5 DEF x
  <1>9. EeTypes'
    <2>1. cs' \in BOOLEAN
      BY <1>1, Zenon DEF EeInv, EeTypes
    <2> QED BY <2>1, <1>1, <1>2, <1>7 DEF EeInv, EeTypes
  <1>10. InStep'
    BY <1>1, <1>2, <1>3, <1>6, <1>7, <1>8, EepromAssumption DEF InStep
  <1>11. ReadSoFar'
    BY <1>1 DEF EeInv, ReadSoFar
  <1> QED BY <1>9, <1>10, <1>11 DEF EeInv

(* A data bit is the one the driver's loops are at.                        *)
LEMMA DataBitKept ==
    ASSUME EeInv, read_byte
    PROVE  EeInv'
  <1>1. /\ cs /\ sent = CommandBits /\ nbytes <= MacLen /\ Clock(0)
        /\ UNCHANGED <<mem, cs, sent>>
    BY CommandIs DEF read_byte, transfer_bit, Clock
  <1>2. /\ Len(got) = sent /\ got[2] = 1 /\ got[3] = 0
        /\ offset = nbits + 1 /\ addr = nbytes
    BY <1>1, CommandIs, EepromAssumption DEF EeInv, InStep, EeTypes
  <1>3. /\ nbits \in 0..(ByteBits - 1) /\ nbytes \in 0..MacLen
        /\ mem[nbytes] \in Bytes /\ b \in Bytes
        /\ \A j \in 1..nbits : b[ByteBits - nbits + j] = mem[nbytes][j]
    BY <1>1, EepromAssumption DEF EeInv, EeTypes, ReadSoFar
  <1>4. ShiftOut
    BY <1>1, <1>2 DEF Clock, CommandBits
  <1>5. miso' = mem[nbytes][nbits + 1] /\ got' = got
    BY <1>2, <1>4, Zenon DEF ShiftOut
  <1> DEFINE s == Shift(b, miso')
  <1>6. /\ s \in Bytes
        /\ \A j \in 1..(nbits + 1) : s[ByteBits - (nbits + 1) + j] = mem[nbytes][j]
        /\ nbits = ByteBits - 1 => s = mem[nbytes]
    BY <1>3, <1>5, ShiftAdds
  <1>c. cs' \in BOOLEAN
    BY <1>1, Zenon DEF EeInv, EeTypes
  <1>7. CASE nbits = ByteBits - 1
    <2>1. /\ b' = Zero /\ nbits' = 0 /\ nbytes' = nbytes + 1
          /\ _macaddress' = IF nbytes > 0 THEN [_macaddress EXCEPT ![nbytes] = s]
                                          ELSE _macaddress
      BY <1>7, Zenon DEF read_byte
    <2> HIDE DEF s
    <2>2. offset' = 1 /\ addr' = IF nbytes' = MacLen + 1 THEN 0 ELSE nbytes'
      BY <1>2, <1>3, <1>4, <1>7, <2>1, EepromAssumption DEF ShiftOut
    <2>3. EeTypes'
      <3>1. Zero \in Bytes /\ 0 \in 0..(ByteBits - 1) /\ nbytes' \in 0..(MacLen + 1)
        BY <1>3, <2>1, EepromAssumption DEF Zero, Bytes
      <3>2. _macaddress' \in [1..MacLen -> Bytes]
        BY <1>3, <1>6, <2>1, Zenon DEF EeInv, EeTypes
      <3> QED BY <1>1, <1>5, <1>c, <2>1, <3>1, <3>2, Zenon DEF EeInv, EeTypes
    <2>4. InStep'
      BY <1>1, <1>2, <1>5, <2>1, <2>2, EepromAssumption, CommandIs
      DEF EeInv, InStep
    <2>5. ASSUME NEW j \in 1..MacLen, j < nbytes'
          PROVE  _macaddress'[j] = mem'[j]
      <3>1. _macaddress \in [1..MacLen -> Bytes]
        BY DEF EeInv, EeTypes
      <3>2. CASE j = nbytes
        <4>1. nbytes > 0
          BY <3>2, EepromAssumption
        <4>2. _macaddress'[j] = s
          BY <4>1, <2>1, <3>1, <3>2
        <4> QED BY <4>2, <3>2, <1>1, <1>6, <1>7
      <3>3. CASE j # nbytes
        <4>1. j < nbytes
          BY <2>1, <2>5, <3>3, <1>3, EepromAssumption
        <4>2. _macaddress'[j] = _macaddress[j]
          BY <2>1, <3>1, <3>3
        <4> QED BY <4>1, <4>2, <1>1, Zenon DEF EeInv, ReadSoFar
      <3> QED BY <3>2, <3>3
    <2>6. ReadSoFar'
      BY <2>1, <2>5 DEF ReadSoFar
    <2> QED BY <2>3, <2>4, <2>6 DEF EeInv
  <1>8. CASE nbits # ByteBits - 1
    <2>1. /\ b' = s /\ nbits' = nbits + 1 /\ nbytes' = nbytes
          /\ _macaddress' = _macaddress
      BY <1>8, Zenon DEF read_byte
    <2> HIDE DEF s
    <2>2. offset' = nbits' + 1 /\ addr' = nbytes
      BY <1>2, <1>3, <1>4, <1>8, <2>1, EepromAssumption DEF ShiftOut
    <2>3. EeTypes'
      <3>1. nbits' \in 0..(ByteBits - 1)
        BY <1>3, <1>8, <2>1, EepromAssumption, SMTT(30)
      <3> QED BY <1>1, <1>5, <1>6, <1>c, <2>1, <3>1, Zenon DEF EeInv, EeTypes
    <2>4. InStep'
      BY <1>1, <1>2, <1>3, <1>5, <2>1, <2>2, EepromAssumption, CommandIs
      DEF EeInv, InStep
    <2>5. ReadSoFar'
      BY <1>1, <1>6, <2>1 DEF EeInv, ReadSoFar
    <2> QED BY <2>3, <2>4, <2>5 DEF EeInv
  <1> QED BY <1>7, <1>8

(* The driver and the chip stay in step through the whole read.            *)
LEMMA EeInvKept ==
    ASSUME EeInv, Mc94AA46AE58GetID \/ UNCHANGED eeVars
    PROVE  EeInv'
  <1>1. CASE Select
    <2>1. /\ ~cs /\ sent = 0 /\ cs' = TRUE
          /\ UNCHANGED <<mem, got, addr, offset, sent, nbits, nbytes, b, _macaddress>>
      BY <1>1, Zenon DEF Select
    <2>2. nbits = 0 /\ nbytes = 0
      BY <2>1, CommandIs DEF EeInv, InStep
    <2>3. got = <<>> /\ addr = 0 /\ offset = 1
      BY <2>1, <2>2, EepromAssumption DEF EeInv, InStep
    <2>4. cs' \in BOOLEAN
      BY <2>1, Zenon
    <2>5. EeTypes'
      BY <2>1, <2>4, Zenon DEF EeInv, EeTypes
    <2>6. InStep'
      BY <2>1, <2>2, <2>3, EepromAssumption DEF InStep
    <2>7. ReadSoFar'
      BY <2>1 DEF EeInv, ReadSoFar
    <2> QED BY <2>5, <2>6, <2>7 DEF EeInv
  <1>2. CASE write_address
    BY <1>2, CommandBitKept
  <1>3. CASE read_byte
    BY <1>3, DataBitKept
  <1>4. CASE Deselect
    <2>1. /\ nbytes = MacLen + 1 /\ cs' = FALSE /\ got' = <<>>
          /\ UNCHANGED <<mem, sent, nbits, nbytes, b, _macaddress>>
      BY <1>4 DEF Deselect, chipReset
    <2>2. cs' \in BOOLEAN
      BY <2>1, Zenon
    <2>3. got' \in Seq({0, 1})
      BY <2>1
    <2>4. EeTypes'
      BY <2>1, <2>2, <2>3, Zenon DEF EeInv, EeTypes
    <2>5. InStep'
      BY <2>1, Zenon DEF EeInv, InStep
    <2>6. ReadSoFar'
      BY <2>1, Zenon DEF EeInv, ReadSoFar
    <2> QED BY <2>4, <2>5, <2>6 DEF EeInv
  <1>5. CASE UNCHANGED eeVars
    BY <1>5 DEF eeVars, EeInv, EeTypes, InStep, ReadSoFar
  <1> QED BY <1>1, <1>2, <1>3, <1>4, <1>5 DEF Mc94AA46AE58GetID

-----------------------------------------------------------------------------
(* main only delays the network threads: every step of the composition is  *)
(* one of theirs, or leaves them alone.                                    *)
LEMMA StepOfReception ==
    ASSUME [Next]_vars
    PROVE  [ReceptionNext]_recvVars
  <1>1. CASE Main
    BY <1>1 DEF Main, GetID, Create, Suspend, StartMotor, StartComms,
                ReceptionNext
  <1>2. CASE NetworkStarts \/ Loop
    BY <1>2 DEF NetworkStarts, Loop, ReceptionNext, Threads
  <1>3. CASE Interrupts \/ Serve \/ Done \/ Wake \/ Measure
    BY <1>3 DEF Interrupts, Serve, Done, Wake, Measure, ReceptionNext, Threads
  <1>4. CASE Halted \/ UNCHANGED vars
    BY <1>4, Zenon DEF Halted, vars
  <1> QED BY <1>1, <1>2, <1>3, <1>4 DEF Next

(* Steps that leave what Started speaks of alone.                          *)
LEMMA StartedStays ==
    ASSUME Started, UNCHANGED <<mpc, lpc, hwaddr, mem, nbytes>>
    PROVE  Started'
  BY DEF Started

(* main gets past each stage of the start-up only as the network does.     *)
LEMMA StartedKept ==
    ASSUME EeInv, Started, [Next]_vars
    PROVE  Started'
  <1> USE DEF BootSteps, LoopSteps
  <1>1. CASE GetID
    <2>1. /\ mpc = "eeprom" /\ lpc = "none" /\ lpc' = lpc /\ hwaddr' = hwaddr
      BY <1>1, Zenon DEF GetID, recvVars, Started
    <2>2. CASE Deselect
      <3>1. nbytes' = MacLen + 1
        BY <2>2 DEF Deselect
      <3>2. mpc' \in {"create", "halted"}
        BY <1>1, <2>2, Zenon DEF GetID
      <3> QED BY <2>1, <3>1, <3>2 DEF Started
    <2>3. CASE ~Deselect
      <3>1. mpc' \in {"eeprom", "halted"}
        BY <1>1, <2>3, Zenon DEF GetID
      <3> QED BY <2>1, <3>1 DEF Started
    <2> QED BY <2>2, <2>3
  <1>2. CASE Create
    <2>1. /\ mpc = "create" /\ mpc' = "suspend" /\ lpc' = "tcpip_init"
          /\ nbytes' = nbytes
      BY <1>2, Zenon DEF Create, CreateLwip, eeVars
    <2> QED BY <2>1 DEF Started
  <1>3. CASE Suspend \/ StartMotor \/ StartComms
    <2>1. /\ UNCHANGED <<mem, nbytes, lpc, hwaddr>>
          /\ \/ mpc = "suspend" /\ mpc' = "suspended"
             \/ mpc = "motor" /\ mpc' = "comms"
             \/ mpc = "comms" /\ mpc' = "exit"
      BY <1>3 DEF Suspend, StartMotor, StartComms, CreateMc, eeVars, recvVars,
                  lwipVars
    <2> QED BY <2>1, Zenon DEF Started
  <1>4. CASE NetworkStarts
    <2>1. /\ lpc \in BootSteps /\ mpc \notin {"eeprom", "create", "halted"}
          /\ UNCHANGED <<mem, nbytes, _macaddress>>
      BY <1>4, Zenon DEF NetworkStarts, MayBoot, eeVars, Started
    <2>2. mpc \notin {"eeprom", "halted"} => nbytes = MacLen + 1
      BY DEF Started
    <2>3. _macaddress = [i \in 1..MacLen |-> mem[i]]
      <3>1. \A j \in 1..MacLen : _macaddress[j] = mem[j]
        BY <2>1, <2>2, EepromAssumption DEF EeInv, ReadSoFar
      <3>2. _macaddress = [i \in 1..MacLen |-> _macaddress[i]]
        BY Zenon DEF EeInv, EeTypes
      <3> QED BY <3>1, <3>2, Zenon
    <2>4. CASE TcpipInit
      <3>1. lpc' = "hwaddr" /\ mpc' = mpc /\ lpc = "tcpip_init"
        BY <1>4, <2>4, Zenon DEF NetworkStarts, TcpipInit, Goto, Resume
      <3> QED BY <2>1, <2>2, <3>1 DEF Started
    <2>5. CASE CopyHwaddr
      <3>1. /\ lpc' = "macStart" /\ mpc' = mpc /\ lpc = "hwaddr"
            /\ hwaddr' = [i \in 1..MacLen |-> mem'[i]]
        BY <1>4, <2>1, <2>3, <2>5, Zenon DEF NetworkStarts, CopyHwaddr, Goto, Resume
      <3> QED BY <2>1, <2>2, <3>1, Zenon DEF Started
    <2>6. CASE Resume
      <3>1. /\ lpc = "resume" /\ lpc' = "priority" /\ hwaddr' = hwaddr
            /\ mpc' = IF mpc = "suspended" THEN "motor" ELSE mpc
        BY <1>4, <2>6, Zenon DEF NetworkStarts, CopyHwaddr, Goto, Resume
      <3> QED BY <2>1, <2>2, <3>1 DEF Started
    <2>7. CASE MacStart \/ NetifAdd \/ AddEvents
      <3>1. /\ lpc \in {"macStart", "netif_add", "events"}
            /\ lpc' \in {"netif_add", "events", "resume"}
            /\ mpc' = mpc /\ hwaddr' = hwaddr
        BY <1>4, <2>7, Zenon DEF NetworkStarts, MacStart, NetifAdd, AddEvents,
                          CopyHwaddr, Goto, Resume
      <3> QED BY <2>1, <2>2, <3>1, Zenon DEF Started
    <2>8. CASE SetPriority
      <3>1. /\ lpc = "priority" /\ lpc' = "wait"
            /\ mpc' = mpc /\ hwaddr' = hwaddr
        BY <1>4, <2>8, Zenon DEF NetworkStarts, SetPriority, CopyHwaddr, Goto, Resume
      <3> QED BY <2>1, <2>2, <3>1 DEF Started
    <2> QED BY <1>4, <2>4, <2>5, <2>6, <2>7, <2>8, Zenon DEF NetworkStarts, LwipBoot
  <1>5. CASE Loop
    <2>1. /\ lpc \in LoopSteps /\ lpc' \in LoopSteps
          /\ UNCHANGED <<mpc, hwaddr, mem, nbytes>>
      BY <1>5 DEF Loop, MayRun, LwipLoop, WaitAny, PollLink, CompareLink,
                  NextEvent, GetDescriptor, HandOver, eeVars, bootVars
    <2> QED BY <2>1, SMTT(30) DEF Started
  <1>6. CASE Interrupts \/ Serve \/ Done \/ Wake \/ Measure
    <2>1. UNCHANGED <<mpc, hwaddr, mem, nbytes>>
      BY <1>6 DEF Interrupts, Serve, Done, Wake, Measure, NotHalted, eeVars,
                  bootVars
    <2>2. lpc' = lpc
      BY <1>6, Zenon DEF Interrupts, Serve, Done, Wake, Measure, Hardware,
                  FrameArrives, TimerTick, CableChanges, Signal, TcpipServe,
                  TcpipDone, McWakes, McSleeps, McYields, lwipVars
    <2> QED BY <2>1, <2>2, StartedStays, Zenon
  <1>7. CASE Halted \/ UNCHANGED vars
    BY <1>7, StartedStays DEF Halted, vars, eeVars, recvVars, bootVars
  <1> QED BY <1>1, <1>2, <1>3, <1>4, <1>5, <1>6, <1>7 DEF Next, Main

(* Every step of the composition is the driver's, or leaves it alone.      *)
LEMMA StepOfDriver ==
    ASSUME [Next]_vars
    PROVE  Mc94AA46AE58GetID \/ UNCHANGED eeVars
  BY DEF Next, vars, Main, GetID, Create, Suspend, StartMotor, StartComms,
         NetworkStarts, Loop, Interrupts, Serve, Done, Wake, Measure, NotHalted,
         Halted

(* The start-up composed of all its parts behaves as the network threads   *)
(* alone do: main, which runs above them, adds no step of theirs.          *)
THEOREM BootIsReception == Spec => ReceptionSpec
  <1>1. Init => ReceptionInit
    BY DEF Init
  <1>2. [Next]_vars => [ReceptionNext]_recvVars
    BY StepOfReception
  <1> QED BY <1>1, <1>2, PTL DEF Spec, ReceptionSpec

(* So from power-on no received frame is left lying either: it waits for   *)
(* lwip_thread only while an event for it is on its way.                   *)
THEOREM BootForgetsNoFrame == Spec => []NoFrameForgotten
  BY BootIsReception, NoReceivedFrameForgotten, PTL

(* When main starts the motor control and the communication thread, the    *)
(* interface is up and has the address the chip holds, bit for bit, for    *)
(* every width of bytes and addresses and every content of the chip        *)
(* (93AA46AE48.c:31-64, lwipthread.c:286-358, main.c:142-150).             *)
THEOREM BootStackReady == Spec => []StackReady
  <1>1. Init => EeInv /\ Started
    <2> SUFFICES ASSUME Init PROVE EeInv /\ Started
      OBVIOUS
    <2>1. EeInv
      BY EeInvInit DEF Init
    <2>2. mpc = "eeprom" /\ lpc = "none"
      BY DEF Init, ReceptionInit
    <2> QED BY <2>1, <2>2 DEF Started, BootSteps, LoopSteps
  <1>2. EeInv /\ Started /\ [Next]_vars => (EeInv /\ Started)'
    BY EeInvKept, StepOfDriver, StartedKept
  <1>3. Started => StackReady
    BY Zenon DEF Started, StackReady, Registered, BeforeStart, LoopSteps
  <1> QED BY <1>1, <1>2, <1>3, PTL DEF Spec
-----------------------------------------------------------------------------
(* Times are system times, and the history variables count.                *)
ScheduleTypes ==
    /\ now \in 0..(W - 1) /\ next_outpub \in 0..(W - 1)
    /\ time_last_heartbeat \in 0..(W - 1)
    /\ age \in 0..Cap /\ wait \in Nat /\ since \in 0..Cap
    /\ first \in BOOLEAN
    /\ pc \in {"offline", "telemetry", "heartbeat"}

Elapsed == Diff(now, time_last_heartbeat)

(* The clock never shows more than the true age of the last heartbeat; in  *)
(* the loop it shows all but the one step in which it may have wrapped,    *)
(* and it shows less than the interval unless that step is still to come.  *)
BeatInv ==
    /\ Elapsed <= age
    /\ pc = "telemetry" => \/ wait = 0
                           \/ wait <= Elapsed + Step /\ Elapsed <= 10 * (HB - 1)
    /\ pc = "heartbeat" => \/ wait <= MaxTurn
                           \/ /\ wait <= Elapsed + Step
                              /\ Elapsed <= 10 * (HB - 1) + MaxTurn

Interval == IF first THEN 0 ELSE Delay

(* Until telemetry is due, next_outpub is as far ahead of the clock as     *)
(* there is time left; once it is due, the clock is as far beyond          *)
(* next_outpub, by less than a turn, unless it wrapped in between.         *)
OutInv ==
    pc # "offline" =>
        /\ since <= Interval => next_outpub = Later(now, Interval - since)
        /\ since > Interval =>
              \/ next_outpub >= W - Step
              \/ /\ pc = "telemetry"
                 /\ now = next_outpub + (since - Interval)
                 /\ since <= Interval + MaxPub

(* What a step of d ticks does to the clock and to an elapsed time.        *)
LEMMA ClockStep ==
    ASSUME NEW t \in 0..(W - 1), NEW u \in 0..(W - 1),
           NEW d \in 0..Step
    PROVE  /\ Later(t, d) \in 0..(W - 1)
           /\ Diff(t, u) \in 0..(W - 1) /\ Diff(Later(t, d), u) \in 0..(W - 1)
           /\ Diff(Later(t, d), t) = d
           /\ \/ Diff(Later(t, d), u) = Diff(t, u) + d
              \/ Diff(t, u) + d >= W /\ Diff(Later(t, d), u) = Diff(t, u) + d - W
  <1>1. /\ W \in Nat /\ W > 0 /\ d \in Nat /\ d < W
    BY ScheduleAssumption DEF Step
  <1>2. \/ t + d < W /\ Later(t, d) = t + d
        \/ t + d >= W /\ Later(t, d) = t + d - W
    BY <1>1 DEF Later
  <1>3. PICK s : s = Later(t, d)
    BY Zenon
  <1>4. \A a, c \in 0..(W - 1) :
            \/ a >= c /\ Diff(a, c) = a - c
            \/ a < c /\ Diff(a, c) = a - c + W
    BY <1>1 DEF Diff
  <1>5. s \in 0..(W - 1)
    BY <1>1, <1>2, <1>3
  <1>6. \/ s >= u /\ Diff(s, u) = s - u
        \/ s < u /\ Diff(s, u) = s - u + W
    BY <1>4, <1>5, Zenon
  <1>7. \/ s >= t /\ Diff(s, t) = s - t
        \/ s < t /\ Diff(s, t) = s - t + W
    BY <1>4, <1>5, Zenon
  <1>8. \/ t >= u /\ Diff(t, u) = t - u
        \/ t < u /\ Diff(t, u) = t - u + W
    BY <1>4
  <1> QED
    BY <1>1, <1>2, <1>3, <1>5, <1>6, <1>7, <1>8, SMTT(30)

(* An elapsed time of at least HB milliseconds, in ticks.                  *)
LEMMA Rounding ==
    ASSUME NEW n \in 0..(W - 1)
    PROVE  TIME_I2MS(n) >= HB <=> n > 10 * (HB - 1)
  BY ScheduleAssumption DEF TIME_I2MS

(* The steps of the loop are no longer than Step.                          *)
LEMMA Steps == 0..MaxTurn \subseteq 0..Step /\ 0..MaxPub \subseteq 0..Step
               /\ Step \in Nat
  BY ScheduleAssumption DEF Step

(* Booting establishes the three parts of the invariant.                   *)
LEMMA ScheduleStarts == ScheduleInit => ScheduleTypes /\ BeatInv /\ OutInv
  BY ScheduleAssumption, SMTT(30) DEF ScheduleInit, ScheduleTypes, BeatInv, OutInv, Elapsed, Diff, Step

(* Every step keeps the types.                                             *)
LEMMA TypesNext == ScheduleTypes /\ [ScheduleNext]_scheduleVars => ScheduleTypes'
  <1> SUFFICES ASSUME ScheduleTypes, [ScheduleNext]_scheduleVars PROVE ScheduleTypes'
    BY Zenon
  <1>1. CASE Enter
    <2>1. wait' \in Nat /\ since' \in 0..Cap /\ next_outpub' \in 0..(W - 1)
      BY <1>1, ScheduleAssumption DEF Enter, ScheduleTypes
    <2>2. first' \in BOOLEAN
      BY <1>1, Zenon DEF Enter
    <2> QED BY <1>1, <2>1, <2>2, Zenon DEF Enter, ScheduleTypes
  <1>2. ASSUME NEW d \in 0..MaxTurn, Offline(d) PROVE ScheduleTypes'
    <2>1. Later(now, d) \in 0..(W - 1)
      BY Steps, ClockStep, Zenon DEF ScheduleTypes
    <2>2. now' \in 0..(W - 1)
      BY <1>2, <2>1, Zenon DEF Offline
    <2>3. age' \in 0..Cap
      BY <1>2, ScheduleAssumption, SMTT(30) DEF Offline, ScheduleTypes, Capped
    <2>4. UNCHANGED <<pc, next_outpub, time_last_heartbeat, wait, since, first>>
      BY <1>2, Zenon DEF Offline
    <2> QED BY <2>2, <2>3, <2>4, Zenon DEF ScheduleTypes
  <1>3. ASSUME NEW d \in 0..MaxTurn, Telemetry(d) PROVE ScheduleTypes'
    <2>1. Later(now, d) \in 0..(W - 1)
      BY Steps, ClockStep, Zenon DEF ScheduleTypes
    <2>2. NextOutpub(Later(now, d)) \in 0..(W - 1)
      BY <2>1, ScheduleAssumption, SMTT(30) DEF NextOutpub, Later, Step
    <2>3. now' \in 0..(W - 1) /\ next_outpub' \in 0..(W - 1)
      BY <1>3, <2>1, <2>2, Zenon DEF Telemetry, ScheduleTypes
    <2>4. since' \in 0..Cap /\ age' \in 0..Cap /\ wait' \in Nat
      BY <1>3, ScheduleAssumption, SMTT(30) DEF Telemetry, ScheduleTypes, Capped
    <2>5. first' \in BOOLEAN /\ pc' = "heartbeat"
      BY <1>3, Zenon DEF Telemetry, ScheduleTypes
    <2>6. time_last_heartbeat' \in 0..(W - 1)
      BY <1>3 DEF Telemetry, ScheduleTypes
    <2> QED BY <2>3, <2>4, <2>5, <2>6, Zenon DEF ScheduleTypes
  <1>4. ASSUME NEW e \in 0..MaxPub, heartbeat(e) PROVE ScheduleTypes'
    <2>1. Later(now, e) \in 0..(W - 1)
      BY Steps, ClockStep, Zenon DEF ScheduleTypes
    <2>2. now' \in 0..(W - 1) /\ time_last_heartbeat' \in 0..(W - 1)
      BY <1>4, <2>1, Zenon DEF heartbeat, ScheduleTypes
    <2>3. since' \in 0..Cap /\ age' \in 0..Cap /\ wait' \in Nat
      BY <1>4, ScheduleAssumption, SMTT(30) DEF heartbeat, ScheduleTypes, Capped
    <2>4. first' = first /\ next_outpub' = next_outpub
          /\ pc' \in {"telemetry", "offline"}
      BY <1>4, Zenon DEF heartbeat
    <2> QED BY <2>2, <2>3, <2>4, Zenon DEF ScheduleTypes
  <1>5. CASE UNCHANGED scheduleVars
    BY <1>5, Zenon DEF scheduleVars, ScheduleTypes
  <1> QED BY <1>1, <1>2, <1>3, <1>4, <1>5 DEF ScheduleNext

(* Every step keeps what is known of the last heartbeat.                   *)
LEMMA BeatNext == ScheduleTypes /\ BeatInv /\ [ScheduleNext]_scheduleVars => BeatInv'
  <1> SUFFICES ASSUME ScheduleTypes, BeatInv, [ScheduleNext]_scheduleVars PROVE BeatInv'
    BY Zenon
  <1>0. now \in 0..(W - 1) /\ time_last_heartbeat \in 0..(W - 1)
    BY Zenon DEF ScheduleTypes
  <1>1. CASE Enter
    BY <1>1, Zenon DEF Enter, BeatInv, Elapsed, ScheduleTypes
  <1>2. ASSUME NEW d \in 0..MaxTurn, Offline(d) PROVE BeatInv'
    <2>1. Elapsed' <= Elapsed + d /\ Elapsed' \in 0..(W - 1) /\ Elapsed \in Nat
      <3>1. now' = Later(now, d) /\ time_last_heartbeat' = time_last_heartbeat
        BY <1>2, Zenon DEF Offline
      <3>2. /\ Later(now, d) \in 0..(W - 1) /\ Elapsed \in 0..(W - 1)
            /\ \/ Elapsed' = Elapsed + d
               \/ Elapsed + d >= W /\ Elapsed' = Elapsed + d - W
        <4>1. d \in 0..Step
          BY Steps, Zenon
        <4> QED BY <1>0, <3>1, <4>1, ClockStep DEF Elapsed
      <3>3. Elapsed' \in 0..(W - 1)
        BY <1>0, <3>1, <3>2, ScheduleAssumption, SMTT(30) DEF Elapsed, Diff
      <3> QED BY <3>2, <3>3, ScheduleAssumption
    <2>2. Elapsed' <= age'
      BY <1>2, <2>1, ScheduleAssumption, SMTT(30) DEF Offline, BeatInv, ScheduleTypes, Capped
    <2> QED BY <1>2, <2>2, Zenon DEF Offline, BeatInv
  <1>3. ASSUME NEW d \in 0..MaxTurn, Telemetry(d) PROVE BeatInv'
    <2>1. /\ Elapsed \in 0..(W - 1) /\ Elapsed' \in 0..(W - 1)
          /\ \/ Elapsed' = Elapsed + d
             \/ Elapsed + d >= W /\ Elapsed' = Elapsed + d - W
      <3>1. now' = Later(now, d) /\ time_last_heartbeat' = time_last_heartbeat
        BY <1>3, Zenon DEF Telemetry
      <3>2. d \in 0..Step
        BY Steps
      <3> QED BY <1>0, <3>1, <3>2, ClockStep, Zenon DEF Elapsed
    <2>2. Elapsed' <= age'
      BY <1>3, <2>1, ScheduleAssumption, SMTT(30) DEF Telemetry, BeatInv, ScheduleTypes, Capped
    <2>3. wait' = wait + d /\ wait \in Nat /\ d \in Nat /\ d <= MaxTurn
      BY <1>3, ScheduleAssumption, SMTT(30) DEF Telemetry, ScheduleTypes
    <2>4. wait = 0 \/ (wait <= Elapsed + Step /\ Elapsed <= 10 * (HB - 1))
      BY <1>3, Zenon DEF Telemetry, BeatInv
    <2>5. \/ wait' <= MaxTurn
          \/ wait' <= Elapsed' + Step /\ Elapsed' <= 10 * (HB - 1) + MaxTurn
      <3>1. CASE wait = 0
        BY <2>3, <3>1
      <3>2. CASE wait <= Elapsed + Step /\ Elapsed <= 10 * (HB - 1)
        <4>1. /\ 10 * (HB - 1) \in Nat /\ 10 * (HB - 1) + d < W
              /\ MaxTurn \in Nat /\ W \in Nat
          BY <2>3, ScheduleAssumption DEF Step
        <4>2. Elapsed \in Nat /\ Elapsed' \in Nat
          BY <2>1, <4>1
        <4>3. wait + d <= Elapsed' + Step /\ Elapsed' <= 10 * (HB - 1) + d
          <5>1. Elapsed + d < W
            BY <2>3, <3>2, <4>1, <4>2, ScheduleAssumption
          <5>2. Elapsed' = Elapsed + d
            BY <2>1, <2>3, <4>1, <4>2, <5>1
          <5> QED BY <2>3, <3>2, <4>2, <5>2, Steps, ScheduleAssumption
        <4> QED BY <2>3, <4>1, <4>2, <4>3
      <3> QED BY <2>4, <3>1, <3>2, Zenon
    <2> QED BY <1>3, <2>2, <2>5, Zenon DEF Telemetry, BeatInv
  <1>4. ASSUME NEW e \in 0..MaxPub, heartbeat(e) PROVE BeatInv'
    <2>1. Later(now, e) \in 0..(W - 1)
      BY <1>0, Steps, ClockStep, Zenon
    <2>2. CASE HeartbeatDue(Later(now, e))
      <3>1. Elapsed' = 0 /\ age' = 0 /\ wait' = 0
        BY <1>4, <2>1, <2>2, SMTT(30) DEF heartbeat, Elapsed, Diff
      <3> QED BY <1>4, <3>1, SMTT(30) DEF heartbeat, BeatInv
    <2>3. CASE ~HeartbeatDue(Later(now, e))
      <3>1. Elapsed' = Diff(Later(now, e), time_last_heartbeat)
        BY <1>4, <2>3, Zenon DEF heartbeat, Elapsed
      <3>2. /\ Elapsed \in 0..(W - 1) /\ Elapsed' \in 0..(W - 1)
            /\ \/ Elapsed' = Elapsed + e
               \/ Elapsed + e >= W /\ Elapsed' = Elapsed + e - W
        <4>1. e \in 0..Step
          BY Steps, Zenon
        <4> QED BY <1>0, <3>1, <4>1, ClockStep, SMTT(30) DEF Elapsed
      <3>3. Elapsed' <= 10 * (HB - 1)
        <4>1. ~(TIME_I2MS(Elapsed') >= HB)
          BY <2>3, <3>1, Zenon DEF HeartbeatDue
        <4> QED BY <3>2, <4>1, Rounding, ScheduleAssumption
      <3>4. Elapsed' <= age'
        BY <1>4, <2>3, <3>2, ScheduleAssumption, SMTT(30)
           DEF heartbeat, BeatInv, ScheduleTypes, Capped
      <3>5. wait' = wait + e /\ wait \in Nat /\ e \in Nat /\ e <= MaxPub
        BY <1>4, <2>3, ScheduleAssumption, SMTT(30) DEF heartbeat, ScheduleTypes
      <3>6. \/ wait <= MaxTurn
            \/ wait <= Elapsed + Step /\ Elapsed <= 10 * (HB - 1) + MaxTurn
        BY <1>4 DEF heartbeat, BeatInv
      <3>7. wait' <= Elapsed' + Step
        <4>1. /\ 10 * (HB - 1) + MaxTurn \in Nat /\ MaxTurn \in Nat
              /\ (10 * (HB - 1) + MaxTurn) + e < W /\ W \in Nat /\ MaxPub \in Nat
          BY <3>5, ScheduleAssumption DEF Step
        <4>2. Elapsed \in Nat /\ Elapsed' \in Nat
          BY <3>2, <4>1
        <4>3. CASE wait <= MaxTurn
          <5>1. wait' <= MaxTurn + MaxPub
            BY <3>5, <4>3, ScheduleAssumption
          <5>2. Step = MaxTurn + MaxPub /\ Step \in Nat
            BY ScheduleAssumption DEF Step
          <5>3. wait' \in Nat
            BY <3>5
          <5>4. wait' <= Step
            BY <5>1, <5>2
          <5> QED BY <4>2, <5>2, <5>3, <5>4
        <4>4. CASE /\ wait <= Elapsed + Step
                   /\ Elapsed <= 10 * (HB - 1) + MaxTurn
          <5>1. wait + e <= Elapsed' + Step
            <6>1. Elapsed + e < W
              BY <3>5, <4>1, <4>2, <4>4, ScheduleAssumption
            <6>2. Elapsed' = Elapsed + e
              BY <3>2, <3>5, <4>1, <4>2, <6>1
            <6> QED BY <3>5, <4>2, <4>4, <6>2, Steps
          <5> QED BY <3>5, <5>1, Zenon
        <4> QED BY <3>6, <4>3, <4>4
      <3> QED BY <1>4, <3>3, <3>4, <3>7, Zenon DEF heartbeat, BeatInv
    <2> QED BY <2>2, <2>3
  <1>5. CASE UNCHANGED scheduleVars
    BY <1>5, Zenon DEF scheduleVars, BeatInv, Elapsed
  <1> QED BY <1>1, <1>2, <1>3, <1>4, <1>5 DEF ScheduleNext

(* Every step keeps what is known of the next telemetry.                   *)
LEMMA OutNext == ScheduleTypes /\ OutInv /\ [ScheduleNext]_scheduleVars => OutInv'
  <1> SUFFICES ASSUME ScheduleTypes, OutInv, [ScheduleNext]_scheduleVars PROVE OutInv'
    OBVIOUS
  <1>0. /\ now \in 0..(W - 1) /\ next_outpub \in 0..(W - 1) /\ since \in 0..Cap
        /\ Interval \in 0..Delay /\ Delay \in Nat
    BY ScheduleAssumption DEF ScheduleTypes, Interval
  <1>1. CASE Enter
    <2>1. since' = 0 /\ Interval' = 0 /\ next_outpub' = now /\ now' = now
      BY <1>1, Zenon DEF Enter, Interval
    <2>2. next_outpub' = Later(now', 0)
      BY <1>0, <2>1, ScheduleAssumption DEF Later
    <2> QED BY <2>1, <2>2 DEF OutInv
  <1>2. ASSUME NEW d \in 0..MaxTurn, Offline(d) PROVE OutInv'
    BY <1>2, Zenon DEF Offline, OutInv
  <1>3. ASSUME NEW d \in 0..MaxTurn, Telemetry(d) PROVE OutInv'
    <2>1. pc = "telemetry" /\ pc' = "heartbeat" /\ now' = Later(now, d)
      BY <1>3, Zenon DEF Telemetry
    <2>2. CASE Due(Later(now, d))
      <3>1. /\ since' = 0 /\ Interval' = Delay
            /\ next_outpub' = Later(now', Delay)
        BY <1>3, <2>2 DEF Telemetry, Interval, NextOutpub
      <3> QED BY <1>0, <3>1, SMTT(30) DEF OutInv
    <2>3. CASE ~Due(Later(now, d))
      <3>1. /\ since' = Capped(since + d) /\ Interval' = Interval
            /\ next_outpub' = next_outpub /\ now' <= next_outpub
        BY <1>0, <1>3, <2>1, <2>3, ScheduleAssumption, SMTT(30)
           DEF Telemetry, Interval, Due, Later
      <3>2. CASE since <= Interval
        <4>1. next_outpub = Later(now, Interval - since)
          BY <2>1, <3>2, Zenon DEF OutInv
        <4>2. since' = since + d
          BY <1>0, <3>1, <3>2, ScheduleAssumption DEF Capped, Step
        <4>3. since' <= Interval => next_outpub = Later(now', Interval - since')
          BY <1>0, <2>1, <3>2, <4>1, <4>2, ScheduleAssumption, SMTT(30) DEF Later, Step
        <4>4. since' > Interval => next_outpub >= W - Step
          BY <1>0, <2>1, <3>1, <3>2, <4>1, <4>2, ScheduleAssumption, SMTT(30)
             DEF Later, Step
        <4> QED BY <3>1, <4>3, <4>4, Zenon DEF OutInv
      <3>3. CASE since > Interval
        <4>1. \/ next_outpub >= W - Step
              \/ now = next_outpub + (since - Interval)
                 /\ since <= Interval + MaxPub
          BY <2>1, <3>3, Zenon DEF OutInv
        <4>2. next_outpub >= W - Step
          BY <1>0, <2>1, <3>1, <3>3, <4>1, ScheduleAssumption, SMTT(30) DEF Later, Step
        <4>3. since' > Interval
          BY <1>0, <3>1, <3>3, ScheduleAssumption DEF Capped, Step
        <4> QED BY <1>0, <3>1, <4>2, <4>3, ScheduleAssumption, SMTT(30) DEF OutInv, Capped
      <3> QED BY <1>0, <3>2, <3>3
    <2> QED BY <2>2, <2>3
  <1>4. ASSUME NEW e \in 0..MaxPub, heartbeat(e) PROVE OutInv'
    <2>1. /\ pc = "heartbeat" /\ pc' \in {"telemetry", "offline"}
          /\ now' = Later(now, e) /\ next_outpub' = next_outpub
          /\ Interval' = Interval /\ since' = Capped(since + e)
      BY <1>4, Zenon DEF heartbeat, Interval
    <2>2. CASE since <= Interval
      <3>1. next_outpub = Later(now, Interval - since)
        BY <2>1, <2>2, Zenon DEF OutInv
      <3>2. since' = since + e
        BY <1>0, <2>1, <2>2, ScheduleAssumption DEF Capped, Step
      <3>3. since' <= Interval => next_outpub = Later(now', Interval - since')
        BY <1>0, <2>1, <2>2, <3>1, <3>2, ScheduleAssumption, SMTT(30) DEF Later, Step
      <3>4. since' > Interval =>
               \/ next_outpub >= W - Step
               \/ /\ now' = next_outpub + (since' - Interval)
                  /\ since' <= Interval + MaxPub
        BY <1>0, <2>1, <2>2, <3>1, <3>2, ScheduleAssumption, SMTT(30) DEF Later, Step
      <3> QED BY <2>1, <3>3, <3>4, Zenon DEF OutInv
    <2>3. CASE since > Interval
      <3>1. next_outpub >= W - Step
        BY <2>1, <2>3, Zenon DEF OutInv
      <3>2. since' > Interval
        BY <1>0, <2>1, <2>3, ScheduleAssumption DEF Capped, Step
      <3> QED BY <1>0, <2>1, <3>1, <3>2, ScheduleAssumption, SMTT(30) DEF OutInv, Capped
    <2> QED BY <1>0, <2>2, <2>3
  <1>5. CASE UNCHANGED scheduleVars
    BY <1>5 DEF scheduleVars, OutInv, Interval
  <1> QED BY <1>1, <1>2, <1>3, <1>4, <1>5 DEF ScheduleNext

(* All three parts hold in every state of every behaviour.                 *)
LEMMA ScheduleAlways == ScheduleSpec => [](ScheduleTypes /\ BeatInv /\ OutInv)
  BY ScheduleStarts, TypesNext, BeatNext, OutNext, PTL DEF ScheduleSpec

(* Heartbeats are neither closer than the interval nor, in the loop, later *)
(* than the interval and two turns, for every range of the clock.          *)
THEOREM HeartbeatsArePaced == ScheduleSpec => HeartbeatPaced
  <1> DEFINE Bound == pc # "offline" => wait <= 10 * (HB - 1) + Step + MaxTurn
             Gap == pc = "heartbeat" /\ HeartbeatDue(now') =>
                        age + Diff(now', now) > 10 * (HB - 1)
  <1>1. ScheduleTypes /\ BeatInv => Bound
    <2> SUFFICES ASSUME ScheduleTypes, BeatInv, pc # "offline"
                 PROVE  wait <= 10 * (HB - 1) + Step + MaxTurn
      BY Zenon
    <2>1. Elapsed \in Nat /\ wait \in Nat
      BY ScheduleAssumption, SMTT(30) DEF ScheduleTypes, Elapsed, Diff
    <2>2. pc = "telemetry" \/ pc = "heartbeat"
      BY Zenon DEF ScheduleTypes
    <2> QED BY <2>1, <2>2, ScheduleAssumption DEF BeatInv, Step
  <1>2. ScheduleTypes /\ BeatInv /\ [ScheduleNext]_scheduleVars => [Gap]_scheduleVars
    <2> SUFFICES ASSUME ScheduleTypes, BeatInv, ScheduleNext, pc = "heartbeat", HeartbeatDue(now')
                 PROVE  age + Diff(now', now) > 10 * (HB - 1)
      BY Zenon
    <2>1. PICK e \in 0..MaxPub : heartbeat(e)
      BY Zenon DEF ScheduleNext, Enter, Offline, Telemetry
    <2>2. now' = Later(now, e) /\ now \in 0..(W - 1)
          /\ time_last_heartbeat \in 0..(W - 1) /\ age \in Nat
      BY <2>1, ScheduleAssumption, SMTT(30) DEF heartbeat, ScheduleTypes
    <2>3. /\ Diff(now', now) = e /\ now' \in 0..(W - 1)
          /\ Diff(now', time_last_heartbeat) <= Elapsed + e
      <3>1. /\ Diff(now', now) = e /\ now' \in 0..(W - 1)
            /\ Elapsed \in 0..(W - 1)
            /\ \/ Diff(now', time_last_heartbeat) = Elapsed + e
               \/ Diff(now', time_last_heartbeat) = Elapsed + e - W
        BY <2>2, Steps, ClockStep, Zenon DEF Elapsed
      <3> QED BY <3>1, ScheduleAssumption, SMTT(30)
    <2>4. Diff(now', time_last_heartbeat) \in 0..(W - 1) /\ Elapsed \in Nat
      BY <2>2, <2>3, ScheduleAssumption, SMTT(30) DEF Diff, Elapsed
    <2>5. Diff(now', time_last_heartbeat) > 10 * (HB - 1)
      BY <2>4, Rounding DEF HeartbeatDue
    <2> QED BY <2>2, <2>3, <2>4, <2>5, ScheduleAssumption, SMTT(30) DEF BeatInv
  <1> QED BY <1>1, <1>2, ScheduleAlways, PTL DEF HeartbeatPaced, ScheduleSpec

(* Telemetry comes early only between the wrap of next_outpub and that of  *)
(* the clock, for every range of the clock.                                *)
THEOREM TelemetryIsNotEarly == ScheduleSpec => TelemetryNotEarly
  <1> DEFINE Late == pc = "telemetry" /\ Due(now') /\ ~first =>
                        \/ since + Diff(now', now) > Delay
                        \/ next_outpub < Delay /\ now > next_outpub
  <1>1. ScheduleTypes /\ OutInv /\ [ScheduleNext]_scheduleVars => [Late]_scheduleVars
    <2> SUFFICES ASSUME ScheduleTypes, OutInv, ScheduleNext, pc = "telemetry", Due(now'), ~first
                 PROVE  \/ since + Diff(now', now) > Delay
                        \/ next_outpub < Delay /\ now > next_outpub
      BY Zenon
    <2>1. PICK d \in 0..MaxTurn : Telemetry(d)
      BY Zenon DEF ScheduleNext, Enter, Offline, heartbeat
    <2>2. now' = Later(now, d) /\ now \in 0..(W - 1) /\ since \in Nat
          /\ next_outpub \in 0..(W - 1) /\ Interval = Delay
      BY <2>1, ScheduleAssumption, SMTT(30) DEF Telemetry, ScheduleTypes, Interval
    <2>3. Diff(now', now) = d
      BY <2>2, Steps, ClockStep, Zenon
    <2>4. since <= Delay => next_outpub = Later(now, Delay - since)
      BY <2>2 DEF OutInv
    <2>5. now' > next_outpub
      BY DEF Due
    <2> QED BY <2>2, <2>3, <2>4, <2>5, ScheduleAssumption, SMTT(30) DEF Later, Step
  <1> QED BY <1>1, ScheduleAlways, PTL DEF TelemetryNotEarly, ScheduleSpec

(* Telemetry is late only when it fell due in the last turn before the     *)
(* clock wraps, for every range of the clock.                              *)
THEOREM TelemetryIsOnTime == ScheduleSpec => []TelemetryOnTime
  <1>1. ScheduleTypes /\ OutInv => TelemetryOnTime
    BY ScheduleAssumption, SMTT(30) DEF ScheduleTypes, OutInv, TelemetryOnTime, Interval, Step
  <1> QED BY <1>1, ScheduleAlways, PTL
=============================================================================
