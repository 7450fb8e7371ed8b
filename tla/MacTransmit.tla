----------------------------- MODULE MacTransmit -----------------------------
(***************************************************************************)
(* Transmission of frames: low_level_output of the lwIP binding, the MAC   *)
(* driver's macWaitTransmitDescriptor with its queue of waiting threads,   *)
(* and the ring of transmit descriptors shared with the Ethernet DMA.      *)
(*                                                                         *)
(* Three threads send, each at a priority of its own: the comm thread, the *)
(* tcpip thread and mcTask.  A thread takes a step only when none of       *)
(* higher priority is ready; the DMA and its interrupt come at any time    *)
(* outside a locked section, and a locked section is one step.             *)
(***************************************************************************)
EXTENDS Integers

CONSTANTS
    NDesc,       \* STM32_MAC_TRANSMIT_BUFFERS
    Frames,      \* frames are numbered modulo Frames
    MaxPolls     \* bound: changes of the link

ASSUME MacAssumption ==
    /\ NDesc \in Nat \ {0} /\ Frames \in Nat /\ Frames > NDesc
    /\ MaxPolls \in Nat

Threads == {"comm", "tcpip", "mc"}
Prio(t) == CASE t = "comm" -> 3 [] t = "tcpip" -> 2 [] t = "mc" -> 1
Descs == 0..(NDesc - 1)

VARIABLES
    desc,        \* per descriptor: OWN and LOCKED bits, and the frame in it
    txptr,       \* the driver's next descriptor
    dma, tps,    \* the DMA: its next descriptor, its transmit process state
    link_up,
    polls,       \* changes of the link so far
    pc, td,      \* low_level_output, per thread, and the descriptor it holds
    allocated,   \* history: number of the next descriptor handed out
    out,         \* history: number of the next frame to leave
    intact       \* history: every frame was its writer's, whole, in turn

mac == <<desc, txptr, dma, tps, link_up, polls, pc, td, allocated, out, intact>>

NoFrame == [st |-> "free", by |-> "nobody", no |-> 0]

MacInit ==
    /\ desc = [d \in Descs |-> NoFrame]
    /\ txptr = 0 /\ dma = 0 /\ tps = "running" /\ link_up = FALSE /\ polls = 0
    /\ pc = [t \in Threads |-> "idle"] /\ td = [t \in Threads |-> 0]
    /\ allocated = 0 /\ out = 0 /\ intact = TRUE

Ready(t) == pc[t] \notin {"idle", "queued"}
MayRun(t) == \A u \in Threads : Ready(u) => Prio(u) <= Prio(t)

-----------------------------------------------------------------------------
(* A thread calls low_level_output; the caller has run until here, so none *)
(* of higher priority is ready.                                            *)

Call(t) ==
    /\ pc[t] = "idle" /\ \A u \in Threads : Ready(u) => Prio(u) < Prio(t)
    /\ pc' = [pc EXCEPT ![t] = "get"]
    /\ UNCHANGED <<desc, txptr, dma, tps, link_up, polls, td, allocated, out, intact>>

(* mac_lld_get_transmit_descriptor.  Mutant of Available: LOCKED is not    *)
(* tested.                                                                 *)
AvailableM(d) == desc[d].st # "own"
Available(d) == desc[d].st = "free"

Get(t) ==
    /\ pc[t] = "get" /\ MayRun(t)
    /\ IF link_up /\ Available(txptr)
       THEN /\ desc' = [desc EXCEPT ![txptr] =
                           [st |-> "locked", by |-> "nobody", no |-> allocated]]
            /\ td' = [td EXCEPT ![t] = txptr]
            /\ txptr' = (txptr + 1) % NDesc
            /\ allocated' = (allocated + 1) % Frames
            /\ pc' = [pc EXCEPT ![t] = "write"]
       ELSE /\ pc' = [pc EXCEPT ![t] = "enqueue"]
            /\ UNCHANGED <<desc, txptr, td, allocated>>
    /\ UNCHANGED <<dma, tps, link_up, polls, out, intact>>

(* osalThreadEnqueueTimeoutS, in a locked section of its own.              *)
Enqueue(t) ==
    /\ pc[t] = "enqueue" /\ MayRun(t)
    /\ pc' = [pc EXCEPT ![t] = "queued"]
    /\ UNCHANGED <<desc, txptr, dma, tps, link_up, polls, td, allocated, out, intact>>

(* MSG_TIMEOUT: low_level_output gives up.  Mutant: no break, so it tries  *)
(* again.                                                                  *)
TimeOutM(t) ==
    /\ pc[t] = "queued"
    /\ pc' = [pc EXCEPT ![t] = "get"]
    /\ UNCHANGED <<desc, txptr, dma, tps, link_up, polls, td, allocated, out, intact>>
TimeOut(t) ==
    /\ pc[t] = "queued"
    /\ pc' = [pc EXCEPT ![t] = "idle"]
    /\ UNCHANGED <<desc, txptr, dma, tps, link_up, polls, td, allocated, out, intact>>

(* macWriteTransmitDescriptor; it and the release assert that the DMA does *)
(* not own the descriptor.                                                 *)
Write(t) ==
    /\ pc[t] = "write" /\ MayRun(t)
    /\ desc' = [desc EXCEPT ![td[t]].by = t]
    /\ intact' = (intact /\ desc[td[t]].st # "own")
    /\ pc' = [pc EXCEPT ![t] = "release"]
    /\ UNCHANGED <<txptr, dma, tps, link_up, polls, td, allocated, out>>

(* macReleaseTransmitDescriptor: OWN is set and, in the same locked        *)
(* section, a DMA that has suspended is told to look again.  Mutant: it is *)
(* not told.                                                               *)
ReleaseM(t) ==
    /\ pc[t] = "release" /\ MayRun(t)
    /\ desc' = [desc EXCEPT ![td[t]].st = "own"]
    /\ intact' = (intact /\ desc[td[t]].st # "own" /\ desc[td[t]].by = t)
    /\ pc' = [pc EXCEPT ![t] = "idle"] /\ td' = [td EXCEPT ![t] = 0]
    /\ UNCHANGED <<txptr, dma, tps, link_up, polls, allocated, out>>
Release(t) ==
    /\ pc[t] = "release" /\ MayRun(t)
    /\ desc' = [desc EXCEPT ![td[t]].st = "own"]
    /\ intact' = (intact /\ desc[td[t]].st # "own" /\ desc[td[t]].by = t)
    /\ tps' = IF tps = "suspended" THEN "running" ELSE tps
    /\ pc' = [pc EXCEPT ![t] = "idle"] /\ td' = [td EXCEPT ![t] = 0]
    /\ UNCHANGED <<txptr, dma, link_up, polls, allocated, out>>

-----------------------------------------------------------------------------
(* A running DMA sends the frame it is at when it owns it, and its         *)
(* interrupt wakes all waiting threads; they try again.  At a descriptor   *)
(* that it does not own it suspends and looks at no descriptor until it is *)
(* told to.  Reading the descriptor and suspending are one step.           *)

Woken == [t \in Threads |-> IF pc[t] = "queued" THEN "get" ELSE pc[t]]

Transmit ==
    /\ tps = "running" /\ desc[dma].st = "own"
    /\ desc' = [desc EXCEPT ![dma] = NoFrame]
    /\ intact' = (intact /\ desc[dma].no = out)
    /\ dma' = (dma + 1) % NDesc /\ out' = (out + 1) % Frames
    /\ pc' = Woken
    /\ UNCHANGED <<txptr, tps, link_up, polls, td, allocated>>

Suspend ==
    /\ tps = "running" /\ desc[dma].st # "own"
    /\ tps' = "suspended"
    /\ UNCHANGED <<desc, txptr, dma, link_up, polls, pc, td, allocated, out, intact>>

(* lwip_thread polls the link.                                             *)
PollLink ==
    /\ polls < MaxPolls /\ polls' = polls + 1
    /\ link_up' = ~link_up
    /\ UNCHANGED <<desc, txptr, dma, tps, pc, td, allocated, out, intact>>

Output(t) == Get(t) \/ Enqueue(t) \/ Write(t) \/ Release(t)

-----------------------------------------------------------------------------
(* A frame leaves as its sender wrote it, no descriptor is written by two  *)
(* threads or while the DMA owns it, and frames leave in the order in      *)
(* which the descriptors were handed out, each once (hal_mac_lld.c:419-485,*)
(* 651-666).                                                               *)
FramesIntact == intact

(* A frame handed to the DMA leaves, even if the DMA is stuck at a         *)
(* descriptor whose holder was preempted: it has suspended by then, and    *)
(* the release of that descriptor, not a later frame, sets it going again  *)
(* (hal_mac_lld.c:438-442, 478-482).                                       *)
FramesLeave == \A d \in Descs : desc[d].st = "own" ~> desc[d].st # "own"

(* Every send comes back once the link stays as it is, with the link up or *)
(* down and with all descriptors in use, unless threads of higher priority *)
(* keep taking the descriptors: macWaitTransmitDescriptor starts its       *)
(* timeout anew whenever it is woken (hal_mac.c:158-167).                  *)
SendReturns ==
    \A t \in Threads :
        \/ pc[t] # "idle" ~> pc[t] = "idle"
        \/ []<>(\E u \in Threads : Prio(u) > Prio(t) /\ pc[u] = "write")
=============================================================================
