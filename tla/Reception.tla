----------------------------- MODULE Reception -----------------------------
(***************************************************************************)
(* The receiving side of the Ethernet binding: the ring of receive         *)
(* descriptors that the DMA fills, the interrupt and the periodic timer    *)
(* that signal lwip_thread, lwip_thread itself from its creation on, and   *)
(* tcpip_thread behind its mailbox.  lwip_thread ends at LOWPRIO, the      *)
(* priority of the measurement task (mcTask), which never sleeps while it  *)
(* waits for results: the two share the processor only where one of them   *)
(* blocks or yields.  tcpip_thread preempts both.                          *)
(*                                                                         *)
(* A frame is good (passed by get_receive_descriptor) or bad (purged by    *)
(* it).  A DMA that found no descriptor drops the frame and goes on with   *)
(* the next one.  Bounds: NRx descriptors, MboxSize mailbox entries,       *)
(* MsgPool messages of either kind (4, MEMP_NUM_PBUF and 8 in the code).   *)
(***************************************************************************)
EXTENDS Integers, Sequences

CONSTANTS NRx, MboxSize, MsgPool

ASSUME ReceptionAssumption ==
    NRx \in Nat \ {0} /\ MboxSize \in Nat \ {0} /\ MsgPool \in Nat \ {0}

VARIABLES
    rd,         \* the descriptors: "dma" (owned by it), "good" or "bad"
    dmaptr,     \* the descriptor the DMA writes next
    rxptr,      \* the descriptor the driver looks at next
    epending,   \* lwip_thread's pending events
    mask,       \* the events of the current turn of its loop
    lpc,        \* where lwip_thread is
    current_link_status,
    link_up,    \* NETIF_FLAG_LINK_UP of the interface
    mbox,       \* tcpip_thread's mailbox
    serving,    \* the message tcpip_thread is blocked in, or "none"
    phy,        \* the state of the cable
    mc,         \* the measurement task: "none", "asleep" or "ready"
    cpu         \* who runs at LOWPRIO when nothing above it does

rxVars == <<rd, dmaptr, rxptr>>
lwipVars == <<epending, mask, lpc, current_link_status>>
tcpipVars == <<link_up, mbox, serving>>
recvVars == <<rd, dmaptr, rxptr, epending, mask, lpc, current_link_status,
              link_up, mbox, serving, phy, mc, cpu>>

Ring == 0..(NRx - 1)
Succ(d) == IF d = NRx - 1 THEN 0 ELSE d + 1
Pred(d) == IF d = 0 THEN NRx - 1 ELSE d - 1

BeforeStart == {"none", "tcpip_init", "hwaddr", "macStart"}
BootSteps == {"tcpip_init", "hwaddr", "macStart", "netif_add", "events",
              "resume", "priority"}
LoopSteps == {"wait", "poll", "compare", "frame", "read"}

TcpipReady == serving = "none" /\ mbox # <<>>
LwipReady == lpc \in LoopSteps /\ (lpc # "wait" \/ epending # {})

ReceptionInit ==
    /\ rd = [d \in Ring |-> "dma"] /\ dmaptr = 0 /\ rxptr = 0
    /\ epending = {} /\ mask = {} /\ lpc = "none"
    /\ current_link_status = FALSE /\ link_up = FALSE
    /\ mbox = <<>> /\ serving = "none"
    /\ phy = FALSE /\ mc = "none" /\ cpu = "idle"

-----------------------------------------------------------------------------
(* Hardware and interrupts.  A broadcast reaches lwip_thread once it has   *)
(* registered for the source, and makes it run when nothing else does.     *)
Registered == lpc \notin BeforeStart \cup {"netif_add", "events"}

Signal(e) ==
    /\ epending' = IF Registered THEN epending \cup {e} ELSE epending
    /\ cpu' = IF cpu = "idle" /\ lpc = "wait" THEN "lwip" ELSE cpu
    /\ UNCHANGED <<mask, lpc, current_link_status>>

FrameArrives ==
    /\ lpc \notin BeforeStart
    /\ rd[dmaptr] = "dma"
    /\ \E f \in {"good", "bad"} : rd' = [rd EXCEPT ![dmaptr] = f]
    /\ dmaptr' = Succ(dmaptr)
    /\ Signal("frame")
    /\ UNCHANGED <<rxptr, tcpipVars, phy, mc>>

TimerTick ==
    /\ Registered
    /\ Signal("timer")
    /\ UNCHANGED <<rxVars, tcpipVars, phy, mc>>

CableChanges ==
    /\ phy' = ~phy
    /\ UNCHANGED <<rxVars, lwipVars, tcpipVars, mc, cpu>>

-----------------------------------------------------------------------------
(* The two threads of this module that main creates.                       *)
CreateLwip ==
    /\ lpc = "none" /\ lpc' = "tcpip_init"
    /\ UNCHANGED <<rxVars, epending, mask, current_link_status, tcpipVars, phy,
                   mc, cpu>>

CreateMc ==
    /\ mc = "none" /\ mc' = "asleep"
    /\ UNCHANGED <<rxVars, lwipVars, tcpipVars, phy, cpu>>

(* lwip_thread: initialization.                                            *)
Goto(from, to) == lpc = from /\ lpc' = to

BootFrame == UNCHANGED <<rxVars, mask, current_link_status, mbox, serving,
                         phy, mc>>

TcpipInit ==
    /\ Goto("tcpip_init", "hwaddr") /\ BootFrame
    /\ UNCHANGED <<epending, link_up, cpu>>

CopyHwaddr ==
    /\ Goto("hwaddr", "macStart") /\ BootFrame
    /\ UNCHANGED <<epending, link_up, cpu>>

MacStart ==
    /\ Goto("macStart", "netif_add") /\ BootFrame
    /\ UNCHANGED <<epending, link_up, cpu>>

(* low_level_init declares the link up before anyone has looked.           *)
NetifAdd ==
    /\ Goto("netif_add", "events") /\ BootFrame
    /\ link_up' = TRUE
    /\ UNCHANGED <<epending, cpu>>

(* Mutant of AddEvents: the loop starts with the timer event only.         *)
AddEventsM ==
    /\ Goto("events", "resume") /\ BootFrame
    /\ epending' = {"timer"}
    /\ UNCHANGED <<link_up, cpu>>

(* The listeners are registered, and both events raised by hand.           *)
AddEvents ==
    /\ Goto("events", "resume") /\ BootFrame
    /\ epending' = {"timer", "frame"}
    /\ UNCHANGED <<link_up, cpu>>

Resume ==
    /\ Goto("resume", "priority") /\ BootFrame
    /\ UNCHANGED <<epending, link_up, cpu>>

(* chThdSetPriority(LWIP_THREAD_PRIORITY): an equal thread does not        *)
(* preempt the caller.                                                     *)
SetPriority ==
    /\ Goto("priority", "wait") /\ BootFrame
    /\ cpu' = "lwip"
    /\ UNCHANGED <<epending, link_up>>

LwipBoot == TcpipInit \/ CopyHwaddr \/ MacStart \/ NetifAdd \/ AddEvents
            \/ Resume \/ SetPriority

-----------------------------------------------------------------------------
(* lwip_thread: the loop.                                                  *)
Low(t) == cpu = t /\ ~TcpipReady

(* chEvtWaitAny(ALL_EVENTS) sleeps, or takes and clears what is pending.   *)
WaitAny ==
    /\ lpc = "wait" /\ Low("lwip")
    /\ \/ /\ epending = {}
          /\ cpu' = IF mc = "ready" THEN "mc" ELSE "idle"
          /\ UNCHANGED <<epending, mask, lpc>>
       \/ /\ epending # {}
          /\ mask' = epending /\ epending' = {}
          /\ lpc' = "poll"
          /\ UNCHANGED cpu
    /\ UNCHANGED <<rxVars, current_link_status, tcpipVars, phy, mc>>

NextEvent == IF "frame" \in mask THEN "frame" ELSE "wait"

(* macPollLinkStatus: several transfers on the management bus.             *)
PollLink ==
    /\ lpc = "poll" /\ Low("lwip")
    /\ \/ /\ "timer" \in mask
          /\ current_link_status' = phy
          /\ lpc' = "compare"
       \/ /\ "timer" \notin mask
          /\ lpc' = NextEvent
          /\ UNCHANGED current_link_status
    /\ UNCHANGED <<rxVars, epending, mask, tcpipVars, phy, mc, cpu>>

Kind(msg) == IF msg = "packet" THEN "packet" ELSE "callback"

InUse(kind) == Len(SelectSeq(Append(mbox, serving),
                             LAMBDA msg : msg # "none" /\ Kind(msg) = kind))

Accepts(msg) == Len(mbox) < MboxSize /\ InUse(Kind(msg)) < MsgPool

LinkMessage == IF current_link_status THEN "link_up" ELSE "link_down"

(* The flag is compared, and a difference posted without blocking: no      *)
(* memory or no room, and the change waits for the next poll.              *)
CompareLink ==
    /\ lpc = "compare" /\ Low("lwip")
    /\ lpc' = NextEvent
    /\ mbox' = IF current_link_status # link_up /\ Accepts(LinkMessage)
               THEN Append(mbox, LinkMessage) ELSE mbox
    /\ UNCHANGED <<rxVars, epending, mask, current_link_status, link_up,
                   serving, phy, mc, cpu>>

(* mac_lld_get_receive_descriptor.  Interrupts are masked but the DMA goes *)
(* on, so each descriptor it looks at is a step.                           *)
GetDescriptor ==
    /\ lpc = "frame" /\ Low("lwip")
    /\ \/ /\ rd[rxptr] = "dma"
          /\ lpc' = "wait"
          /\ UNCHANGED <<rd, rxptr>>
       \/ /\ rd[rxptr] = "good"
          /\ lpc' = "read"
          /\ rxptr' = Succ(rxptr)
          /\ UNCHANGED rd
       \/ /\ rd[rxptr] = "bad"
          /\ rd' = [rd EXCEPT ![rxptr] = "dma"]
          /\ rxptr' = Succ(rxptr)
          /\ UNCHANGED lpc
    /\ UNCHANGED <<dmaptr, epending, mask, current_link_status, tcpipVars,
                   phy, mc, cpu>>

(* The frame is copied to a pbuf and its descriptor given back; the pbuf   *)
(* goes to tcpip_input, or is freed: none was left, the protocol is        *)
(* another one, or the mailbox does not accept it.                         *)
HandOver ==
    /\ lpc = "read" /\ Low("lwip")
    /\ rd' = [rd EXCEPT ![Pred(rxptr)] = "dma"]
    /\ lpc' = "frame"
    /\ \/ Accepts("packet") /\ mbox' = Append(mbox, "packet")
       \/ UNCHANGED mbox
    /\ UNCHANGED <<dmaptr, rxptr, epending, mask, current_link_status,
                   link_up, serving, phy, mc, cpu>>

LwipLoop == WaitAny \/ PollLink \/ CompareLink \/ GetDescriptor \/ HandOver

-----------------------------------------------------------------------------
(* tcpip_thread serves a message at once, or blocks in it: an answer or a  *)
(* gratuitous ARP may wait for a transmit descriptor.                      *)
TcpipServe ==
    /\ TcpipReady
    /\ mbox' = Tail(mbox)
    /\ link_up' = CASE Head(mbox) = "link_up" -> TRUE
                    [] Head(mbox) = "link_down" -> FALSE
                    [] OTHER -> link_up
    /\ serving' \in {"none", Head(mbox)}
    /\ UNCHANGED <<rxVars, lwipVars, phy, mc, cpu>>

TcpipDone ==
    /\ serving # "none"
    /\ serving' = "none"
    /\ UNCHANGED <<rxVars, lwipVars, link_up, mbox, phy, mc, cpu>>

(* The measurement task: created asleep, then a loop of polls with a yield *)
(* after each; udp_sendto may put it to sleep.                             *)
McWakes ==
    /\ mc = "asleep"
    /\ mc' = "ready"
    /\ cpu' = IF cpu = "idle" THEN "mc" ELSE cpu
    /\ UNCHANGED <<rxVars, lwipVars, tcpipVars, phy>>

McSleeps ==
    /\ Low("mc")
    /\ mc' = "asleep"
    /\ cpu' = IF LwipReady THEN "lwip" ELSE "idle"
    /\ UNCHANGED <<rxVars, lwipVars, tcpipVars, phy>>

(* Mutant of McYields: the loop without chThdYield.                        *)
McYieldsM ==
    /\ Low("mc")
    /\ UNCHANGED recvVars

McYields ==
    /\ Low("mc") /\ LwipReady
    /\ cpu' = "lwip"
    /\ UNCHANGED <<rxVars, lwipVars, tcpipVars, phy, mc>>

Hardware == FrameArrives \/ TimerTick \/ CableChanges
Threads == LwipBoot \/ LwipLoop \/ TcpipServe \/ TcpipDone
           \/ McWakes \/ McSleeps \/ McYields

(* The threads by themselves; Boot adds main, which only delays them.      *)
ReceptionNext == Hardware \/ Threads \/ CreateLwip \/ CreateMc
ReceptionSpec == ReceptionInit /\ [][ReceptionNext]_recvVars

-----------------------------------------------------------------------------
(* No wake-up is lost: when lwip_thread is about to sleep, or sleeps, with *)
(* no event pending, every descriptor is with the DMA.  A frame that came  *)
(* before the listener was registered, during the previous turn or right   *)
(* after the last empty look at the ring has left its event.               *)
NoFrameForgotten ==
    lpc = "wait" /\ epending = {} => \A d \in Ring : rd[d] = "dma"
=============================================================================
