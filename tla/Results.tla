------------------------------- MODULE Results -------------------------------
(***************************************************************************)
(* Sending of the measurement results: fr_emit copies every result to the  *)
(* payload of one pbuf that was allocated at the start, and udp_sendto,    *)
(* ip4_output_if_opt_src and ethernet_output put their headers in front of *)
(* it.  Each pbuf_header moves the payload pointer towards the start of    *)
(* the pbuf, and nothing moves it back.  The frame goes to MacTransmit,    *)
(* where the other threads' frames go too.                                 *)
(*                                                                         *)
(* A result that finds no route, or no memory for a header pbuf, changes   *)
(* nothing and is no step here.                                            *)
(***************************************************************************)
EXTENDS MacTransmit

CONSTANTS
    Headroom,    \* of the pbuf allocated as PBUF_TRANSPORT
    HdrRoom,     \* of a header pbuf allocated as PBUF_IP
    UDP_HLEN, IP_HLEN, SIZEOF_ETH_HDR,
    MaxLost      \* bound: results lost, counted up to it

ASSUME ResultsAssumption ==
    /\ Headroom \in Nat /\ HdrRoom \in Nat /\ MaxLost \in Nat
    /\ UDP_HLEN \in Nat \ {0} /\ IP_HLEN \in Nat /\ SIZEOF_ETH_HDR \in Nat
    /\ HdrRoom >= IP_HLEN + SIZEOF_ETH_HDR

VARIABLES
    room,        \* bytes in front of freq_pb->payload
    ref,         \* freq_pb->ref
    lost         \* history: results lost for lack of room

vars == <<mac, room, ref, lost>>

Init == MacInit /\ room = Headroom /\ ref = 1 /\ lost = 0

-----------------------------------------------------------------------------
(* fr_emit, up to the call of low_level_output.                            *)

mcRuns == pc["mc"] = "idle" /\ \A t \in Threads : ~Ready(t)

Left(r, hdr) == IF r >= hdr THEN r - hdr ELSE r

(* The headers go into the pbuf itself as far as they fit.                 *)
EmitInPlace ==
    LET udp == room - UDP_HLEN
        ip == Left(udp, IP_HLEN)
        eth == IF udp >= IP_HLEN THEN Left(ip, SIZEOF_ETH_HDR) ELSE ip
    IN /\ mcRuns /\ room >= UDP_HLEN
       /\ room' = eth
       /\ IF udp >= IP_HLEN /\ ip >= SIZEOF_ETH_HDR
          THEN Call("mc") /\ UNCHANGED lost
          ELSE /\ lost' = IF lost < MaxLost THEN lost + 1 ELSE lost
               /\ UNCHANGED mac
       /\ UNCHANGED ref

(* No room for the UDP header: a header pbuf is chained in front, and      *)
(* pbuf_chain takes a reference.                                           *)
EmitChained ==
    /\ mcRuns /\ room < UDP_HLEN
    /\ ref' = ref + 1
    /\ Call("mc")
    /\ UNCHANGED <<room, lost>>

(* When the send comes back, udp_sendto_if_src frees the header pbuf and   *)
(* with it the reference.                                                  *)
(* Mutant of FreeHeader: the header pbuf is not freed.                     *)
FreeHeaderM(t) == UNCHANGED ref
FreeHeader(t) ==
    ref' = IF t = "mc" /\ pc'[t] = "idle" /\ ref > 1 THEN ref - 1 ELSE ref

-----------------------------------------------------------------------------
ThreadStep(t) ==
    (Output(t) \/ TimeOut(t)) /\ FreeHeader(t) /\ UNCHANGED <<room, lost>>

Dma == (Transmit \/ Suspend) /\ UNCHANGED <<room, ref, lost>>

Next ==
    \/ EmitInPlace \/ EmitChained
    \/ \E t \in Threads : ThreadStep(t)
    \/ \E t \in {"comm", "tcpip"} : Call(t) /\ UNCHANGED <<room, ref, lost>>
    \/ PollLink /\ UNCHANGED <<room, ref, lost>>
    \/ Dma

(* The threads of higher priority pause between two frames, so every       *)
(* thread gets on or times out; a running DMA sends what it owns.  Nothing *)
(* is asked of a suspended one.                                            *)
Fairness == WF_vars(Dma) /\ \A t \in Threads : SF_vars(ThreadStep(t))

Spec == Init /\ [][Next]_vars /\ Fairness

-----------------------------------------------------------------------------
(* Between two results the pbuf is mcTask's alone, the payload lies inside *)
(* it, and at most one result has been lost for lack of room: the one that *)
(* finds room for the UDP header but not for those that follow             *)
(* (motor_control.c:28-30, udp.c:710-728, ip4.c:855-861).                  *)
OneResultLost ==
    /\ room \in 0..Headroom /\ lost <= 1
    /\ pc["mc"] = "idle" => ref = 1

(* "Includes spare room for transport layer header, e.g. UDP header. Use   *)
(* this if you intend to pass the pbuf to functions like udp_send()"       *)
(* (pbuf.h:73-74): a pbuf allocated so has room for the headers.           *)
NoResultLost == lost = 0
=============================================================================
