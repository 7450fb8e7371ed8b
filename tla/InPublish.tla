------------------------------ MODULE InPublish ------------------------------
(***************************************************************************)
(* Reception of commands: mqtt_parse_incoming and the PUBLISH branch of    *)
(* mqtt_message_received on a byte stream that TCP cuts anywhere, and the  *)
(* callbacks mqtt_pub_cb and mqtt_data_cb that reassemble the payload in   *)
(* sub_buffer.                                                             *)
(*                                                                         *)
(* The parser runs in one thread and its callbacks are called from it; one *)
(* step here is one turn of its loop.  The buffer sizes are constants and  *)
(* a length byte has base Base instead of 128.                             *)
(***************************************************************************)
EXTENDS Integers, Sequences

CONSTANTS
    BufLen,      \* MQTT_VAR_HEADER_BUFFER_LEN
    Base,        \* values of the low bits of a length byte
    SubCap,      \* sizeof(sub_buffer)
    Lengths,     \* payload lengths the broker may send
    MaxMsgs,     \* bound: messages published
    MaxOther     \* bound: SUBACKs per run

ASSUME InPublishAssumption ==
    /\ BufLen \in Nat /\ Base \in Nat /\ BufLen > 8 - 1 /\ Base > 5
    /\ SubCap \in Nat /\ Lengths \subseteq 0..(Base * Base - 4)
    /\ MaxMsgs \in Nat /\ MaxOther \in Nat

PUBLISH == -3
SUBACK == -9
TOPIC == -7          \* the one byte of the command topic

VARIABLES
    stream,          \* bytes TCP has not delivered
    chunk,           \* the rest of the pbuf being parsed
    fixed_hdr_idx, b, msg_rem_len,      \* locals of mqtt_parse_incoming
    msg_idx, rx_buffer,                 \* client state
    incoming_publish, sub,              \* comms state; sub, up to sub_ptr
    inflight, handled,                  \* history: published, processed
    sent, other,                        \* messages sent so far
    bailed, rejected                    \* history: "Bail", and a connection
                                        \*   given up over a payload

locals == <<fixed_hdr_idx, b, msg_rem_len>>
comms == <<incoming_publish, sub>>
broker == <<sent, other>>
vars == <<stream, chunk, locals, msg_idx, rx_buffer, comms, inflight, handled,
          broker, bailed, rejected>>

Init ==
    /\ stream = <<>> /\ chunk = <<>>
    /\ fixed_hdr_idx = 0 /\ b = 0 /\ msg_rem_len = 0
    /\ msg_idx = 0 /\ rx_buffer = [i \in 0..(BufLen - 1) |-> 0]
    /\ incoming_publish = FALSE /\ sub = <<>>
    /\ inflight = <<>> /\ handled = <<>> /\ sent = 0 /\ other = 0
    /\ bailed = FALSE /\ rejected = FALSE

MinOf(x, y) == IF x < y THEN x ELSE y

-----------------------------------------------------------------------------
(* The broker and TCP.                                                     *)

LengthBytes(n) ==
    IF n < Base THEN <<n>> ELSE <<Base + (n % Base), n \div Base>>

Payload(n, id) == [i \in 1..n |-> 100 * id + i]

BrokerPublish(n) ==
    /\ sent < MaxMsgs
    /\ sent' = sent + 1
    /\ inflight' = Append(inflight, Payload(n, sent'))
    /\ stream' = stream \o <<PUBLISH>> \o LengthBytes(n + 3)
                        \o <<0, 1, TOPIC>> \o Payload(n, sent')
    /\ UNCHANGED <<chunk, locals, msg_idx, rx_buffer, comms, handled, other,
                   bailed, rejected>>

BrokerSuback ==
    /\ other < MaxOther
    /\ other' = other + 1
    /\ stream' = stream \o <<SUBACK, 3, 0, 1, 0>>
    /\ UNCHANGED <<chunk, locals, msg_idx, rx_buffer, comms, inflight, handled,
                   sent, bailed, rejected>>

(* mqtt_tcp_recv_cb: the locals start anew with every pbuf.                *)
Recv(k) ==
    /\ chunk = <<>>
    /\ chunk' = SubSeq(stream, 1, k)
    /\ stream' = SubSeq(stream, k + 1, Len(stream))
    /\ fixed_hdr_idx' = 0 /\ b' = 0 /\ msg_rem_len' = 0
    /\ UNCHANGED <<msg_idx, rx_buffer, comms, inflight, handled, broker, bailed,
                   rejected>>

(* The memset in mqtt_client_connect.                                      *)
Reset ==
    /\ msg_idx' = 0
    /\ rx_buffer' = [i \in 0..(BufLen - 1) |-> 0]

(* The connection ends and a new one is made; comms_t is not reset.        *)
Reconnect ==
    /\ chunk = <<>>
    /\ stream' = <<>> /\ inflight' = <<>>
    /\ fixed_hdr_idx' = 0 /\ b' = 0 /\ msg_rem_len' = 0
    /\ Reset
    /\ UNCHANGED <<chunk, comms, handled, broker, bailed, rejected>>

-----------------------------------------------------------------------------
(* comms.c: state of the reassembly as a record.                           *)

(* Mutant of mqtt_pub_cb: sub_ptr is not rewound.                          *)
mqtt_pub_cbM(c, tot_len) == [c EXCEPT !.in = tot_len <= SubCap]

mqtt_pub_cb(c, tot_len) == [c EXCEPT !.in = tot_len <= SubCap, !.sub = <<>>]

mqtt_data_cb(c, data, last) ==
    IF ~c.in THEN c
    ELSE IF Len(c.sub) + Len(data) > SubCap THEN [c EXCEPT !.bailed = TRUE]
    ELSE LET s == c.sub \o data
         IN  [c EXCEPT !.sub = s,
                       !.handled = IF last THEN Append(@, s) ELSE @,
                       !.in = ~last]

-----------------------------------------------------------------------------
(* The turn of the loop that takes a byte of the fixed header.             *)

(* Of rem bytes behind a header of idx bytes, those not yet received.      *)
Remaining(rem, idx, received) == rem + idx - received

HeaderByte ==
    LET old == fixed_hdr_idx < msg_idx
        byte == IF old THEN rx_buffer[fixed_hdr_idx] ELSE Head(chunk)
        idx == fixed_hdr_idx + 1
        mul == CASE idx < 2 -> 0 [] idx = 2 -> 1 [] idx > 2 -> Base
        rem == msg_rem_len + mul * (byte % Base)
        received == IF old THEN msg_idx ELSE msg_idx + 1
        ends == idx >= 2 /\ byte < Base
    IN  /\ chunk # <<>> /\ (fixed_hdr_idx < 2 \/ b >= Base)
        /\ b' = byte
        /\ chunk' = IF old THEN chunk ELSE Tail(chunk)
        /\ rx_buffer' = IF old THEN rx_buffer ELSE [rx_buffer EXCEPT ![msg_idx] = byte]
        /\ fixed_hdr_idx' = IF ends /\ rem = 0 THEN 0 ELSE idx
        /\ msg_idx' = IF ends /\ rem = 0 THEN 0 ELSE received
        /\ msg_rem_len' = IF ends /\ rem # 0 THEN Remaining(rem, idx, received) ELSE rem
        /\ UNCHANGED <<stream, comms, inflight, handled, broker, bailed, rejected>>

CopyStart ==
    ((msg_idx - fixed_hdr_idx) % (BufLen - fixed_hdr_idx)) + fixed_hdr_idx

CopyLength(space) == MinOf(MinOf(Len(chunk), msg_rem_len), space)

(* Mutant of TopicFits: room for a packet identifier at QoS 0, too.        *)
TopicFitsM(after_topic, length) == after_topic + 2 <= length

(* There has to be a byte behind the topic, for its terminating zero.      *)
TopicFits(after_topic, length) == after_topic + 1 <= length

(* The PUBLISH branch of mqtt_message_received; length bytes of rx behind  *)
(* the fixed header are valid and rem more will follow.                    *)
PublishFragment(rx, received, length, rem, rest) ==
    LET at(i) == rx[fixed_hdr_idx + i]
        first == received <= BufLen
        after_topic == 2 + 256 * at(0) + at(1)
        offset == IF first THEN after_topic ELSE 0
        data == [i \in 1..(length - offset) |-> at(offset + i - 1)]
        c0 == [in |-> incoming_publish, sub |-> sub, handled |-> handled,
               bailed |-> bailed]
        c1 == IF first THEN mqtt_pub_cb(c0, rem + length - offset) ELSE c0
        c2 == IF data # <<>> \/ rem = 0 THEN mqtt_data_cb(c1, data, rem = 0) ELSE c1
    IN  IF first /\ ~TopicFits(after_topic, length)
        THEN /\ rejected' = (rejected \/ Head(inflight) # <<>>)
             /\ stream' = <<>> /\ chunk' = <<>> /\ inflight' = <<>>
             /\ Reset
             /\ UNCHANGED <<comms, handled, bailed>>
        ELSE /\ incoming_publish' = c2.in /\ sub' = c2.sub
             /\ handled' = c2.handled /\ bailed' = c2.bailed
             /\ inflight' = IF rem = 0 THEN Tail(inflight) ELSE inflight
             /\ rx_buffer' = rx /\ chunk' = rest
             /\ msg_idx' = IF rem = 0 THEN 0 ELSE received
             /\ UNCHANGED <<stream, rejected>>

(* The turn of the loop that copies bytes behind the fixed header.         *)
CopyBytes ==
    LET start == CopyStart
        space == BufLen - start
        n == CopyLength(space)
        rx == [i \in 0..(BufLen - 1) |->
                  IF i \in start..(start + n - 1) THEN chunk[i - start + 1]
                  ELSE rx_buffer[i]]
        rem == msg_rem_len - n
        rest == SubSeq(chunk, n + 1, Len(chunk))
        received == msg_idx + n
    IN  /\ chunk # <<>> /\ ~(fixed_hdr_idx < 2 \/ b >= Base)
        /\ msg_rem_len' = rem
        /\ fixed_hdr_idx' = IF rem = 0 THEN 0 ELSE fixed_hdr_idx
        /\ \/ /\ (rem = 0 \/ n = space) /\ rx[0] = PUBLISH
              /\ PublishFragment(rx, received, start + n - fixed_hdr_idx, rem, rest)
           \/ /\ ~((rem = 0 \/ n = space) /\ rx[0] = PUBLISH)
              /\ rx_buffer' = rx /\ chunk' = rest
              /\ msg_idx' = IF rem = 0 THEN 0 ELSE received
              /\ UNCHANGED <<stream, comms, inflight, handled, bailed, rejected>>
        /\ UNCHANGED <<b, broker>>

Next ==
    \/ \E n \in Lengths : BrokerPublish(n)
    \/ BrokerSuback
    \/ \E k \in 1..Len(stream) : Recv(k)
    \/ Reconnect
    \/ HeaderByte
    \/ CopyBytes

Spec == Init /\ [][Next]_vars

-----------------------------------------------------------------------------
(* However TCP cuts the stream, mqtt_message_received gives up the         *)
(* connection over a publish only if its payload is empty, and the length  *)
(* announced to mqtt_pub_cb is what the fragments passed to mqtt_data_cb   *)
(* add up to, so "Bail if length is too long" (comms.c:48) is not taken.   *)
OnlyEmptyRefused == ~rejected /\ ~bailed

Channel == INSTANCE CommandChannel WITH
    Payloads <- {Payload(n, id) : n \in Lengths, id \in 1..MaxMsgs},
    Capacity <- SubCap

(* However TCP cuts the stream, wherever connections end and whatever they *)
(* leave in rx_buffer and sub_buffer, process_incoming_publish sees the    *)
(* published payloads whole, in order and at most once, and all that fit.  *)
ChannelRefined == Channel!ChSpec
=============================================================================
