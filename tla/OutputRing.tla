----------------------------- MODULE OutputRing ------------------------------
(***************************************************************************)
(* The output ring buffer of the MQTT client, byte by byte: the free       *)
(* running 16-bit indices, mqtt_output_check_space and the append helpers, *)
(* and mqtt_output_send, which hands one or two linear stretches to TCP.   *)
(*                                                                         *)
(* Only the comm thread appends (there is no keep-alive and no QoS above   *)
(* 0); it and the tcpip thread send.  The comm thread has the higher       *)
(* priority.  In the runs with preempt = TRUE it may start in the middle   *)
(* of a send of the tcpip thread, otherwise only between two.              *)
(*                                                                         *)
(* A byte is a tag that counts modulo Tags, so the order in which TCP      *)
(* should see the bytes is known without a history.                        *)
(***************************************************************************)
EXTENDS Integers, FiniteSets

CONSTANTS
    Size,          \* MQTT_OUTPUT_RINGBUF_SIZE, a power of 2
    IdxMod,        \* 2^16, the range of put and get
    SndBuf,        \* TCP_SND_BUF
    Lengths,       \* lengths of messages, header included
    Tags,          \* number of tags
    MaxFail,       \* bound: calls of tcp_write that fail
    PreemptModes   \* may the comm thread start inside a send?

ASSUME RingAssumption ==
    /\ Size \in Nat \ {0} /\ IdxMod \in Nat /\ IdxMod > Size /\ IdxMod % Size = 0
    /\ SndBuf \in Nat \ {0} /\ Lengths \subseteq Nat \ {0} /\ MaxFail \in Nat
    /\ Tags \in Nat /\ Tags > Size /\ PreemptModes \subseteq BOOLEAN

Threads == {"comm", "tcpip"}

VARIABLES
    put, get, buf,        \* mqtt_ringbuf_t
    sndbuf,               \* free bytes in TCP's send buffer
    pc, send_len, wrap,   \* mqtt_output_send, per thread
    fresh, expect,        \* tags: next byte appended, next byte TCP is due
    intact,               \* history: TCP got its bytes in order
    fails,                \* failing calls of tcp_write so far
    preempt

ring == <<put, get, buf>>
locals == <<pc, send_len, wrap>>
sysVars == <<ring, sndbuf, locals, fresh, expect, intact, fails>>
vars == <<preempt, sysVars>>

Init ==
    /\ put = 0 /\ get = 0 /\ buf = [k \in 0..(Size - 1) |-> 0]
    /\ sndbuf = SndBuf
    /\ pc = [t \in Threads |-> "idle"]
    /\ send_len = [t \in Threads |-> 0] /\ wrap = [t \in Threads |-> FALSE]
    /\ fresh = 0 /\ expect = 0 /\ intact = TRUE /\ fails = 0
    /\ preempt \in PreemptModes

MinOf(x, y) == IF x < y THEN x ELSE y

mqtt_ringbuf_len == (put - get) % IdxMod
mqtt_ringbuf_free == Size - mqtt_ringbuf_len
(* Mutant of LinearLength: as if the buffer did not wrap.                  *)
LinearLengthM(g) == MinOf((put - g) % IdxMod, Size)
LinearLength(g) == MinOf((put - g) % IdxMod, Size - (g % Size))

(* A thread runs when no thread of higher priority does.                   *)
MayRun(t) == t = "tcpip" => pc["comm"] = "idle"
MayCall == pc["comm"] = "idle" /\ (preempt \/ pc["tcpip"] = "idle")

-----------------------------------------------------------------------------
(* The comm thread: a message is appended if it fits, and sent.            *)

(* Mutant of CheckSpace: one byte too many.                                *)
CheckSpaceM(n) == n <= mqtt_ringbuf_free + 1
CheckSpace(n) == n <= mqtt_ringbuf_free

AppendBytes(n) ==
    /\ put' = (put + n) % IdxMod
    /\ fresh' = (fresh + n) % Tags
    /\ buf' = [k \in 0..(Size - 1) |->
                  LET back == {j \in 0..(n - 1) : (put + j) % Size = k}
                  IN IF back = {} THEN buf[k]
                     ELSE (fresh + CHOOSE j \in back : \A i \in back : i <= j)
                              % Tags]

Publish(n) ==
    /\ MayCall /\ CheckSpace(n)
    /\ AppendBytes(n)
    /\ pc' = [pc EXCEPT !["comm"] = "start"]
    /\ UNCHANGED <<get, sndbuf, send_len, wrap, expect, intact, fails>>

(* mqtt_client_connect clears the client; the new connection starts empty. *)
Reconnect ==
    /\ MayCall
    /\ put' = 0 /\ get' = 0 /\ buf' = [k \in 0..(Size - 1) |-> 0]
    /\ sndbuf' = SndBuf /\ fresh' = 0 /\ expect' = 0
    /\ UNCHANGED <<locals, intact, fails>>

-----------------------------------------------------------------------------
(* The tcpip thread: mqtt_tcp_sent_cb and mqtt_tcp_poll_cb.                *)

TcpSent ==
    /\ pc["comm"] = "idle" /\ pc["tcpip"] = "idle" /\ sndbuf < SndBuf
    /\ sndbuf' \in (sndbuf + 1)..SndBuf
    /\ pc' = [pc EXCEPT !["tcpip"] = "start"]
    /\ UNCHANGED <<ring, send_len, wrap, fresh, expect, intact, fails>>

(* Mutant of TcpPoll: only a full buffer is sent.                          *)
TcpPollM ==
    /\ pc["comm"] = "idle" /\ pc["tcpip"] = "idle" /\ mqtt_ringbuf_len = Size
    /\ pc' = [pc EXCEPT !["tcpip"] = "start"]
    /\ UNCHANGED <<ring, sndbuf, send_len, wrap, fresh, expect, intact, fails>>
TcpPoll ==
    /\ pc["comm"] = "idle" /\ pc["tcpip"] = "idle" /\ mqtt_ringbuf_len # 0
    /\ pc' = [pc EXCEPT !["tcpip"] = "start"]
    /\ UNCHANGED <<ring, sndbuf, send_len, wrap, fresh, expect, intact, fails>>

-----------------------------------------------------------------------------
(* mqtt_output_send, one step per access to what the threads share.  Its   *)
(* locals are cleared when it returns.                                     *)

Return(t) ==
    /\ pc' = [pc EXCEPT ![t] = "idle"]
    /\ send_len' = [send_len EXCEPT ![t] = 0]
    /\ wrap' = [wrap EXCEPT ![t] = FALSE]

SendStart(t) ==
    LET lin == LinearLength(get) IN
    /\ MayRun(t) /\ pc[t] = "start"
    /\ IF sndbuf = 0 \/ lin = 0
       THEN Return(t)
       ELSE /\ pc' = [pc EXCEPT ![t] = "write"]
            /\ send_len' = [send_len EXCEPT ![t] = MinOf(sndbuf, lin)]
            /\ wrap' = [wrap EXCEPT ![t] = sndbuf > lin /\ mqtt_ringbuf_len > lin]
    /\ UNCHANGED <<ring, sndbuf, fresh, expect, intact, fails>>

(* tcp_write copies n bytes from the get position on; it takes all or none *)
(* of them.  Past the end of buf lies something else.                      *)
InOrder(n) ==
    \A k \in 0..(n - 1) : /\ (get % Size) + k < Size
                          /\ buf[(get % Size) + k] = (expect + k) % Tags

TcpWrite(t) ==
    /\ MayRun(t) /\ pc[t] \in {"write", "write2"}
    /\ send_len[t] <= sndbuf
    /\ sndbuf' = sndbuf - send_len[t]
    /\ intact' = (intact /\ InOrder(send_len[t]))
    /\ expect' = (expect + send_len[t]) % Tags
    /\ pc' = [pc EXCEPT ![t] = IF pc[t] = "write" THEN "advance" ELSE "advance2"]
    /\ UNCHANGED <<ring, send_len, wrap, fresh, fails>>

TcpWriteFails(t) ==
    /\ MayRun(t) /\ pc[t] \in {"write", "write2"}
    /\ \/ fails < MaxFail /\ fails' = fails + 1
       \/ send_len[t] > sndbuf /\ UNCHANGED fails
    /\ Return(t)
    /\ UNCHANGED <<ring, sndbuf, fresh, expect, intact>>

Advance(t) ==
    /\ MayRun(t) /\ pc[t] \in {"advance", "advance2"}
    /\ LET g == (get + send_len[t]) % IdxMod
           more == pc[t] = "advance" /\ wrap[t]
       IN /\ get' = g
          /\ IF more
             THEN /\ pc' = [pc EXCEPT ![t] = "write2"]
                  /\ send_len' = [send_len EXCEPT ![t] =
                                     MinOf(sndbuf, LinearLength(g))]
                  /\ UNCHANGED wrap
             ELSE Return(t)
    /\ UNCHANGED <<put, buf, sndbuf, fresh, expect, intact, fails>>

Send(t) == SendStart(t) \/ TcpWrite(t) \/ TcpWriteFails(t) \/ Advance(t)

Next ==
    /\ \/ \E n \in Lengths : Publish(n)
       \/ Reconnect \/ TcpSent \/ TcpPoll
       \/ \E t \in Threads : Send(t)
    /\ UNCHANGED preempt

(* The threads run, lwIP polls, and an acknowledgement waits in the        *)
(* mailbox of the tcpip thread until the thread is free.                   *)
Fairness ==
    /\ \A t \in Threads : WF_sysVars(Send(t))
    /\ SF_sysVars(TcpSent) /\ WF_sysVars(TcpPoll)

Spec == Init /\ [][Next]_vars /\ Fairness

-----------------------------------------------------------------------------
(* While no send is interrupted, the broker gets the bytes of the messages *)
(* in order, none twice, none missing and none stale: across the wrap of   *)
(* the buffer and of the 16-bit indices, when TCP takes only part of what  *)
(* is there, and when the second of the two writes fails after the first   *)
(* has been handed over (mqtt.c:226-240).                                  *)
StreamIntact == ~preempt => intact

(* While no send is interrupted, the buffer never holds more than its size *)
(* and, between two sends, holds exactly the bytes TCP has not got yet     *)
(* (mqtt.c:182-196, 483-497).                                              *)
RingHoldsTheRest ==
    ~preempt =>
        /\ mqtt_ringbuf_len <= Size
        /\ (\A t \in Threads : pc[t] \in {"idle", "start"}) =>
              /\ (fresh - expect) % Tags = mqtt_ringbuf_len
              /\ \A k \in 0..(mqtt_ringbuf_len - 1) :
                    buf[(get + k) % Size] = (expect + k) % Tags

(* While no send is interrupted, output that could not be sent at once     *)
(* gets out: as long as TCP makes progress, the buffer keeps being emptied *)
(* or at least the get index keeps moving (mqtt.c:954-962, 985-999).       *)
OutputMoves == ~preempt => []<>(mqtt_ringbuf_len = 0) \/ []<><<get' # get>>_vars
=============================================================================
