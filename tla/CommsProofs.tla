---------------------------- MODULE CommsProofs ----------------------------
(***************************************************************************)
(* Proofs about the comm thread and its client: Comms for every value of   *)
(* its constants.                                                          *)
(*                                                                         *)
(* Shape relates the client's connection state, its TCP connection, its    *)
(* timer and the step of the running callback; it holds whatever the comm  *)
(* thread's wake-ups interrupt.  Quiet adds what holds only when they      *)
(* interrupt no callback.                                                  *)
(***************************************************************************)
EXTENDS Comms, SequenceTheorems, TLAPS

Closing == {"closing", "nulled", "cleared"}
Online == {"MQTT_CONNECTING", "MQTT_CONNECTED"}

ConnShape ==
    IF tp \in {"nulled", "cleared"} THEN ~conn
    ELSE conn <=> conn_state # "TCP_DISCONNECTED"

TcpShape ==
    IF tp \in Closing
    THEN tcp = "closed" /\ conn_state # "TCP_DISCONNECTED"
    ELSE /\ tcp = "closed" <=> conn_state = "TCP_DISCONNECTED"
         /\ tcp = "syn_sent" <=> conn_state = "TCP_CONNECTING"

TimerShape ==
    /\ tp = "cleared" => timer = 0
    /\ tp \in Closing => timer <= 1
    /\ tp \notin Closing => timer = IF conn_state \in Online THEN 1 ELSE 0

TickShape ==
    tp \notin Closing /\ conn_state = "MQTT_CONNECTING" => tick < ConnectTicks

WaitShape ==
    comm \in {"check", "waitsleep"} /\ ~received /\ tp \notin {"notify", "flag"}
        => conn_state # "TCP_DISCONNECTED"

Shape == ConnShape /\ TcpShape /\ TimerShape /\ TickShape /\ WaitShape

(* The outcome s has been, or is being, reported for the connection.       *)
Settled(s) ==
    \/ s = "ACCEPTED" /\ conn_state = "MQTT_CONNECTED"
    \/ s # "ACCEPTED" /\ conn_state = "TCP_DISCONNECTED"

Quiet ==
    /\ OutputHasConnection
    /\ comm \notin Asleep => tp = "idle"
    /\ tp \in Closing => reason # "ACCEPTED"
    /\ tp \in {"notify", "flag"} => Settled(reason)
    /\ tp = "flag" => status = reason
    /\ comm \in {"presleep", "retrysleep", "connect"}
           => ~received /\ conn_state = "TCP_DISCONNECTED" /\ tp = "idle"
    /\ comm \in {"subscribe", "loop", "heartbeat", "loopsleep"} /\ tp = "idle"
           => Settled(status)
    /\ comm \in {"check", "waitsleep"} /\ received
           => answered /\ (tp = "idle" => Settled(status))


-----------------------------------------------------------------------------
Buffers ==
    /\ output \in Seq(Requests) /\ Len(output) <= OutCap
    /\ tosrv \in Seq(Requests) /\ Len(tosrv) <= SndBuf
    /\ tocli \in Seq(Replies) /\ Len(tocli) <= InCap

(* Handing a prefix of a queue to TCP and keeping the rest.                *)
LEMMA SplitType ==
    ASSUME NEW q \in Seq(Requests), Len(q) <= OutCap,
           NEW t \in Seq(Requests), Len(t) <= SndBuf,
           NEW n \in 0..Len(q), n <= SndBuf - Len(t)
    PROVE  /\ t \o SubSeq(q, 1, n) \in Seq(Requests)
           /\ Len(t \o SubSeq(q, 1, n)) <= SndBuf
           /\ SubSeq(q, n + 1, Len(q)) \in Seq(Requests)
           /\ Len(SubSeq(q, n + 1, Len(q))) <= OutCap
<1>1. SubSeq(q, 1, n) \in Seq(Requests) /\ Len(SubSeq(q, 1, n)) = n
  BY SubSeqProperties
<1>2. /\ SubSeq(q, n + 1, Len(q)) \in Seq(Requests)
      /\ Len(SubSeq(q, n + 1, Len(q))) <= Len(q)
  BY SubSeqProperties
<1>3. /\ t \o SubSeq(q, 1, n) \in Seq(Requests)
      /\ Len(t \o SubSeq(q, 1, n)) = Len(t) + n
  BY <1>1, ConcatProperties
<1>4. Len(t) + n <= SndBuf /\ Len(SubSeq(q, n + 1, Len(q))) <= OutCap
  BY <1>2, CommsAssumption
<1> QED
  BY <1>2, <1>3, <1>4

(* mqtt_output_send keeps both ends of the ring buffer within bounds.      *)
LEMMA OutputSendType ==
    ASSUME Buffers, NEW q \in Seq(Requests), Len(q) <= OutCap,
           mqtt_output_send(q)
    PROVE  /\ output' \in Seq(Requests) /\ Len(output') <= OutCap
           /\ tosrv' \in Seq(Requests) /\ Len(tosrv') <= SndBuf
<1> DEFINE room == SndBuf - Len(tosrv)
           n == IF Len(q) < room THEN Len(q) ELSE room
           sent == tosrv \o SubSeq(q, 1, n)
           rest == SubSeq(q, n + 1, Len(q))
<1>1. n \in 0..Len(q) /\ n <= SndBuf - Len(tosrv)
  BY CommsAssumption DEF Buffers
<1>2. \/ tosrv' = sent /\ output' = rest
      \/ tosrv' = tosrv /\ output' = q
  BY Zenon DEF mqtt_output_send
<1> HIDE DEF n
<1>3. /\ sent \in Seq(Requests) /\ Len(sent) <= SndBuf
      /\ rest \in Seq(Requests) /\ Len(rest) <= OutCap
  BY <1>1, SplitType DEF Buffers
<1> HIDE DEF sent, rest
<1> QED
  BY <1>2, <1>3 DEF Buffers

-----------------------------------------------------------------------------
Flags ==
    /\ wakes \in BOOLEAN
    /\ received \in BOOLEAN /\ slept \in BOOLEAN /\ answered \in BOOLEAN
    /\ conn \in BOOLEAN /\ data_cb \in BOOLEAN /\ acked \in BOOLEAN

(* Every step keeps the flags Boolean.                                     *)
LEMMA FlagsStep == Flags /\ [Next]_vars => Flags'
<1> SUFFICES ASSUME Flags, [Next]_vars PROVE Flags'
  OBVIOUS
<1>0. wakes' = wakes
  BY DEF Next, vars
<1> USE <1>0 DEF Flags, commVars, tcpVars, clientVars, tpVars
<1>1. CASE CommTask
  <2>1. CASE Wake
    BY <2>1, Zenon DEF Wake, GoTo
  <2>2. CASE Connect
    BY <2>2, Zenon DEF Connect, ConnectOk, ConnectFails, ConnectIsConn, AfterFailure, GoTo
  <2>3. CASE Check
    BY <2>3, Zenon DEF Check, Restart, GoTo
  <2>4. CASE Subscribe
    BY <2>4, Zenon DEF Subscribe, mqtt_set_inpub_callback, GoTo
  <2>5. CASE Loop
    BY <2>5, Zenon DEF Loop, Restart, Publish, GoTo
  <2>6. CASE Heartbeat
    BY <2>6, Zenon DEF Heartbeat, Publish, GoTo
  <2> QED
    BY <1>1, <2>1, <2>2, <2>3, <2>4, <2>5, <2>6 DEF CommTask
<1>2. CASE Network
  <2>1. CASE TcpConnected
    BY <2>1, Zenon DEF TcpConnected
  <2>2. CASE TcpFin
    BY <2>2, Zenon DEF TcpFin, StartClose
  <2>3. CASE TcpErr
    BY <2>3, Zenon DEF TcpErr
  <2>4. CASE TcpRecv
    BY <2>4, Zenon DEF TcpRecv, RecvConnack, RecvRefused, RecvSuback, RecvPublish, StartClose
  <2>5. CASE TcpSent
    BY <2>5, Zenon DEF TcpSent
  <2>6. CASE TcpPoll
    BY <2>6, Zenon DEF TcpPoll
  <2>7. CASE CyclicTimer
    BY <2>7, Zenon DEF CyclicTimer, ConnectTimeout, TimerRuns, StartClose
  <2> QED
    BY <1>2, <2>1, <2>2, <2>3, <2>4, <2>5, <2>6, <2>7 DEF Network
<1>3. CASE CallbackStep
  BY <1>3, ZenonT(30)
  DEF CallbackStep, CloseNull, CloseClear, CloseDisconnected, NotifyStatus, NotifyFlag
<1>4. CASE BrokerRecv
  BY <1>4, Zenon DEF BrokerRecv
<1>5. CASE BrokerPublish
  BY <1>5, Zenon DEF BrokerPublish
<1>6. CASE UNCHANGED vars
  BY <1>6, Zenon DEF vars, sysVars
<1> QED
  BY <1>1, <1>2, <1>3, <1>4, <1>5, <1>6 DEF Next, Halted

Control ==
    /\ comm \in Asleep \cup {"connect", "check", "subscribe", "loop", "heartbeat"}
    /\ status \in Statuses /\ reason \in Statuses
    /\ conn_state \in ConnStates
    /\ tp \in {"idle", "closing", "nulled", "cleared", "notify", "flag"}
    /\ tcp \in {"closed", "syn_sent", "established"}
    /\ session \in {"new", "open", "refused", "subscribed"}
    /\ fault \in {"none", "tpcb", "data_cb"}

(* Every step keeps the program counters and the client's states among the *)
(* values the code has for them.                                           *)
LEMMA ControlStep == Control /\ [Next]_vars => Control'
<1> SUFFICES ASSUME Control, [Next]_vars PROVE Control'
  OBVIOUS
<1> USE DEF Control, commVars, tcpVars, clientVars, tpVars, Asleep, Statuses,
            ConnStates
<1>1. CASE CommTask
  <2>1. CASE Wake
    BY <2>1 DEF Wake, GoTo
  <2>2. CASE Connect
    BY <2>2 DEF Connect, ConnectOk, ConnectFails, ConnectIsConn, AfterFailure, GoTo
  <2>3. CASE Check
    BY <2>3 DEF Check, Restart, GoTo
  <2>4. CASE Subscribe
    BY <2>4 DEF Subscribe, mqtt_subscribe, mqtt_output_send, GoTo
  <2>5. CASE Loop
    BY <2>5 DEF Loop, Restart, Publish, mqtt_publish, mqtt_output_send, GoTo
  <2>6. CASE Heartbeat
    BY <2>6, Zenon DEF Heartbeat, Publish, mqtt_publish, mqtt_output_send, GoTo
  <2> QED
    BY <1>1, <2>1, <2>2, <2>3, <2>4, <2>5, <2>6 DEF CommTask
<1>2. CASE Network
  <2>1. CASE TcpConnected
    BY <2>1 DEF TcpConnected, mqtt_output_send
  <2>2. CASE TcpFin
    BY <2>2 DEF TcpFin, StartClose
  <2>3. CASE TcpErr
    BY <2>3 DEF TcpErr
  <2>4. CASE TcpRecv
    BY <2>4 DEF TcpRecv, RecvConnack, RecvRefused, RecvSuback, RecvPublish, StartClose
  <2>5. CASE TcpSent
    BY <2>5 DEF TcpSent, mqtt_output_send
  <2>6. CASE TcpPoll
    BY <2>6 DEF TcpPoll, mqtt_output_send
  <2>7. CASE CyclicTimer
    BY <2>7 DEF CyclicTimer, ConnectTimeout, TimerRuns, StartClose
  <2> QED
    BY <1>2, <2>1, <2>2, <2>3, <2>4, <2>5, <2>6, <2>7 DEF Network
<1>3. CASE CallbackStep
  BY <1>3
  DEF CallbackStep, CloseNull, CloseClear, CloseDisconnected, NotifyStatus, NotifyFlag
<1>4. CASE BrokerRecv
  BY <1>4 DEF BrokerRecv
<1>5. CASE BrokerPublish
  BY <1>5 DEF BrokerPublish
<1>6. CASE UNCHANGED vars
  BY <1>6 DEF vars, sysVars
<1> QED
  BY <1>1, <1>2, <1>3, <1>4, <1>5, <1>6 DEF Next, Halted

Counters ==
    /\ pubs \in Nat /\ subs \in Nat /\ pubs + subs <= MaxReq
    /\ timer \in Nat /\ tick \in 0..ConnectTicks
    /\ faults \in 0..MaxFaults

(* Handing output to TCP fails at most once.                               *)
LEMMA SendFaults ==
    ASSUME NEW q, mqtt_output_send(q)
    PROVE  faults' = faults \/ (faults < MaxFaults /\ faults' = faults + 1)
BY Zenon DEF mqtt_output_send, Fail

(* Every step keeps slots, ticks and failures within their bounds; a       *)
(* connecting client counts no tick past its timeout because of TickShape. *)
LEMMA CountersStep == Counters /\ TickShape /\ [Next]_vars => Counters'
<1> SUFFICES ASSUME Counters, TickShape, [Next]_vars PROVE Counters'
  OBVIOUS
<1> USE CommsAssumption
    DEF Counters, commVars, tcpVars, clientVars, tpVars, Fail
<1>1. CASE CommTask
  <2>1. CASE Wake
    BY <2>1 DEF Wake
  <2>2. CASE Connect
    BY <2>2 DEF Connect, ConnectOk, ConnectFails, ConnectIsConn
  <2>3. CASE Check
    BY <2>3 DEF Check
  <2>4. CASE Subscribe
    BY <2>4, SendFaults DEF Subscribe, mqtt_subscribe, CanQueue
  <2>5. CASE Loop
    BY <2>5, SendFaults, SMTT(30) DEF Loop, Publish, mqtt_publish, CanQueue
  <2>6. CASE Heartbeat
    BY <2>6, SendFaults DEF Heartbeat, Publish, mqtt_publish, CanQueue
  <2> QED
    BY <1>1, <2>1, <2>2, <2>3, <2>4, <2>5, <2>6 DEF CommTask
<1>2. CASE Network
  <2>1. CASE TcpConnected
    <3>1. faults' = faults \/ (faults < MaxFaults /\ faults' = faults + 1)
      BY <2>1, SendFaults, Zenon DEF TcpConnected
    <3>2. /\ pubs' = pubs /\ subs' = subs /\ timer' = timer + 1 /\ tick' = 0
      BY <2>1, Zenon DEF TcpConnected
    <3> QED
      BY <3>1, <3>2
  <2>2. CASE TcpFin
    BY <2>2 DEF TcpFin, StartClose
  <2>3. CASE TcpErr
    BY <2>3 DEF TcpErr
  <2>4. CASE TcpRecv
    BY <2>4 DEF TcpRecv, RecvConnack, RecvRefused, RecvSuback, RecvPublish, StartClose
  <2>5. CASE TcpSent
    BY <2>5, SendFaults DEF TcpSent
  <2>6. CASE TcpPoll
    BY <2>6, SendFaults DEF TcpPoll
  <2>7. CASE CyclicTimer
    BY <2>7, SMTT(30) DEF CyclicTimer, ConnectTimeout, TimerRuns, StartClose, TickShape, Closing, Tcpip
  <2> QED
    BY <1>2, <2>1, <2>2, <2>3, <2>4, <2>5, <2>6, <2>7 DEF Network
<1>3. CASE CallbackStep
  BY <1>3
  DEF CallbackStep, CloseNull, CloseClear, sys_untimeout, CloseDisconnected,
      NotifyStatus, NotifyFlag
<1>4. CASE BrokerRecv
  BY <1>4 DEF BrokerRecv
<1>5. CASE BrokerPublish
  BY <1>5 DEF BrokerPublish
<1>6. CASE UNCHANGED vars
  BY <1>6 DEF vars, sysVars
<1> QED
  BY <1>1, <1>2, <1>3, <1>4, <1>5, <1>6 DEF Next, Halted

(* Queueing one more message, if it fits, and handing the queue to TCP.    *)
LEMMA QueueType ==
    ASSUME Buffers, NEW m \in Requests, CanQueue,
           mqtt_output_send(Append(output, m))
    PROVE  /\ output' \in Seq(Requests) /\ Len(output') <= OutCap
           /\ tosrv' \in Seq(Requests) /\ Len(tosrv') <= SndBuf
<1>1. /\ Append(output, m) \in Seq(Requests)
      /\ Len(Append(output, m)) <= OutCap
  BY CommsAssumption DEF Buffers, CanQueue
<1> QED
  BY <1>1, OutputSendType, Zenon

(* Emptied buffers, and one message consumed at the head of one.           *)
LEMMA EmptyBuffers ==
    /\ <<>> \in Seq(Requests) /\ Len(<<>>) <= OutCap /\ Len(<<>>) <= SndBuf
    /\ <<>> \in Seq(Replies) /\ Len(<<>>) <= InCap
BY CommsAssumption

(* Taking the first message of a buffer keeps its type and its bound.      *)
LEMMA TailType ==
    ASSUME NEW S, NEW q \in Seq(S), q # <<>>, NEW N \in Nat, Len(q) <= N
    PROVE  Tail(q) \in Seq(S) /\ Len(Tail(q)) <= N
OBVIOUS

(* Every step keeps the ring buffer, TCP's buffer and what is under way    *)
(* within their capacities (mqtt.c:182-196, 198-244).                      *)
LEMMA BuffersStep == Buffers /\ [Next]_vars => Buffers'
<1> SUFFICES ASSUME Buffers, [Next]_vars PROVE Buffers'
  OBVIOUS
<1>0. "CONNECT" \in Requests /\ "SUBSCRIBE" \in Requests /\ "PUBLISH" \in Requests
  BY DEF Requests
<1>1. CASE CommTask
  <2>1. CASE Wake
    BY <2>1 DEF Wake, Buffers, tcpVars, clientVars
  <2>2. CASE Connect
    <3>1. <<"CONNECT">> \in Seq(Requests) /\ Len(<<"CONNECT">>) <= OutCap
      BY <1>0, CommsAssumption
    <3>2. CASE ConnectOk
      BY <3>1, <3>2, EmptyBuffers DEF ConnectOk, ConnectMessage, Buffers
    <3>3. CASE ConnectFails
      BY <3>3, EmptyBuffers DEF ConnectFails, Buffers, tcpVars
    <3>4. CASE ConnectIsConn
      BY <3>4 DEF ConnectIsConn, Buffers, tcpVars, clientVars
    <3> QED
      BY <2>2, <3>2, <3>3, <3>4 DEF Connect
  <2>3. CASE Check
    BY <2>3 DEF Check, Buffers, tcpVars, clientVars
  <2>4. CASE Subscribe
    BY <1>0, <2>4, QueueType DEF Subscribe, mqtt_subscribe, Buffers
  <2>5. ASSUME NEW due, NEW next, Publish(due, next) PROVE Buffers'
    BY <1>0, <2>5, QueueType DEF Publish, mqtt_publish, Buffers
  <2>6. CASE Loop
    BY <2>5, <2>6 DEF Loop, Buffers, tcpVars, clientVars
  <2>7. CASE Heartbeat
    BY <2>5, <2>7 DEF Heartbeat
  <2> QED
    BY <1>1, <2>1, <2>2, <2>3, <2>4, <2>6, <2>7 DEF CommTask
<1>2. CASE Network
  <2>1. CASE TcpConnected
    BY <2>1, OutputSendType DEF TcpConnected, Buffers
  <2>2. CASE TcpFin
    BY <2>2, CommsAssumption DEF TcpFin, StartClose, Buffers
  <2>3. CASE TcpErr
    BY <2>3, CommsAssumption DEF TcpErr, Buffers
  <2>4. CASE TcpRecv
    <3>1. Tail(tocli) \in Seq(Replies) /\ Len(Tail(tocli)) <= InCap
      BY <2>4, TailType, CommsAssumption DEF TcpRecv, Buffers
    <3>2. CASE RecvConnack \/ RecvSuback \/ RecvPublish
      BY <3>1, <3>2, Zenon DEF RecvConnack, RecvSuback, RecvPublish, Buffers, clientVars
    <3>3. CASE RecvRefused
      BY <3>3, EmptyBuffers DEF RecvRefused, StartClose, Buffers
    <3> QED
      BY <2>4, <3>2, <3>3 DEF TcpRecv
  <2>5. CASE TcpSent
    BY <2>5, OutputSendType DEF TcpSent, Buffers
  <2>6. CASE TcpPoll
    BY <2>6, OutputSendType DEF TcpPoll, Buffers
  <2>7. CASE CyclicTimer
    <3>1. CASE ConnectTimeout
      BY <3>1, EmptyBuffers DEF ConnectTimeout, StartClose, Buffers
    <3>2. CASE TimerRuns
      BY <3>2, Zenon DEF TimerRuns, Buffers, tcpVars
    <3> QED
      BY <2>7, <3>1, <3>2 DEF CyclicTimer
  <2> QED
    BY <1>2, <2>1, <2>2, <2>3, <2>4, <2>5, <2>6, <2>7 DEF Network
<1>3. CASE CallbackStep
  BY <1>3
  DEF CallbackStep, CloseNull, CloseClear, CloseDisconnected, NotifyStatus,
      NotifyFlag, Buffers, tcpVars, clientVars
<1>4. CASE BrokerRecv
  <2>1. Tail(tosrv) \in Seq(Requests) /\ Len(Tail(tosrv)) <= SndBuf
    BY <1>4, TailType, CommsAssumption DEF BrokerRecv, Buffers
  <2>2. \A m \in Replies : /\ Append(tocli, m) \in Seq(Replies)
                           /\ Len(Append(tocli, m)) <= InCap
    BY <1>4, CommsAssumption DEF BrokerRecv, Buffers
  <2>3. "CONNACK" \in Replies /\ "REFUSE" \in Replies /\ "SUBACK" \in Replies
    BY DEF Replies
  <2>4. tocli' = tocli \/ \E m \in Replies : tocli' = Append(tocli, m)
    BY <1>4, <2>3, Zenon DEF BrokerRecv
  <2>5. tosrv' = Tail(tosrv) /\ output' = output
    BY <1>4 DEF BrokerRecv, clientVars
  <2> QED
    BY <2>1, <2>2, <2>4, <2>5, Zenon DEF Buffers
<1>5. CASE BrokerPublish
  BY <1>5, CommsAssumption DEF BrokerPublish, Buffers, Replies, clientVars
<1>6. CASE UNCHANGED vars
  BY <1>6 DEF vars, sysVars, Buffers, tcpVars, clientVars
<1> QED
  BY <1>1, <1>2, <1>3, <1>4, <1>5, <1>6 DEF Next, Halted

-----------------------------------------------------------------------------
(* The parts together are the type invariant.                              *)
LEMMA TypeParts == TypeOK <=> Flags /\ Control /\ Counters /\ Buffers
BY Zenon DEF TypeOK, Flags, Control, Counters, Buffers

(* Every step, wake-ups inside callbacks included, keeps conn, TCP, timer  *)
(* and tick where the stores already made put them (mqtt.c:505-537).       *)
LEMMA ShapeStep == TypeOK /\ Shape /\ [Next]_vars => Shape'
<1> SUFFICES ASSUME TypeOK, Shape, [Next]_vars PROVE Shape'
  OBVIOUS
<1>0. Flags /\ Control /\ Counters
  BY TypeParts, Zenon
<1> USE <1>0, CommsAssumption
    DEF Shape, ConnShape, TcpShape, TimerShape, TickShape, WaitShape, Closing,
        Online, Flags, Control, Counters, Asleep, ConnStates, commVars, tcpVars,
        clientVars, tpVars
<1>1. CASE CommTask
  <2>1. CASE Wake
    BY <2>1, Zenon DEF Wake, GoTo
  <2>2. CASE Connect
    <3>1. CASE ConnectOk
      BY <2>2, <3>1, Zenon DEF Connect, ConnectOk, GoTo
    <3>2. CASE ConnectFails
      BY <2>2, <3>2, Zenon DEF Connect, ConnectFails, AfterFailure, GoTo
    <3>3. CASE ConnectIsConn
      BY <2>2, <3>3, Zenon DEF Connect, ConnectIsConn, AfterFailure, GoTo
    <3> QED
      BY <2>2, <3>1, <3>2, <3>3, Zenon DEF Connect
  <2>3. CASE Check
    BY <2>3, Zenon DEF Check, Restart, GoTo
  <2>4. CASE Subscribe
    BY <2>4, Zenon DEF Subscribe, GoTo
  <2>5. CASE Loop
    BY <2>5 DEF Loop, Publish, Restart, GoTo
  <2>6. CASE Heartbeat
    BY <2>6, SMTT(30) DEF Heartbeat, Publish, GoTo
  <2> QED
    BY <1>1, <2>1, <2>2, <2>3, <2>4, <2>5, <2>6, Zenon DEF CommTask
<1>2. CASE Network
  <2>1. CASE TcpConnected
    <3>1. /\ tp = "idle" /\ tcp = "syn_sent" /\ tcp' = "established"
          /\ conn_state' = "MQTT_CONNECTING" /\ timer' = timer + 1 /\ tick' = 0
          /\ conn' = conn /\ tp' = tp /\ comm' = comm /\ received' = received
      BY <2>1, Zenon DEF TcpConnected, Tcpip
    <3> QED
      BY <3>1
  <2>2. CASE TcpFin
    BY <2>2, SMTT(30) DEF TcpFin, StartClose, Tcpip
  <2>3. CASE TcpErr
    BY <2>3, SMTT(30) DEF TcpErr, Tcpip
  <2>4. CASE TcpRecv
    <3>1. CASE RecvConnack
      BY <2>4, <3>1, Zenon DEF TcpRecv, RecvConnack, Tcpip
    <3>2. CASE RecvRefused
      BY <2>4, <3>2, SMTT(30) DEF TcpRecv, RecvRefused, StartClose, Tcpip
    <3>3. CASE RecvSuback
      BY <2>4, <3>3, Zenon DEF TcpRecv, RecvSuback, Tcpip
    <3>4. CASE RecvPublish
      BY <2>4, <3>4, Zenon DEF TcpRecv, RecvPublish, Tcpip
    <3> QED
      BY <2>4, <3>1, <3>2, <3>3, <3>4, Zenon DEF TcpRecv
  <2>5. CASE TcpSent
    BY <2>5, Zenon DEF TcpSent, Tcpip
  <2>6. CASE TcpPoll
    BY <2>6, Zenon DEF TcpPoll, Tcpip
  <2>7. CASE CyclicTimer
    <3>1. CASE ConnectTimeout
      BY <2>7, <3>1, SMTT(30) DEF CyclicTimer, ConnectTimeout, StartClose, Tcpip
    <3>2. CASE TimerRuns
      BY <2>7, <3>2, SMTT(30) DEF CyclicTimer, TimerRuns, Tcpip
    <3> QED
      BY <2>7, <3>1, <3>2, Zenon DEF CyclicTimer
  <2> QED
    BY <1>2, <2>1, <2>2, <2>3, <2>4, <2>5, <2>6, <2>7, Zenon DEF Network
<1>3. CASE CallbackStep
  <2>1. CASE CloseNull
    BY <2>1, Zenon DEF CloseNull, Tcpip
  <2>2. CASE CloseClear
    BY <2>2, SMTT(30) DEF CloseClear, sys_untimeout, Tcpip
  <2>3. CASE CloseDisconnected
    BY <2>3, Zenon DEF CloseDisconnected, Tcpip
  <2>4. CASE NotifyStatus
    BY <2>4, Zenon DEF NotifyStatus, Tcpip
  <2>5. CASE NotifyFlag
    BY <2>5, Zenon DEF NotifyFlag, Tcpip
  <2> QED
    BY <1>3, <2>1, <2>2, <2>3, <2>4, <2>5, Zenon DEF CallbackStep
<1>4. CASE BrokerRecv \/ BrokerPublish
  <2>1. UNCHANGED <<tcp, clientVars, tpVars, commVars>>
    BY <1>4, Zenon DEF BrokerRecv, BrokerPublish
  <2> QED
    BY <2>1
<1>5. CASE UNCHANGED vars
  BY <1>5 DEF vars, sysVars
<1> QED
  BY <1>1, <1>2, <1>3, <1>4, <1>5 DEF Next, Halted

(* At the start nothing is connected and the types hold.                   *)
LEMMA ShapeInit == Init => TypeOK /\ Shape
<1> SUFFICES ASSUME Init PROVE TypeOK /\ Shape
  OBVIOUS
<1>1. Flags
  BY CommsAssumption, Zenon DEF Init, Flags
<1>2. Control /\ Counters
  BY CommsAssumption DEF Init, Control, Counters, Asleep, Statuses, ConnStates
<1>3. Buffers
  BY EmptyBuffers DEF Init, Buffers
<1>4. Shape
  BY CommsAssumption
  DEF Init, Shape, ConnShape, TcpShape, TimerShape, TickShape, WaitShape,
      Closing, Online
<1> QED
  BY <1>1, <1>2, <1>3, <1>4, TypeParts

(* Types and Shape hold always, wherever the comm thread wakes up: in      *)
(* particular the request slots and both buffers never overflow.           *)
THEOREM CommsShape == Spec => [](TypeOK /\ Shape)
<1>1. TypeOK /\ Shape /\ [Next]_vars => (TypeOK /\ Shape)'
  <2> SUFFICES ASSUME TypeOK, Shape, [Next]_vars PROVE TypeOK' /\ Shape'
    OBVIOUS
  <2>1. Flags' /\ Control' /\ Counters' /\ Buffers'
    BY TypeParts, FlagsStep, ControlStep, CountersStep, BuffersStep DEF Shape
  <2>2. TypeOK'
    BY <2>1, Zenon DEF TypeOK, Flags, Control, Counters, Buffers
  <2> QED
    BY <2>2, ShapeStep
<1> QED
  BY <1>1, ShapeInit, PTL DEF Spec

(* The client's state keeps its type; mqtt_create_request never hands out  *)
(* more slots than there are and the ring buffer never overflows.          *)
THEOREM CommsTypeCorrect == Spec => []TypeOK
BY CommsShape, PTL

(* mqtt_cyclic_timer runs once in the two MQTT states and not at all in    *)
(* the others, whatever callback the comm thread wakes up in.              *)
THEOREM CommsTimer == Spec => []TimerMatchesState
<1>1. Shape => TimerMatchesState
  BY DEF Shape, TimerShape, Closing, Online, TimerMatchesState
<1> QED
  BY <1>1, CommsShape, PTL

(* _CommTask never waits for an answer that cannot come.                   *)
THEOREM CommsWait == Spec => []WaitHasAttempt
<1>1. Shape => WaitHasAttempt
  BY DEF Shape, WaitShape, WaitHasAttempt
<1> QED
  BY <1>1, CommsShape, PTL

-----------------------------------------------------------------------------
(* Without wake-ups inside callbacks.                                      *)

(* A connected client that is handed output meets no assertion.            *)
LEMMA SendKeeps ==
    ASSUME NEW q, conn, mqtt_output_send(q)
    PROVE  fault' = fault
BY ZenonT(30) DEF mqtt_output_send

(* Without wake-ups inside callbacks every step leaves the status and conn *)
(* settled for the comm thread.                                            *)
LEMMA QuietStep ==
    ASSUME ~wakes, TypeOK, Shape, Quiet, [Next]_vars
    PROVE  Quiet'
<1>0. Flags /\ Control
  BY TypeParts
<1>1. tp \notin {"nulled", "cleared"} /\ conn_state # "TCP_DISCONNECTED" => conn
  BY SMTT(30) DEF Shape, ConnShape
<1> USE <1>0 DEF Quiet, Settled, OutputHasConnection, Closing, Control, Flags,
        Asleep, Statuses, ConnStates, commVars, tcpVars, clientVars, tpVars
<1>2. CASE CommTask
  <2>1. CASE Wake
    BY <2>1, Zenon DEF Wake, GoTo
  <2>2. CASE Connect
    <3>1. CASE ConnectOk
      BY <2>2, <3>1, Zenon DEF Connect, ConnectOk, GoTo
    <3>2. CASE ConnectFails
      BY <2>2, <3>2, Zenon DEF Connect, ConnectFails, AfterFailure, GoTo
    <3>3. CASE ConnectIsConn
      BY <2>2, <3>3, Zenon DEF Connect, ConnectIsConn, AfterFailure, GoTo
    <3> QED
      BY <2>2, <3>1, <3>2, <3>3, Zenon DEF Connect
  <2>3. CASE Check
    BY <2>3 DEF Check, Restart, GoTo
  <2>4. CASE Subscribe
    <3>1. fault' = fault
      BY <1>1, <2>4, SendKeeps, Zenon DEF Subscribe, mqtt_subscribe
    <3> QED
      BY <2>4, <3>1, Zenon DEF Subscribe, GoTo
  <2>5. ASSUME NEW due \in BOOLEAN, NEW next \in {"heartbeat", "loopsleep"},
               comm \in {"loop", "heartbeat"}, Publish(due, next)
        PROVE  Quiet'
    <3>1. fault' = fault
      BY <1>1, <2>5, SendKeeps, Zenon DEF Publish, mqtt_publish
    <3> QED
      BY <2>5, <3>1, Zenon DEF Publish, GoTo
  <2>6. CASE Loop
    <3>1. CASE status = "ACCEPTED"
      BY <2>5, <2>6, <3>1, Zenon DEF Loop
    <3>2. CASE status # "ACCEPTED"
      BY <2>6, <3>2 DEF Loop, Restart, GoTo
    <3> QED
      BY <3>1, <3>2
  <2>7. CASE Heartbeat
    BY <2>5, <2>7, ZenonT(30) DEF Heartbeat
  <2> HIDE DEF Quiet
  <2> QED
    BY <1>2, <2>1, <2>2, <2>3, <2>4, <2>6, <2>7, Zenon DEF CommTask
<1>3. CASE Network
  <2>1. CASE TcpConnected
    <3>1. /\ tp = "idle" /\ tcp = "syn_sent" /\ comm \in Asleep
          /\ UNCHANGED <<comm, received, status, tp, reason, answered>>
      BY <2>1, Zenon DEF TcpConnected, Tcpip
    <3>2. conn_state = "TCP_CONNECTING"
      BY <3>1, Zenon DEF Shape, TcpShape
    <3>3. fault' = fault
      BY <1>1, <2>1, <3>1, <3>2, SendKeeps, Zenon DEF TcpConnected
    <3> QED
      BY <3>1, <3>2, <3>3
  <2>2. CASE TcpFin
    BY <2>2, Zenon DEF TcpFin, StartClose, Tcpip, Shape, TcpShape
  <2>3. CASE TcpErr
    BY <2>3, SMTT(30) DEF TcpErr, Tcpip, Shape, TcpShape
  <2>4. CASE TcpRecv
    <3>1. CASE RecvConnack
      BY <2>4, <3>1, Zenon DEF TcpRecv, RecvConnack, Tcpip
    <3>2. CASE RecvRefused
      BY <2>4, <3>2, Zenon DEF TcpRecv, RecvRefused, StartClose, Tcpip
    <3>3. CASE RecvSuback \/ RecvPublish
      BY <2>4, <3>3, SMTT(30) DEF TcpRecv, RecvSuback, RecvPublish, Tcpip
    <3> HIDE DEF Quiet
    <3> QED
      BY <2>4, <3>1, <3>2, <3>3, Zenon DEF TcpRecv
  <2>5. CASE TcpSent
    <3>1. fault' = fault
      BY <1>1, <2>5, SendKeeps, Zenon DEF TcpSent, Tcpip
    <3> QED
      BY <2>5, <3>1, Zenon DEF TcpSent, Tcpip
  <2>6. CASE TcpPoll
    <3>1. fault' = fault
      BY <1>1, <2>6, SendKeeps, Zenon DEF TcpPoll, Tcpip
    <3> QED
      BY <2>6, <3>1, Zenon DEF TcpPoll, Tcpip
  <2>7. CASE CyclicTimer
    <3>1. CASE ConnectTimeout
      BY <2>7, <3>1, Zenon DEF CyclicTimer, ConnectTimeout, StartClose, Tcpip
    <3>2. CASE TimerRuns
      BY <2>7, <3>2, SMTT(30) DEF CyclicTimer, TimerRuns, Tcpip
    <3> QED
      BY <2>7, <3>1, <3>2, Zenon DEF CyclicTimer
  <2> QED
    BY <1>3, <2>1, <2>2, <2>3, <2>4, <2>5, <2>6, <2>7, Zenon DEF Network
<1>4. CASE CallbackStep
  <2>1. CASE CloseNull
    BY <1>4, <2>1, Zenon DEF CallbackStep, CloseNull, Tcpip
  <2>2. CASE CloseClear
    BY <1>4, <2>2, Zenon DEF CallbackStep, CloseClear, Tcpip, Shape, TcpShape
  <2>3. CASE CloseDisconnected
    BY <1>4, <2>3, Zenon DEF CallbackStep, CloseDisconnected, Tcpip
  <2>4. CASE NotifyStatus
    BY <1>4, <2>4, SMTT(30) DEF CallbackStep, NotifyStatus, Tcpip
  <2>5. CASE NotifyFlag
    BY <1>4, <2>5, Zenon DEF CallbackStep, NotifyFlag, Tcpip
  <2> HIDE DEF Quiet
  <2> QED
    BY <1>4, <2>1, <2>2, <2>3, <2>4, <2>5, Zenon DEF CallbackStep
<1>5. CASE BrokerRecv \/ BrokerPublish
  <2>1. UNCHANGED <<tcp, clientVars, tpVars, commVars, fault, answered>>
    BY <1>5, Zenon DEF BrokerRecv, BrokerPublish
  <2> QED
    BY <2>1
<1>6. CASE UNCHANGED vars
  BY <1>6 DEF vars, sysVars
<1> QED
  BY <1>2, <1>3, <1>4, <1>5, <1>6 DEF Next, Halted

(* Quiet is invariant in the behaviours without such wake-ups.              *)
LEMMA QuietAlways == Spec => [](TypeOK /\ Shape /\ (~wakes => Quiet))
<1>1. Init => Quiet
  BY DEF Init, Quiet, OutputHasConnection, Asleep, Closing
<1>2. TypeOK /\ Shape /\ (~wakes => Quiet) /\ [Next]_vars => (~wakes => Quiet)'
  <2>1. [Next]_vars => wakes' = wakes
    BY DEF Next, vars
  <2> QED
    BY <2>1, QuietStep
<1> QED
  BY <1>1, <1>2, CommsShape, PTL DEF Spec

(* Without wake-ups inside callbacks the assertion of mqtt_output_send     *)
(* never fires, for any buffer sizes and any number of failures.           *)
THEOREM CommsOutputHasConnection == Spec => []QuietOutputHasConnection
<1>1. (~wakes => Quiet) => QuietOutputHasConnection
  BY DEF Quiet, QuietOutputHasConnection
<1> QED
  BY <1>1, QuietAlways, PTL

(* Without wake-ups inside callbacks _CommTask never takes an old answer   *)
(* for the answer to the attempt it just made.                             *)
THEOREM CommsAnswer == Spec => []QuietAnswerIsForThisAttempt
<1>1. (~wakes => Quiet) => QuietAnswerIsForThisAttempt
  BY DEF Quiet, AnswerIsForThisAttempt, QuietAnswerIsForThisAttempt
<1> QED
  BY <1>1, QuietAlways, PTL
-----------------------------------------------------------------------------
(* Before data_cb is set nothing is under way that could lead to a PUBLISH *)
(* from the broker: no SUBSCRIBE is queued, sent or received.              *)

NoSubscribe == Requests \ {"SUBSCRIBE"}
NoPublish == Replies \ {"PUBLISH"}

Unsubscribed ==
    /\ output \in Seq(NoSubscribe)
    /\ tosrv \in Seq(NoSubscribe)
    /\ tocli \in Seq(NoPublish)
    /\ session # "subscribed"

ClosedIsEmpty ==
    tcp = "closed" => tosrv = <<>> /\ tocli = <<>> /\ session = "new"

DataShape == (~data_cb => Unsubscribed) /\ ClosedIsEmpty /\ DataCallbackSet

(* mqtt_output_send moves messages and makes none; a closed connection     *)
(* takes none.                                                             *)
LEMMA SendMoves ==
    ASSUME Buffers, NEW S, NEW q \in Seq(S), mqtt_output_send(q)
    PROVE  /\ output' \in Seq(S)
           /\ tosrv \in Seq(S) => tosrv' \in Seq(S)
           /\ tcp = "closed" => tosrv' = tosrv
           /\ fault' = fault \/ fault' = "tpcb"
<1> DEFINE room == SndBuf - Len(tosrv)
           n == IF Len(q) < room THEN Len(q) ELSE room
           sent == SubSeq(q, 1, n)
           rest == SubSeq(q, n + 1, Len(q))
<1>1. n \in 0..Len(q)
  BY CommsAssumption DEF Buffers
<1>2. /\ \/ tcp # "closed" /\ tosrv' = tosrv \o sent /\ output' = rest
         \/ tosrv' = tosrv /\ output' = q
      /\ fault' = fault \/ fault' = "tpcb"
  BY Zenon DEF mqtt_output_send
<1> HIDE DEF n
<1>3. sent \in Seq(S) /\ rest \in Seq(S)
  BY <1>1, SubSeqProperties
<1> HIDE DEF sent, rest
<1>4. tosrv \in Seq(S) => tosrv \o sent \in Seq(S)
  BY <1>3, ConcatProperties, Zenon
<1> QED
  BY <1>2, <1>3, <1>4, Zenon

(* Every step keeps data_cb NULL only while nothing subscribed is queued,  *)
(* under way or known to the broker.                                       *)
LEMMA DataStep ==
    ASSUME TypeOK, Shape, DataShape, [Next]_vars
    PROVE  DataShape'
<1>0. Flags /\ Control /\ Buffers
  BY TypeParts, Zenon
<1> USE DEF DataShape, Unsubscribed, ClosedIsEmpty, DataCallbackSet
<1>1. CASE CommTask
  <2>1. CASE Wake \/ Check
    BY <2>1 DEF Wake, Check, tcpVars, clientVars
  <2>2. CASE Connect
    <3>1. CASE ConnectOk
      <4>1. <<"CONNECT">> \in Seq(NoSubscribe)
        BY DEF NoSubscribe, Requests
      <4> QED
        BY <2>2, <3>1, <4>1 DEF Connect, ConnectOk, ConnectMessage
    <3>2. CASE ConnectFails
      <4>1. tcp = "closed"
        BY <3>2 DEF ConnectFails, Shape, TcpShape
      <4> QED
        BY <2>2, <3>2, <4>1 DEF Connect, ConnectFails, tcpVars
    <3>3. CASE ConnectIsConn
      BY <2>2, <3>3 DEF Connect, ConnectIsConn, tcpVars, clientVars
    <3> QED
      BY <2>2, <3>1, <3>2, <3>3, Zenon DEF Connect
  <2>3. CASE Subscribe
    <3>1. "SUBSCRIBE" \in Requests
      BY DEF Requests
    <3>2. Append(output, "SUBSCRIBE") \in Seq(Requests)
      BY <1>0, <3>1 DEF Buffers
    <3>3. /\ tcp = "closed" => tosrv' = tosrv
          /\ fault' = fault \/ fault' = "tpcb"
      BY <1>0, <2>3, <3>2, SendMoves, Zenon DEF Subscribe, mqtt_subscribe
    <3> QED
      BY <2>3, <3>3 DEF Subscribe, mqtt_set_inpub_callback
  <2>4. ASSUME NEW due, NEW next, Publish(due, next) PROVE DataShape'
    <3>1. "PUBLISH" \in NoSubscribe /\ "PUBLISH" \in Requests
      BY DEF NoSubscribe, Requests
    <3>2. /\ Append(output, "PUBLISH") \in Seq(Requests)
          /\ output \in Seq(NoSubscribe)
                 => Append(output, "PUBLISH") \in Seq(NoSubscribe)
      BY <1>0, <3>1 DEF Buffers
    <3>3. /\ tcp = "closed" => tosrv' = tosrv
          /\ fault' = fault \/ fault' = "tpcb"
      BY <1>0, <2>4, <3>2, SendMoves, Zenon DEF Publish, mqtt_publish
    <3>4. ~data_cb => /\ output' \in Seq(NoSubscribe)
                      /\ tosrv' \in Seq(NoSubscribe)
      BY <1>0, <2>4, <3>2, SendMoves, Zenon DEF Publish, mqtt_publish
    <3> QED
      BY <2>4, <3>3, <3>4 DEF Publish
  <2>5. CASE Loop
    BY <2>4, <2>5 DEF Loop, tcpVars, clientVars
  <2>6. CASE Heartbeat
    BY <2>4, <2>6 DEF Heartbeat
  <2> QED
    BY <1>1, <2>1, <2>2, <2>3, <2>5, <2>6, Zenon DEF CommTask
<1>2. ASSUME mqtt_output_send(output), UNCHANGED <<data_cb, tocli, session>>,
             tcp' = "established" \/ tcp' = tcp
      PROVE  DataShape'
  <2>1. /\ tcp = "closed" => tosrv' = tosrv
        /\ fault' = fault \/ fault' = "tpcb"
    BY <1>0, <1>2, SendMoves, Zenon DEF Buffers
  <2>2. ~data_cb => /\ output' \in Seq(NoSubscribe)
                    /\ tosrv' \in Seq(NoSubscribe)
    BY <1>0, <1>2, SendMoves
  <2> QED
    BY <1>2, <2>1, <2>2, Zenon
<1>3. ASSUME NEW why, StartClose(why), TypeOK PROVE DataShape'
  BY <1>3, SMTT(30) DEF StartClose
<1>4. CASE Network
  <2>1. CASE TcpConnected
    BY <1>2, <2>1 DEF TcpConnected
  <2>2. CASE TcpFin
    BY <1>3, <2>2, Zenon DEF TcpFin
  <2>3. CASE TcpErr
    BY <2>3 DEF TcpErr
  <2>4. CASE TcpRecv
    <3>1. \A S : tocli \in Seq(S) => Tail(tocli) \in Seq(S)
      BY <2>4 DEF TcpRecv
    <3>2. tcp # "closed"
      BY <2>4 DEF TcpRecv
    <3>3. ~data_cb => Head(tocli) \in NoPublish
      BY <2>4, SMTT(30) DEF TcpRecv
    <3>4. CASE RecvConnack \/ RecvSuback
      BY <3>1, <3>2, <3>4, Zenon DEF RecvConnack, RecvSuback
    <3>5. CASE RecvPublish
      BY <3>1, <3>2, <3>3, <3>5 DEF RecvPublish, NoPublish, clientVars
    <3>6. CASE RecvRefused
      BY <1>3, <3>6 DEF RecvRefused
    <3> QED
      BY <2>4, <3>4, <3>5, <3>6 DEF TcpRecv
  <2>5. CASE TcpSent
    <3>1. CASE conn_state = "MQTT_CONNECTED"
      BY <1>2, <2>5, <3>1, Zenon DEF TcpSent
    <3>2. CASE conn_state # "MQTT_CONNECTED"
      BY <2>5, <3>2, Zenon DEF TcpSent
    <3> QED
      BY <3>1, <3>2, Zenon
  <2>6. CASE TcpPoll
    BY <1>2, <2>6, Zenon DEF TcpPoll
  <2>7. CASE CyclicTimer
    BY <1>3, <2>7, SMTT(30) DEF CyclicTimer, ConnectTimeout, TimerRuns, tcpVars
  <2> QED
    BY <1>4, <2>1, <2>2, <2>3, <2>4, <2>5, <2>6, <2>7, Zenon DEF Network
<1>5. CASE CallbackStep
  BY <1>5
  DEF CallbackStep, CloseNull, CloseClear, CloseDisconnected, NotifyStatus,
      NotifyFlag, tcpVars, clientVars
<1>6. CASE BrokerRecv
  <2>1. /\ tcp = "established" /\ tcp' = tcp /\ tosrv' = Tail(tosrv)
        /\ UNCHANGED <<output, data_cb, fault>> /\ tosrv # <<>>
    BY <1>6 DEF BrokerRecv, clientVars
  <2>2. CASE ~data_cb
    <3>1. Head(tosrv) \in NoSubscribe /\ Tail(tosrv) \in Seq(NoSubscribe)
      BY <2>1, <2>2
    <3>2. \/ tocli' = tocli /\ session' = session
          \/ tocli' = Append(tocli, "CONNACK") /\ session' = "open"
          \/ tocli' = Append(tocli, "REFUSE") /\ session' = "refused"
      BY <1>6, <3>1 DEF BrokerRecv, NoSubscribe
    <3>3. "CONNACK" \in NoPublish /\ "REFUSE" \in NoPublish
      BY DEF NoPublish, Replies
    <3>4. \A m \in NoPublish : Append(tocli, m) \in Seq(NoPublish)
      BY <2>2
    <3>5. tocli' \in Seq(NoPublish) /\ session' # "subscribed"
      BY <2>2, <3>2, <3>3, <3>4, Zenon
    <3> QED
      BY <2>1, <2>2, <3>1, <3>5
  <2> QED
    BY <2>1, <2>2, Zenon
<1>7. CASE BrokerPublish
  BY <1>7, Zenon DEF BrokerPublish, clientVars
<1>8. CASE UNCHANGED vars
  BY <1>8 DEF vars, sysVars, tcpVars, clientVars
<1> QED
  BY <1>1, <1>4, <1>5, <1>6, <1>7, <1>8 DEF Next, Halted

(* No PUBLISH is ever delivered through an unset data_cb, also when the    *)
(* comm thread wakes up inside callbacks, for any sizes and any failures.  *)
THEOREM CommsDataCallback == Spec => []DataCallbackSet
<1>1. Init => DataShape
  BY DEF Init, DataShape, Unsubscribed, ClosedIsEmpty, DataCallbackSet
<1>2. TypeOK /\ Shape /\ DataShape /\ [Next]_vars => DataShape'
  BY DataStep
<1>3. DataShape => DataCallbackSet
  BY DEF DataShape
<1> QED
  BY <1>1, <1>2, <1>3, CommsShape, PTL DEF Spec
-----------------------------------------------------------------------------
(* What the broker has still to receive on the connection.                 *)
Stream == tosrv \o output

(* CONNECT leads the stream s of a connection the broker has seen nothing  *)
(* of, and is in no other place.                                           *)
Led(s, open, seen) ==
    /\ open /\ ~seen => s # <<>> /\ s[1] = "CONNECT"
    /\ \A i \in DOMAIN s : s[i] = "CONNECT" => i = 1 /\ ~seen

Asks(s) == \E i \in DOMAIN s : s[i] = "SUBSCRIBE"

StreamLed == Led(Stream, tcp # "closed", session # "new")

(* Between mqtt_client_connect and mqtt_subscribe nothing but CONNECT has  *)
(* been queued; after it the SUBSCRIBE is on its way or has arrived.       *)
Fresh ==
    comm \in {"check", "waitsleep", "subscribe"} /\ tcp # "closed"
        => pubs = 0 /\ subs = 0 /\ Len(output) <= 1

Served ==
    comm \in {"loop", "heartbeat", "loopsleep"} /\ tcp # "closed"
        => session = "subscribed" \/ Asks(Stream)

(* An ACCEPTED status is about the connection there is, until the callback *)
(* that ends the connection reports another.                               *)
Accepted ==
    /\ tp \in Closing => reason # "ACCEPTED"
    /\ tp \in {"notify", "flag"} /\ reason = "ACCEPTED"
           => conn_state = "MQTT_CONNECTED"
    /\ tp = "flag" => status = reason
    /\ tp \in {"idle", "flag"} /\ status = "ACCEPTED"
           => conn_state = "MQTT_CONNECTED"

(* mqtt_output_send moves messages along the stream and changes none.      *)
LEMMA SendStream ==
    ASSUME Buffers, NEW q \in Seq(Requests), mqtt_output_send(q)
    PROVE  Stream' = tosrv \o q /\ Len(output') <= Len(q)
<1> DEFINE room == SndBuf - Len(tosrv)
           n == IF Len(q) < room THEN Len(q) ELSE room
           sent == SubSeq(q, 1, n)
           rest == SubSeq(q, n + 1, Len(q))
<1>1. n \in 0..Len(q) /\ tosrv \in Seq(Requests)
  BY CommsAssumption DEF Buffers
<1>2. \/ tosrv' = tosrv \o sent /\ output' = rest
      \/ tosrv' = tosrv /\ output' = q
  BY Zenon DEF mqtt_output_send
<1> HIDE DEF n
<1>3. /\ sent \in Seq(Requests) /\ rest \in Seq(Requests)
      /\ Len(rest) <= Len(q)
  BY <1>1, SubSeqProperties
<1>4. sent \o rest = q
  <2>1. SubSeq(q, 1, n) \o SubSeq(q, n + 1, Len(q)) = SubSeq(q, 1, Len(q))
    <3>1. /\ 1 \in 1..Len(q) + 1 /\ n \in (1 - 1)..Len(q)
          /\ Len(q) \in n..Len(q)
      BY <1>1
    <3> QED
      BY <3>1, ConcatAdjacentSubSeq, Zenon
  <2>2. SubSeq(q, 1, Len(q)) = q
    BY SubSeqFull
  <2> QED
    BY <2>1, <2>2, Zenon
<1> HIDE DEF sent, rest
<1>5. (tosrv \o sent) \o rest = tosrv \o q
  <2>1. (tosrv \o sent) \o rest = tosrv \o (sent \o rest)
    <3>1. \A t, a, b \in Seq(Requests) : (t \o a) \o b = t \o (a \o b)
      BY ConcatAssociative, SMTT(30)
    <3> QED
      BY <1>1, <1>3, <3>1, Zenon
  <2> QED
    BY <1>4, <2>1
<1>6. CASE tosrv' = tosrv \o sent /\ output' = rest
  BY <1>3, <1>5, <1>6, Zenon DEF Stream
<1>7. CASE tosrv' = tosrv /\ output' = q
  BY <1>7 DEF Stream
<1> QED
  BY <1>2, <1>6, <1>7

(* Queueing a message puts it at the end of the stream.                    *)
LEMMA QueueStream ==
    ASSUME Buffers, NEW m \in Requests, mqtt_output_send(Append(output, m))
    PROVE  Stream' = Append(Stream, m)
<1>1. tosrv \in Seq(Requests) /\ output \in Seq(Requests) /\ <<m>> \in Seq(Requests)
  BY DEF Buffers
<1>2. Append(output, m) = output \o <<m>> /\ Append(output, m) \in Seq(Requests)
  BY <1>1, AppendIsConcat, AppendProperties
<1>3. Stream' = tosrv \o Append(output, m)
  BY <1>2, SendStream, Zenon
<1>4. tosrv \o (output \o <<m>>) = (tosrv \o output) \o <<m>>
  BY <1>1, ConcatAssociative
<1>5. Append(Stream, m) = Stream \o <<m>>
  <2>1. Stream \in Seq(Requests)
    BY <1>1, ConcatProperties DEF Stream
  <2> QED
    BY <2>1, AppendIsConcat
<1> QED
  BY <1>2, <1>3, <1>4, <1>5, Zenon DEF Stream

(* What the broker receives leaves the stream at its head.                 *)
LEMMA RecvStream ==
    ASSUME Buffers, tosrv # <<>>
    PROVE  /\ Stream \in Seq(Requests) /\ Stream # <<>>
           /\ Stream[1] = Head(tosrv)
           /\ Tail(tosrv) \o output = Tail(Stream)
<1>1. tosrv \in Seq(Requests) /\ output \in Seq(Requests) /\ Len(tosrv) > 0
  BY DEF Buffers
<1>2. /\ Stream \in Seq(Requests) /\ Len(Stream) = Len(tosrv) + Len(output)
      /\ \A i \in 1..Len(tosrv) + Len(output) :
             Stream[i] = IF i <= Len(tosrv) THEN tosrv[i] ELSE output[i - Len(tosrv)]
  BY <1>1, ConcatProperties DEF Stream
<1>3. Stream # <<>> /\ Stream[1] = Head(tosrv)
  BY <1>1, <1>2
<1> DEFINE t == Tail(tosrv)
           u == Tail(Stream)
<1>4. /\ t \in Seq(Requests) /\ Len(t) = Len(tosrv) - 1
      /\ \A i \in 1..Len(t) : t[i] = tosrv[i + 1]
  BY <1>1, HeadTailProperties
<1>5. /\ u \in Seq(Requests) /\ Len(u) = Len(Stream) - 1
      /\ \A i \in 1..Len(u) : u[i] = Stream[i + 1]
  BY <1>2, <1>3, HeadTailProperties, SMTT(30)
<1> HIDE DEF t, u
<1> DEFINE w == t \o output
<1>6. /\ w \in Seq(Requests) /\ Len(w) = Len(t) + Len(output)
      /\ \A i \in 1..Len(t) + Len(output) :
             w[i] = IF i <= Len(t) THEN t[i] ELSE output[i - Len(t)]
  BY <1>1, <1>4, ConcatProperties, Zenon
<1> HIDE DEF w
<1>7. Len(w) = Len(u)
  <2>1. Len(tosrv) \in Nat /\ Len(output) \in Nat
    BY <1>1
  <2>2. /\ Len(u) = Len(Stream) - 1 /\ Len(Stream) = Len(tosrv) + Len(output)
        /\ Len(w) = Len(t) + Len(output) /\ Len(t) = Len(tosrv) - 1
    BY <1>2, <1>4, <1>5, <1>6, Zenon
  <2> QED BY ONLY <2>1, <2>2, SMTT(30)
<1>8. \A i \in 1..Len(w) : w[i] = u[i]
  <2> SUFFICES ASSUME NEW i \in 1..Len(w) PROVE w[i] = u[i]
    BY Zenon
  <2>1. u[i] = Stream[i + 1] /\ i + 1 \in 1..Len(tosrv) + Len(output)
    BY <1>1, <1>2, <1>5, <1>7, SMTT(30)
  <2>2. CASE i <= Len(t)
    <3>1. /\ i \in 1..Len(t) /\ i \in 1..Len(t) + Len(output)
          /\ i + 1 <= Len(tosrv)
      BY <1>1, <1>4, <2>2, SMTT(30)
    <3>2. w[i] = t[i] /\ t[i] = tosrv[i + 1]
      BY <1>4, <1>6, <2>2, <3>1, Zenon
    <3>3. Stream[i + 1] = tosrv[i + 1]
      BY <1>2, <2>1, <3>1, Zenon
    <3> QED BY <2>1, <3>2, <3>3, Zenon
  <2>3. CASE i > Len(t)
    <3>1. w[i] = output[i - Len(t)]
      BY <1>1, <1>4, <1>6, <2>3
    <3>2. Stream[i + 1] = output[i + 1 - Len(tosrv)]
      BY <1>1, <1>2, <1>4, <2>1, <2>3
    <3>3. i - Len(t) = i + 1 - Len(tosrv)
      BY <1>1, <1>4, SMTT(30)
    <3> QED
      BY <2>1, <3>1, <3>2, <3>3, Zenon
  <2> QED
    BY <1>1, <1>4, <2>2, <2>3
<1>9. w = u
  BY <1>5, <1>6, <1>7, <1>8, SeqEqual
<1> QED
  BY <1>2, <1>3, <1>9, Zenon DEF w, t, u

(* How the stream changes keep CONNECT at its head and nowhere else.       *)
LEMMA LedAppend ==
    ASSUME NEW s \in Seq(Requests), NEW m \in Requests \ {"CONNECT"},
           NEW open, NEW seen, Led(s, open, seen)
    PROVE  Led(Append(s, m), open, seen)
<1>1. /\ Append(s, m) \in Seq(Requests) /\ Append(s, m) # <<>>
      /\ Len(Append(s, m)) = Len(s) + 1
      /\ \A i \in 1..Len(s) : Append(s, m)[i] = s[i]
      /\ Append(s, m)[Len(s) + 1] = m
  BY AppendProperties
<1>2. DOMAIN s = 1..Len(s) /\ DOMAIN Append(s, m) = 1..(Len(s) + 1) /\ Len(s) \in Nat
  BY <1>1, LenProperties
<1>3. s # <<>> => 1 \in 1..Len(s)
  BY EmptySeq
<1>4. \A i \in 1..(Len(s) + 1) : i \in 1..Len(s) \/ i = Len(s) + 1
  BY <1>2
<1> QED
  BY <1>1, <1>2, <1>3, <1>4, Zenon DEF Led

(* When the broker takes the first message of a stream led by CONNECT, it  *)
(* is the CONNECT or the broker has seen it before.                        *)
LEMMA LedTail ==
    ASSUME NEW s \in Seq(Requests), s # <<>>, NEW seen, Led(s, TRUE, seen)
    PROVE  /\ s[1] # "CONNECT" => seen
           /\ Led(Tail(s), TRUE, TRUE)
<1>1. /\ Tail(s) \in Seq(Requests) /\ Len(Tail(s)) = Len(s) - 1
      /\ \A i \in 1..Len(Tail(s)) : Tail(s)[i] = s[i + 1]
  BY HeadTailProperties
<1>2. DOMAIN s = 1..Len(s) /\ DOMAIN Tail(s) = 1..Len(Tail(s)) /\ Len(s) \in Nat
  BY <1>1, LenProperties
<1>3. \A i \in 1..Len(Tail(s)) : i + 1 \in 1..Len(s) /\ i + 1 # 1
  BY <1>1, <1>2
<1>4. s[1] # "CONNECT" => seen
  BY Zenon DEF Led
<1> QED
  BY <1>1, <1>2, <1>3, <1>4, Zenon DEF Led

(* A connection that ends leaves nothing the broker must see first.        *)
LEMMA LedDrop ==
    ASSUME NEW t \in Seq(Requests), NEW q \in Seq(Requests),
           NEW open, NEW seen, Led(t \o q, open, seen)
    PROVE  Led(q, FALSE, FALSE)
<1>1. /\ t \o q \in Seq(Requests) /\ Len(t \o q) = Len(t) + Len(q)
      /\ \A i \in 1..Len(t) + Len(q) :
             (t \o q)[i] = IF i <= Len(t) THEN t[i] ELSE q[i - Len(t)]
  BY ConcatProperties, Zenon
<1>2. /\ DOMAIN q = 1..Len(q) /\ DOMAIN (t \o q) = 1..Len(t) + Len(q)
      /\ Len(q) \in Nat /\ Len(t) \in Nat
  BY <1>1, LenProperties
<1>3. ASSUME NEW i \in 1..Len(q), q[i] = "CONNECT" PROVE i = 1
  <2>1. /\ i + Len(t) \in 1..Len(t) + Len(q) /\ ~(i + Len(t) <= Len(t))
        /\ (i + Len(t)) - Len(t) = i
    BY <1>2
  <2>2. (t \o q)[i + Len(t)] = "CONNECT"
    BY <1>1, <1>3, <2>1, Zenon
  <2>3. i + Len(t) = 1
    BY <1>2, <2>1, <2>2, Zenon DEF Led
  <2> QED
    BY <1>2, <2>3
<1> QED
  BY <1>2, <1>3, Zenon DEF Led

(* What a step does to the stream: keep it, add to it, start it, drop it   *)
(* with the connection, or deliver its head to the broker.                 *)
Kept ==
    /\ Stream' = Stream
    /\ tcp' = "closed" <=> tcp = "closed"
    /\ session' = session

Queued(m) == Stream' = Append(Stream, m) /\ tcp' = tcp /\ session' = session

Started ==
    /\ Stream' = <<"CONNECT">> /\ tcp' # "closed" /\ session' = "new"
    /\ comm' = "check"

Dropped ==
    /\ tcp' = "closed" /\ session' = "new" /\ tosrv' = <<>>
    /\ output' = output \/ output' = <<>>

Delivered ==
    /\ tosrv # <<>> /\ Stream' = Tail(Stream)
    /\ tcp # "closed" /\ tcp' # "closed"
    /\ \/ Head(tosrv) = "CONNECT" /\ session = "new" /\ session' \in {"open", "refused"}
       \/ Head(tosrv) = "SUBSCRIBE" /\ session' = "subscribed"
       \/ Head(tosrv) = "PUBLISH" /\ session' = session

(* What a step can do to the stream: keep it, add a request at its end,    *)
(* start it with CONNECT, drop it, or hand its first message to the        *)
(* broker.                                                                 *)
LEMMA StreamCases ==
    ASSUME TypeOK, Shape, ClosedIsEmpty, [Next]_vars
    PROVE  Kept \/ Queued("SUBSCRIBE") \/ Queued("PUBLISH") \/ Started
               \/ Dropped \/ Delivered
<1>0. Buffers /\ "SUBSCRIBE" \in Requests /\ "PUBLISH" \in Requests
  BY TypeParts DEF Requests
<1>1. ASSUME UNCHANGED <<tosrv, output, tcp, session>> PROVE Kept
  BY <1>1 DEF Kept, Stream
<1>2. ASSUME mqtt_output_send(output), session' = session,
             tcp' = "closed" <=> tcp = "closed"
      PROVE  Kept
  BY <1>0, <1>2, SendStream, Zenon DEF Kept, Stream, Buffers
<1>3. CASE CommTask
  <2>1. CASE Wake \/ Check
    BY <1>1, <2>1 DEF Wake, Check, tcpVars, clientVars
  <2>2. CASE Connect
    <3>1. CASE ConnectOk
      <4>1. /\ tosrv' = <<>> /\ output' = <<"CONNECT">> /\ tcp' = "syn_sent"
            /\ session' = "new" /\ comm' = "check"
        BY <3>1 DEF ConnectOk, ConnectMessage, GoTo
      <4>2. <<>> \o <<"CONNECT">> = <<"CONNECT">>
        OBVIOUS
      <4> QED
        BY <4>1, <4>2 DEF Started, Stream
    <3>2. CASE ConnectFails
      <4>1. tcp = "closed"
        BY <3>2 DEF ConnectFails, Shape, TcpShape
      <4> QED
        BY <3>2, <4>1 DEF ConnectFails, ClosedIsEmpty, Dropped, tcpVars
    <3>3. CASE ConnectIsConn
      BY <1>1, <3>3 DEF ConnectIsConn, tcpVars, clientVars
    <3> QED
      BY <2>2, <3>1, <3>2, <3>3 DEF Connect
  <2>3. CASE Subscribe
    <3>1. tcp' = tcp /\ session' = session
      BY <2>3, Zenon DEF Subscribe
    <3>2. CASE conn_state # "TCP_DISCONNECTED" /\ CanQueue
      BY <1>0, <2>3, <3>1, <3>2, QueueStream, Zenon DEF Subscribe, mqtt_subscribe, Queued
    <3>3. CASE ~(conn_state # "TCP_DISCONNECTED" /\ CanQueue)
      BY <1>1, <2>3, <3>1, <3>3 DEF Subscribe, mqtt_subscribe
    <3> QED
      BY <3>2, <3>3
  <2>4. ASSUME NEW due, NEW next, Publish(due, next)
        PROVE  Kept \/ Queued("PUBLISH")
    <3>1. tcp' = tcp /\ session' = session
      BY <2>4, Zenon DEF Publish
    <3>2. CASE due /\ conn_state # "TCP_DISCONNECTED" /\ CanQueue
      BY <1>0, <2>4, <3>1, <3>2, QueueStream, Zenon DEF Publish, mqtt_publish, Queued
    <3>3. CASE ~(due /\ conn_state # "TCP_DISCONNECTED" /\ CanQueue)
      BY <1>1, <2>4, <3>1, <3>3, Zenon DEF Publish, mqtt_publish
    <3> QED
      BY <3>2, <3>3
  <2>5. CASE Loop \/ Heartbeat
    BY <1>1, <2>4, <2>5 DEF Loop, Heartbeat, tcpVars, clientVars
  <2> QED
    BY <1>3, <2>1, <2>2, <2>3, <2>5, Zenon DEF CommTask
<1>4. ASSUME NEW why, StartClose(why) PROVE Dropped
  BY <1>4 DEF StartClose, Dropped
<1>5. CASE Network
  <2>1. CASE TcpConnected
    BY <1>2, <2>1 DEF TcpConnected
  <2>2. CASE TcpFin
    BY <1>4, <2>2, Zenon DEF TcpFin
  <2>3. CASE TcpErr
    BY <2>3, Zenon DEF TcpErr, Dropped
  <2>4. CASE TcpRecv
    BY <1>1, <1>4, <2>4, Zenon
    DEF TcpRecv, RecvConnack, RecvRefused, RecvSuback, RecvPublish, clientVars
  <2>5. CASE TcpSent
    BY <1>1, <1>2, <2>5, Zenon DEF TcpSent
  <2>6. CASE TcpPoll
    BY <1>2, <2>6, Zenon DEF TcpPoll
  <2>7. CASE CyclicTimer
    BY <1>1, <1>4, <2>7, Zenon DEF CyclicTimer, ConnectTimeout, TimerRuns, tcpVars
  <2> QED
    BY <1>5, <2>1, <2>2, <2>3, <2>4, <2>5, <2>6, <2>7, Zenon DEF Network
<1>6. CASE CallbackStep
  BY <1>1, <1>6, Zenon
  DEF CallbackStep, CloseNull, CloseClear, CloseDisconnected, NotifyStatus,
      NotifyFlag, tcpVars, clientVars
<1>7. CASE BrokerRecv
  <2>1. /\ tosrv # <<>> /\ tosrv' = Tail(tosrv) /\ output' = output
        /\ tcp # "closed" /\ tcp' # "closed"
    BY <1>7 DEF BrokerRecv, clientVars
  <2>2. Stream' = Tail(Stream)
    BY <1>0, <2>1, RecvStream, Zenon DEF Stream
  <2> QED
    BY <1>7, <2>1, <2>2, Zenon DEF BrokerRecv, Delivered
<1>8. CASE BrokerPublish
  BY <1>1, <1>8, Zenon DEF BrokerPublish, clientVars
<1>9. CASE UNCHANGED vars
  BY <1>1, <1>9 DEF vars, sysVars, tcpVars, clientVars
<1> QED
  BY <1>3, <1>5, <1>6, <1>7, <1>8, <1>9 DEF Next, Halted

(* Every step keeps CONNECT at the head of the stream and nowhere else.    *)
LEMMA StreamLedKept ==
    ASSUME TypeOK, Shape, ClosedIsEmpty, StreamLed, [Next]_vars
    PROVE  StreamLed'
<1>0. Buffers /\ Stream \in Seq(Requests)
  <2>1. Buffers
    BY TypeParts
  <2> QED
    BY <2>1, ConcatProperties DEF Buffers, Stream
<1>1. CASE Kept
  BY <1>1, Zenon DEF Kept, StreamLed, Led
<1>2. ASSUME NEW m \in Requests \ {"CONNECT"}, Queued(m) PROVE StreamLed'
  <2>1. Led(Append(Stream, m), tcp # "closed", session # "new")
    BY <1>0, LedAppend DEF StreamLed
  <2> QED
    BY <1>2, <2>1 DEF Queued, StreamLed
<1>3. CASE Started
  <2>1. Led(<<"CONNECT">>, TRUE, FALSE)
    BY DEF Led
  <2>2. Stream' = <<"CONNECT">> /\ (tcp # "closed")' = TRUE /\ (session # "new")' = FALSE
    BY <1>3 DEF Started
  <2> QED
    BY <2>1, <2>2, Zenon DEF StreamLed
<1>4. CASE Dropped
  <2>1. Led(output, FALSE, FALSE) /\ Led(<<>>, FALSE, FALSE)
    <3>1. Led(output, FALSE, FALSE)
      BY <1>0, LedDrop, Zenon DEF StreamLed, Stream, Buffers
    <3> QED
      BY <3>1 DEF Led
  <2>2. Stream' = output \/ Stream' = <<>>
    <3>1. output \in Seq(Requests) /\ <<>> \in Seq(Requests)
      BY <1>0 DEF Buffers
    <3>2. <<>> \o output = output /\ <<>> \o <<>> = <<>>
      BY <3>1, ConcatEmptySeq
    <3> QED
      BY <1>4, <3>2 DEF Dropped, Stream
  <2>3. (tcp # "closed")' = FALSE /\ (session # "new")' = FALSE
    BY <1>4 DEF Dropped
  <2> QED
    BY <2>1, <2>2, <2>3, Zenon DEF StreamLed
<1>5. CASE Delivered
  <2>1. /\ Stream # <<>> /\ Stream[1] = Head(tosrv)
        /\ Stream' = Tail(Stream) /\ (tcp # "closed") = TRUE /\ (tcp # "closed")' = TRUE
    BY <1>0, <1>5, RecvStream DEF Delivered
  <2>2. Led(Stream, TRUE, session # "new")
    BY <2>1, Zenon DEF StreamLed
  <2>3. /\ Stream[1] # "CONNECT" => session # "new"
        /\ Led(Tail(Stream), TRUE, TRUE)
    BY <1>0, <2>1, <2>2, LedTail, Zenon
  <2>4. (session # "new")' = TRUE
    BY <1>5, <2>1, <2>3 DEF Delivered
  <2> QED
    BY <2>1, <2>3, <2>4, Zenon DEF StreamLed
<1>6. "SUBSCRIBE" \in Requests \ {"CONNECT"} /\ "PUBLISH" \in Requests \ {"CONNECT"}
  BY DEF Requests
<1> QED
  BY <1>1, <1>2, <1>3, <1>4, <1>5, <1>6, StreamCases, Zenon

(* The stream of every connection starts as mqtt_client_connect left it,   *)
(* for any buffer sizes, failures and wake-ups inside callbacks.           *)
LEMMA StreamAlways == Spec => [](TypeOK /\ Shape /\ DataShape /\ StreamLed)
<1>1. Init => DataShape /\ StreamLed
  <2> SUFFICES ASSUME Init PROVE DataShape /\ StreamLed
    OBVIOUS
  <2>1. DataShape
    BY DEF Init, DataShape, Unsubscribed, ClosedIsEmpty, DataCallbackSet
  <2>2. Stream = <<>> /\ tcp = "closed"
    <3>1. <<>> \o <<>> = <<>>
      OBVIOUS
    <3> QED
      BY <3>1 DEF Init, Stream
  <2> QED
    BY <2>1, <2>2 DEF StreamLed, Led
<1>2. TypeOK /\ Shape /\ DataShape /\ [Next]_vars => DataShape'
  BY DataStep
<1>3. TypeOK /\ Shape /\ DataShape /\ StreamLed /\ [Next]_vars => StreamLed'
  BY StreamLedKept DEF DataShape
<1> QED
  BY <1>1, <1>2, <1>3, CommsShape, PTL DEF Spec

(* On every connection CONNECT is the first message out and the only one   *)
(* of its kind, wherever the comm thread wakes up.                         *)
THEOREM CommsConnectFirst == Spec => []ConnectFirst
<1>1. TypeOK /\ StreamLed => ConnectFirst
  <2> SUFFICES ASSUME TypeOK, StreamLed PROVE ConnectFirst
    OBVIOUS
  <2>1. Stream \in Seq(Requests)
    <3>1. Buffers
      BY TypeParts
    <3> QED
      BY <3>1, ConcatProperties DEF Buffers, Stream
  <2>2. Stream # <<>> => Head(Stream) = Stream[1]
    BY <2>1
  <2>3. tcp = "established" /\ session = "new" => Head(Stream) = "CONNECT"
    BY <2>2 DEF StreamLed, Led
  <2>4. \A i \in DOMAIN Stream : Stream[i] = "CONNECT" => i = 1 /\ session = "new"
    BY Zenon DEF StreamLed, Led
  <2> QED
    BY <2>3, <2>4, Zenon DEF ConnectFirst, Stream
<1> QED
  BY <1>1, StreamAlways, PTL

-----------------------------------------------------------------------------
(* The SUBSCRIBE of the connection in use.                                 *)

(* Every step keeps an ACCEPTED status about the connection there is       *)
(* (comms.c:9-15).                                                        *)
LEMMA AcceptedKept ==
    ASSUME TypeOK, Shape, Accepted, [Next]_vars
    PROVE  Accepted'
<1>0. Control
  BY TypeParts, Zenon
<1> USE <1>0 DEF Accepted, Closing, Control, Asleep, Statuses, ConnStates,
        commVars, tcpVars, clientVars, tpVars
<1>1. CASE CommTask
  <2>1. UNCHANGED <<tp, reason, status>> /\ (conn_state' = conn_state \/ ConnectOk)
    BY <1>1, Zenon
    DEF CommTask, Wake, Connect, ConnectFails, ConnectIsConn, Check, Subscribe,
        Loop, Publish, Heartbeat
  <2>2. CASE conn_state' = conn_state
    BY <2>1, <2>2, Zenon
  <2>3. CASE ConnectOk
    BY <2>1, <2>3, Zenon DEF ConnectOk
  <2> QED
    BY <2>1, <2>2, <2>3
<1>2. CASE Network
  <2>1. CASE TcpConnected
    <3>1. /\ tp = "idle" /\ tcp = "syn_sent"
          /\ UNCHANGED <<status, tp, reason>>
      BY <2>1, Zenon DEF TcpConnected, Tcpip
    <3>2. conn_state = "TCP_CONNECTING"
      BY <3>1, Zenon DEF Shape, TcpShape
    <3> QED
      BY <3>1, <3>2
  <2>2. CASE TcpFin
    BY <2>2, Zenon DEF TcpFin, StartClose
  <2>3. CASE TcpErr
    BY <2>3, Zenon DEF TcpErr
  <2>4. CASE TcpRecv
    BY <2>4, Zenon DEF TcpRecv, RecvConnack, RecvRefused, RecvSuback, RecvPublish,
        StartClose, Tcpip
  <2>5. CASE TcpSent
    BY <2>5, Zenon DEF TcpSent
  <2>6. CASE TcpPoll
    BY <2>6, Zenon DEF TcpPoll
  <2>7. CASE CyclicTimer
    BY <2>7, Zenon DEF CyclicTimer, ConnectTimeout, TimerRuns, StartClose
  <2> HIDE DEF Accepted
  <2> QED
    BY <1>2, <2>1, <2>2, <2>3, <2>4, <2>5, <2>6, <2>7, Zenon DEF Network
<1>3. CASE CallbackStep
  <2>1. CASE CloseNull
    BY <2>1, Zenon DEF CloseNull, Tcpip
  <2>2. CASE CloseClear
    BY <2>2, Zenon DEF CloseClear, Tcpip, Shape, TcpShape
  <2>3. CASE CloseDisconnected
    BY <2>3, Zenon DEF CloseDisconnected, Tcpip
  <2>4. CASE NotifyStatus
    BY <2>4, Zenon DEF NotifyStatus, Tcpip
  <2>5. CASE NotifyFlag
    BY <2>5, Zenon DEF NotifyFlag, Tcpip
  <2> HIDE DEF Accepted
  <2> QED
    BY <1>3, <2>1, <2>2, <2>3, <2>4, <2>5, Zenon DEF CallbackStep
<1>4. CASE BrokerRecv \/ BrokerPublish
  <2>1. UNCHANGED <<clientVars, tpVars>>
    BY <1>4, Zenon DEF BrokerRecv, BrokerPublish
  <2> QED
    BY <2>1
<1>5. CASE UNCHANGED vars
  BY <1>5, Zenon DEF vars, sysVars
<1> HIDE DEF Accepted
<1> QED
  BY <1>1, <1>2, <1>3, <1>4, <1>5 DEF Next, Halted

(* Where _CommTask stands relative to mqtt_client_connect and              *)
(* mqtt_subscribe: only Connect enters the part before, only Subscribe the *)
(* part after, and only ConnectOk opens a connection.                      *)
Before == {"check", "waitsleep", "subscribe"}
After == {"loop", "heartbeat", "loopsleep"}

(* The comm thread gets before mqtt_subscribe only by a successful connect *)
(* and behind it only by mqtt_subscribe (comms.c:97-135).                  *)
LEMMA Phases ==
    ASSUME TypeOK, [Next]_vars
    PROVE  /\ comm' \in Before => ConnectOk \/ (comm \in Before /\ ~Subscribe)
           /\ comm' \in After => Subscribe \/ comm \in After
           /\ tcp' # "closed" => ConnectOk \/ tcp # "closed"
<1> USE DEF Before, After, Asleep, commVars, tcpVars, clientVars, tpVars
<1>1. CASE CommTask
  <2>1. CASE Wake
    BY <2>1, SMTT(30) DEF Wake, GoTo, Subscribe, LongSleep
  <2>2. CASE Connect
    BY <2>2, ZenonT(30) DEF Connect, ConnectFails, ConnectIsConn, ConnectOk, AfterFailure, GoTo,
       Subscribe
  <2>3. CASE Check
    BY <2>3, Zenon DEF Check, Restart, GoTo, Subscribe
  <2>4. CASE Subscribe
    BY <2>4, Zenon DEF Subscribe, GoTo
  <2>5. CASE Loop
    BY <2>5, Zenon DEF Loop, Publish, Restart, GoTo, Subscribe
  <2>6. CASE Heartbeat
    BY <2>6, Zenon DEF Heartbeat, Publish, GoTo, Subscribe
  <2> QED
    BY <1>1, <2>1, <2>2, <2>3, <2>4, <2>5, <2>6, Zenon DEF CommTask
<1>2. CASE Network
  <2>1. /\ comm \in Asleep /\ comm' = comm
        /\ tcp' # "closed" => tcp # "closed"
    BY <1>2, Zenon
    DEF Network, TcpConnected, TcpFin, TcpErr, TcpRecv, RecvConnack, RecvRefused,
        RecvSuback, RecvPublish, TcpSent, TcpPoll, CyclicTimer, ConnectTimeout,
        TimerRuns, StartClose, Tcpip
  <2> QED
    BY <2>1, SMTT(30) DEF Subscribe
<1>3. CASE CallbackStep
  <2>1. comm \in Asleep /\ comm' = comm /\ tcp' = tcp
    BY <1>3, Zenon
    DEF CallbackStep, CloseNull, CloseClear, CloseDisconnected, NotifyStatus,
        NotifyFlag, Tcpip
  <2> QED
    BY <2>1, SMTT(30) DEF Subscribe
<1>4. CASE BrokerRecv \/ BrokerPublish \/ UNCHANGED vars
  <2>1. comm' = comm /\ tcp' = tcp
    BY <1>4, Zenon DEF BrokerRecv, BrokerPublish, vars, sysVars
  <2> QED
    BY <2>1 DEF Subscribe, GoTo
<1> QED
  BY <1>1, <1>2, <1>3, <1>4, Zenon DEF Next, Halted

(* Until mqtt_subscribe nothing but CONNECT is queued on a new connection. *)
LEMMA FreshKept ==
    ASSUME TypeOK, Fresh, [Next]_vars
    PROVE  Fresh'
<1> SUFFICES ASSUME comm' \in Before, tcp' # "closed"
             PROVE  pubs' = 0 /\ subs' = 0 /\ Len(output') <= 1
  BY DEF Fresh, Before
<1>0. Buffers /\ Counters
  BY TypeParts, Zenon
<1>1. CASE ConnectOk
  <2>1. Len(<<"CONNECT">>) = 1
    BY Zenon
  <2> QED
    BY <1>1, <2>1 DEF ConnectOk, ConnectMessage
<1>2. CASE ~ConnectOk
  <2>1. comm \in Before /\ ~Subscribe /\ pubs = 0 /\ subs = 0 /\ Len(output) <= 1
    BY <1>2, Phases DEF Fresh, Before
  <2>2. mqtt_output_send(output) => Len(output') <= 1
    <3>1. Len(output) \in Nat /\ output \in Seq(Requests)
      BY <1>0 DEF Buffers
    <3>2. mqtt_output_send(output) =>
              output' \in Seq(Requests) /\ Len(output') <= Len(output)
      BY <1>0, <3>1, SendStream, OutputSendType, SMTT(30) DEF Buffers
    <3> QED
      BY <2>1, <3>1, <3>2
  <2> USE <2>1 DEF clientVars, tcpVars, tpVars
  <2>3. CASE CommTask
    BY <2>3
    DEF CommTask, Wake, Connect, Check, Loop, Heartbeat, Before
  <2>4. CASE Network
    <3>1. CASE TcpConnected \/ TcpPoll
      BY <2>2, <3>1, Zenon DEF TcpConnected, TcpPoll
    <3>2. CASE TcpFin \/ TcpErr
      BY <3>2, Zenon DEF TcpFin, StartClose, TcpErr
    <3>3. CASE TcpRecv
      <4>1. CASE RecvConnack
        BY <3>3, <4>1, Zenon DEF TcpRecv, RecvConnack
      <4>2. CASE RecvRefused
        BY <3>3, <4>2, Zenon DEF TcpRecv, RecvRefused, StartClose
      <4>3. CASE RecvSuback
        BY <3>3, <4>3, SMTT(30) DEF TcpRecv, RecvSuback
      <4>4. CASE RecvPublish
        BY <3>3, <4>4, Zenon DEF TcpRecv, RecvPublish
      <4> QED BY <3>3, <4>1, <4>2, <4>3, <4>4, Zenon DEF TcpRecv
    <3>4. CASE TcpSent
      BY <2>2, <3>4, Zenon DEF TcpSent
    <3>5. CASE CyclicTimer
      BY <1>0, <3>5, SMTT(30) DEF CyclicTimer, ConnectTimeout, TimerRuns, StartClose, Counters
    <3> QED
      BY <2>4, <3>1, <3>2, <3>3, <3>4, <3>5, Zenon DEF Network
  <2>5. CASE CallbackStep
    BY <2>5, Zenon
    DEF CallbackStep, CloseNull, CloseClear, CloseDisconnected, NotifyStatus, NotifyFlag
  <2>6. CASE BrokerRecv \/ BrokerPublish \/ UNCHANGED vars
    <3>1. UNCHANGED <<pubs, subs, output>>
      BY <2>6, Zenon DEF BrokerRecv, BrokerPublish, vars, sysVars
    <3> QED
      BY <3>1
  <2> QED
    BY <2>3, <2>4, <2>5, <2>6, Zenon DEF Next, Halted
<1> QED
  BY <1>1, <1>2

(* A SUBSCRIBE on its way stays until it is the head and is received.      *)
LEMMA AsksKept ==
    ASSUME NEW s \in Seq(Requests), Asks(s)
    PROVE  /\ \A m \in Requests : Asks(Append(s, m))
           /\ s # <<>> /\ s[1] # "SUBSCRIBE" => Asks(Tail(s))
<1>1. PICK i \in 1..Len(s) : s[i] = "SUBSCRIBE"
  BY DEF Asks
<1>2. ASSUME NEW m \in Requests PROVE Asks(Append(s, m))
  <2>1. i \in DOMAIN Append(s, m) /\ Append(s, m)[i] = s[i]
    BY <1>2, AppendProperties
  <2> QED
    BY <1>1, <2>1, Zenon DEF Asks
<1>3. ASSUME s # <<>>, s[1] # "SUBSCRIBE" PROVE Asks(Tail(s))
  <2>1. i - 1 \in DOMAIN Tail(s) /\ Tail(s)[i - 1] = s[i]
    BY <1>1, <1>3, HeadTailProperties
  <2> QED
    BY <1>1, <2>1, Zenon DEF Asks
<1> QED
  BY <1>2, <1>3

(* With room for CONNECT and SUBSCRIBE in the ring buffer the SUBSCRIBE of *)
(* a connection is never lost short of the connection itself.              *)
LEMMA ServedKept ==
    ASSUME OutCap >= 2, TypeOK, Shape, ClosedIsEmpty, Fresh, Served, [Next]_vars
    PROVE  Served'
<1> SUFFICES ASSUME comm' \in After, tcp' # "closed"
             PROVE  (session = "subscribed" \/ Asks(Stream))'
  BY Zenon DEF Served, After
<1>0. /\ Buffers /\ Stream \in Seq(Requests)
      /\ "SUBSCRIBE" \in Requests /\ "PUBLISH" \in Requests
  <2>1. Buffers
    BY TypeParts, Zenon
  <2> QED
    BY <2>1, ConcatProperties DEF Buffers, Stream, Requests
<1>1. ~ConnectOk
  BY DEF ConnectOk, GoTo, After
<1>2. tcp # "closed" /\ (Subscribe \/ comm \in After)
  BY <1>1, Phases, Zenon
<1>3. CASE Subscribe
  <2>1. pubs = 0 /\ subs = 0 /\ Len(output) <= 1
    BY <1>2, <1>3, Zenon DEF Fresh, Subscribe
  <2>2. CanQueue
    BY <1>0, <2>1, CommsAssumption DEF CanQueue, Buffers
  <2>3. conn_state # "TCP_DISCONNECTED"
    BY <1>2, Zenon DEF Shape, TcpShape
  <2>4. mqtt_output_send(Append(output, "SUBSCRIBE"))
    BY <1>3, <2>2, <2>3 DEF Subscribe, mqtt_subscribe
  <2>5. Stream' = Append(Stream, "SUBSCRIBE")
    BY <1>0, <2>4, QueueStream, SMTT(30)
  <2>6. Asks(Append(Stream, "SUBSCRIBE"))
    <3>1. PICK s : s = Stream
      OBVIOUS
    <3>2. s \in Seq(Requests)
      BY <1>0, <3>1
    <3>3. /\ Len(s) + 1 \in DOMAIN Append(s, "SUBSCRIBE")
          /\ Append(s, "SUBSCRIBE")[Len(s) + 1] = "SUBSCRIBE"
      BY ONLY <3>2
    <3> QED
      BY <3>1, <3>3, Zenon DEF Asks
  <2> QED
    BY <2>5, <2>6, Zenon DEF Asks
<1>4. CASE comm \in After
  <2>1. session = "subscribed" \/ Asks(Stream)
    BY <1>2, <1>4 DEF Served, After
  <2>2. CASE Kept
    BY <2>1, <2>2, Zenon DEF Kept, Asks
  <2>3. ASSUME NEW m \in Requests, Queued(m)
        PROVE  (session = "subscribed" \/ Asks(Stream))'
    <3>1. Asks(Stream) => Asks(Append(Stream, m))
      BY <1>0, AsksKept
    <3> QED
      BY <2>1, <2>3, <3>1, Zenon DEF Queued, Asks
  <2>4. ~Started /\ ~Dropped
    BY Zenon DEF Started, Dropped, After
  <2>5. CASE Delivered
    <3>1. Stream # <<>> /\ Stream[1] = Head(tosrv) /\ Stream' = Tail(Stream)
      BY <1>0, <2>5, RecvStream, Zenon DEF Delivered
    <3>2. CASE Head(tosrv) = "SUBSCRIBE"
      BY <2>5, <3>2, Zenon DEF Delivered
    <3>3. CASE Head(tosrv) # "SUBSCRIBE"
      <4>1. Asks(Stream) => Asks(Tail(Stream))
        BY <1>0, <3>1, <3>3, AsksKept, Zenon
      <4>2. session = "subscribed" => session' = "subscribed"
        BY <2>5, <3>3 DEF Delivered
      <4> QED
        BY <2>1, <3>1, <4>1, <4>2, Zenon DEF Asks
    <3> QED
      BY <3>2, <3>3, Zenon
  <2> QED
    BY <1>0, <2>2, <2>3, <2>4, <2>5, StreamCases, Zenon
<1> QED
  BY <1>2, <1>3, <1>4

(* When the ring buffer holds CONNECT and SUBSCRIBE together, a comm       *)
(* thread that publishes on an accepted connection always has its          *)
(* SUBSCRIBE queued, sent or received, wherever it wakes up.               *)
THEOREM CommsOnlineIsServed ==
    ASSUME OutCap >= 2
    PROVE  Spec => []OnlineIsServed
<1>1. Init => Accepted /\ Fresh /\ Served
  BY Zenon DEF Init, Accepted, Closing, Fresh, Served
<1>2. TypeOK /\ Shape /\ DataShape /\ Accepted /\ Fresh /\ Served /\ [Next]_vars
          => Accepted' /\ Fresh' /\ Served'
  BY AcceptedKept, FreshKept, ServedKept, Zenon DEF DataShape
<1>3. TypeOK /\ Shape /\ Accepted /\ Served => OnlineIsServed
  <2> SUFFICES ASSUME Shape, Accepted, Served,
                      comm = "loopsleep", status = "ACCEPTED", tp = "idle"
               PROVE  /\ conn_state = "MQTT_CONNECTED"
                      /\ session = "subscribed" \/ Asks(Stream)
    BY DEF OnlineIsServed, Asks, Stream
  <2>1. conn_state = "MQTT_CONNECTED"
    BY DEF Accepted
  <2>2. tcp # "closed"
    BY <2>1 DEF Shape, TcpShape, Closing
  <2> QED
    BY <2>1, <2>2, Zenon DEF Served
<1> QED
  BY <1>1, <1>2, <1>3, StreamAlways, PTL DEF Spec
=============================================================================
