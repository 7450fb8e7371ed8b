-------------------------------- MODULE Comms --------------------------------
(***************************************************************************)
(* The communication thread (_CommTask) and the MQTT client it drives.     *)
(*                                                                         *)
(* Two threads share the client: the comm thread (NORMALPRIO + 1) calls    *)
(* the mqtt_* functions, and lwIP's tcpip thread (LOWPRIO + 1) runs the    *)
(* mqtt_tcp_*_cb callbacks and the cyclic timer.  Nothing locks the        *)
(* client.  The comm thread has the higher priority, so the tcpip thread   *)
(* runs only while the comm thread sleeps, and the comm thread can wake up *)
(* between any two instructions of a callback.                             *)
(*                                                                         *)
(* The comm thread's program counter is one of its four sleeps or a point  *)
(* between two client calls; a callback is one step except for mqtt_close  *)
(* and mqtt_cb, whose stores the comm thread can see one by one.           *)
(***************************************************************************)
EXTENDS Integers, Sequences

CONSTANTS
    WakeModes,       \* the values of wakes to consider, a set of BOOLEANs
    OutCap,          \* output ring buffer, in messages (256 bytes)
    SndBuf,          \* TCP send buffer, in messages
    MaxReq,          \* MQTT_REQ_MAX_IN_FLIGHT
    ConnectTicks,    \* MQTT_CONNECT_TIMOUT / MQTT_CYCLIC_TIMER_INTERVAL
    InCap,           \* bound: messages in flight from the broker
    MaxFaults        \* bound: network and memory failures in a behaviour

ASSUME CommsAssumption ==
    /\ WakeModes \subseteq BOOLEAN /\ WakeModes # {}
    /\ OutCap \in Nat \ {0}
    /\ SndBuf \in Nat \ {0}
    /\ MaxReq \in Nat \ {0}
    /\ ConnectTicks \in Nat \ {0}
    /\ InCap \in Nat \ {0}
    /\ MaxFaults \in Nat

VARIABLES
    wakes,       \* may a wake-up of the comm thread fall inside a callback?
    comm,        \* program counter of _CommTask
    received,    \* c->connection_response_received
    status,      \* c->connection_status
    conn_state,  \* client->conn_state
    conn,        \* client->conn # NULL
    data_cb,     \* client->data_cb # NULL
    output,      \* client->output, a sequence of messages
    pubs, subs,  \* request slots in use: QoS 0 publishes, subscribes
    timer,       \* mqtt_cyclic_timer entries in lwIP's timeout list
    tick,        \* client->cyclic_tick
    tp,          \* program counter of the tcpip thread inside a callback
    reason,      \* the status the running callback will report
    slept,       \* a long sleep began inside the running callback
    tcp,         \* the connection's TCP state (external)
    tosrv,       \* messages the broker has not received yet (external)
    acked,       \* data acknowledged, tcp_sent callback due (external)
    tocli,       \* messages from the broker (external)
    session,     \* the broker's view of the connection (external)
    fault,       \* what halted the system, or "none"
    faults,      \* failures so far
    answered     \* has this attempt's mqtt_cb run?  (history)

commVars == <<comm, received, slept>>
tcpVars == <<tcp, tosrv, acked, tocli, session>>
clientVars == <<conn_state, conn, data_cb, output, pubs, subs, timer, tick>>
tpVars == <<tp, reason, status>>
sysVars == <<commVars, tcpVars, clientVars, tpVars, fault, faults, answered>>
vars == <<wakes, sysVars>>

Asleep == {"presleep", "retrysleep", "waitsleep", "loopsleep"}
LongSleep == Asleep \ {"loopsleep"}
Statuses == {"ACCEPTED", "REFUSED", "DISCONNECTED", "TIMEOUT"}
ConnStates ==
    {"TCP_DISCONNECTED", "TCP_CONNECTING", "MQTT_CONNECTING", "MQTT_CONNECTED"}

Init ==
    /\ wakes \in WakeModes
    /\ comm = "presleep" /\ received = FALSE /\ slept = FALSE
    /\ status = "DISCONNECTED"                     \* CommsInit
    /\ conn_state = "TCP_DISCONNECTED" /\ conn = FALSE /\ data_cb = FALSE
    /\ output = <<>> /\ pubs = 0 /\ subs = 0 /\ timer = 0 /\ tick = 0
    /\ tp = "idle" /\ reason = "DISCONNECTED"
    /\ tcp = "closed" /\ tosrv = <<>> /\ tocli = <<>> /\ acked = FALSE
    /\ session = "new"
    /\ fault = "none" /\ faults = 0 /\ answered = FALSE

Fail == faults < MaxFaults /\ faults' = faults + 1

-----------------------------------------------------------------------------
(* mqtt_output_send: hand queue q to TCP as far as its buffer has room.    *)
(* tcp_write takes data from SYN_SENT on, refuses a connection that is     *)
(* closed, and may run out of memory.  A NULL conn stops the system at     *)
(* LWIP_ASSERT.                                                            *)
mqtt_output_send(q) ==
    \/ /\ ~conn
       /\ fault' = "tpcb"
       /\ output' = q
       /\ UNCHANGED <<tosrv, faults>>
    \/ /\ conn /\ tcp = "closed"
       /\ output' = q
       /\ UNCHANGED <<tosrv, faults, fault>>
    \/ /\ conn /\ tcp # "closed"
       /\ LET room == SndBuf - Len(tosrv)
              n == IF Len(q) < room THEN Len(q) ELSE room
          IN  /\ tosrv' = tosrv \o SubSeq(q, 1, n)
              /\ output' = SubSeq(q, n + 1, Len(q))
       /\ UNCHANGED <<faults, fault>>
    \/ /\ conn /\ tcp # "closed" /\ q # <<>>
       /\ Fail
       /\ output' = q
       /\ UNCHANGED <<tosrv, fault>>

(* A slot is free and the message fits the ring buffer.                    *)
CanQueue == pubs + subs < MaxReq /\ Len(output) < OutCap

(* mqtt_publish, QoS 0.                                                    *)
mqtt_publish ==
    IF conn_state # "TCP_DISCONNECTED" /\ CanQueue
    THEN /\ pubs' = pubs + 1
         /\ mqtt_output_send(Append(output, "PUBLISH"))
    ELSE UNCHANGED <<pubs, output, tosrv, fault, faults>>

mqtt_subscribe ==
    IF conn_state # "TCP_DISCONNECTED" /\ CanQueue
    THEN /\ subs' = subs + 1
         /\ mqtt_output_send(Append(output, "SUBSCRIBE"))
    ELSE UNCHANGED <<subs, output, tosrv, fault, faults>>

-----------------------------------------------------------------------------
(* The comm thread.                                                        *)

Running == fault = "none"

GoTo(next) ==
    /\ comm' = next
    /\ slept' = (slept \/ (next \in LongSleep /\ tp # "idle"))

(* Mutant of Restart: the flag is not cleared before the next attempt.     *)
RestartM == UNCHANGED received /\ GoTo("presleep")

(* The top of the do-while.                                                *)
Restart == received' = FALSE /\ GoTo("presleep")

(* A sleep ends.  No callback lasts as long as a long sleep.               *)
Wake ==
    /\ Running
    /\ wakes \/ tp = "idle"
    /\ comm \in LongSleep => ~slept
    /\ \/ comm \in {"presleep", "retrysleep"} /\ GoTo("connect")
       \/ comm = "waitsleep" /\ GoTo("check")
       \/ comm = "loopsleep" /\ GoTo("loop")
    /\ UNCHANGED <<received, tcpVars, clientVars, tpVars, fault, faults,
                   answered>>

(* Mutant of ConnectMessage: output queued earlier is kept.                *)
ConnectMessageM == Append(output, "CONNECT")

(* What mqtt_client_connect leaves in the ring buffer it just wiped.       *)
ConnectMessage == <<"CONNECT">>

(* Mutant of AfterFailure: a failed mqtt_client_connect is not repeated.   *)
AfterFailureM == GoTo("check")

AfterFailure == GoTo("retrysleep")

(* mqtt_client_connect and the while around it.                            *)
ConnectOk ==
    /\ conn_state = "TCP_DISCONNECTED"
    /\ conn_state' = "TCP_CONNECTING" /\ conn' = TRUE /\ data_cb' = FALSE
    /\ output' = ConnectMessage /\ pubs' = 0 /\ subs' = 0 /\ tick' = 0
    /\ tcp' = "syn_sent" /\ tosrv' = <<>> /\ tocli' = <<>>
    /\ acked' = FALSE /\ session' = "new"
    /\ answered' = FALSE
    /\ GoTo("check")
    /\ UNCHANGED <<faults, timer>>

(* Out of pcbs, or tcp_bind or tcp_connect failed: the client is wiped.    *)
ConnectFails ==
    /\ conn_state = "TCP_DISCONNECTED"
    /\ Fail
    /\ conn' = FALSE /\ data_cb' = FALSE
    /\ output' = <<>> /\ pubs' = 0 /\ subs' = 0 /\ tick' = 0
    /\ AfterFailure
    /\ UNCHANGED <<conn_state, timer, tcpVars, answered>>

ConnectIsConn ==
    /\ conn_state # "TCP_DISCONNECTED"
    /\ AfterFailure
    /\ UNCHANGED <<clientVars, tcpVars, faults, answered>>

Connect ==
    /\ Running /\ comm = "connect"
    /\ ConnectOk \/ ConnectFails \/ ConnectIsConn
    /\ UNCHANGED <<received, tpVars, fault>>

(* while(!received) sleep, then the condition of the do-while.             *)
Check ==
    /\ Running /\ comm = "check"
    /\ \/ ~received /\ GoTo("waitsleep") /\ UNCHANGED received
       \/ /\ received /\ status # "ACCEPTED"
          /\ Restart
       \/ received /\ status = "ACCEPTED" /\ GoTo("subscribe")
          /\ UNCHANGED received
    /\ UNCHANGED <<tcpVars, clientVars, tpVars, fault, faults, answered>>

(* Mutant of mqtt_set_inpub_callback: set before the connect that wipes it. *)
mqtt_set_inpub_callbackM == UNCHANGED data_cb

mqtt_set_inpub_callback == data_cb' = TRUE

(* mqtt_set_inpub_callback and mqtt_subscribe, whose result is ignored.    *)
Subscribe ==
    /\ Running /\ comm = "subscribe"
    /\ mqtt_set_inpub_callback
    /\ mqtt_subscribe
    /\ GoTo("loop")
    /\ UNCHANGED <<received, conn_state, conn, pubs, timer, tick, tcp, acked,
                   tocli, session, tpVars, answered>>

Publish(due, next) ==
    /\ IF due THEN mqtt_publish
       ELSE UNCHANGED <<pubs, output, tosrv, fault, faults>>
    /\ GoTo(next)
    /\ UNCHANGED <<received, conn_state, conn, data_cb, subs, timer, tick, tcp,
                   acked, tocli, session, tpVars, answered>>

(* One turn of the publish loop: telemetry, then heartbeat, if due.        *)
Loop ==
    /\ Running /\ comm = "loop"
    /\ \/ /\ status = "ACCEPTED"
          /\ \E due \in BOOLEAN : Publish(due, "heartbeat")
       \/ /\ status # "ACCEPTED"
          /\ Restart
          /\ UNCHANGED <<tcpVars, clientVars, tpVars, fault, faults, answered>>

Heartbeat ==
    /\ Running /\ comm = "heartbeat"
    /\ \E due \in BOOLEAN : Publish(due, "loopsleep")

CommTask == Wake \/ Connect \/ Check \/ Subscribe \/ Loop \/ Heartbeat

-----------------------------------------------------------------------------
(* The tcpip thread: callbacks begin when it is idle.                      *)

Tcpip(at) == Running /\ comm \in Asleep /\ tp = at

(* mqtt_close, first part: detach the callbacks and close the connection.  *)
StartClose(why) ==
    /\ tcp' = "closed" /\ tosrv' = <<>> /\ tocli' = <<>> /\ acked' = FALSE
    /\ session' = "new"
    /\ reason' = why
    /\ tp' = "closing"
    /\ UNCHANGED <<status, commVars, conn_state, conn, data_cb, output, pubs,
                   subs, fault, answered>>

(* mqtt_tcp_connect_cb *)
TcpConnected ==
    /\ Tcpip("idle") /\ tcp = "syn_sent"
    /\ tcp' = "established"
    /\ conn_state' = "MQTT_CONNECTING"
    /\ timer' = timer + 1
    /\ tick' = 0
    /\ mqtt_output_send(output)
    /\ UNCHANGED <<acked, tocli, session, conn, data_cb, pubs, subs, tpVars,
                   commVars, answered>>

(* mqtt_tcp_recv_cb with no data: the broker closed the connection.        *)
TcpFin ==
    /\ Tcpip("idle") /\ tcp = "established"
    /\ Fail
    /\ StartClose("DISCONNECTED")
    /\ UNCHANGED <<timer, tick>>

(* mqtt_tcp_err_cb: reset or timed out, the pcb is already gone.           *)
TcpErr ==
    /\ Tcpip("idle") /\ tcp # "closed"
    /\ Fail
    /\ tcp' = "closed" /\ tosrv' = <<>> /\ tocli' = <<>> /\ acked' = FALSE
    /\ session' = "new"
    /\ conn' = FALSE
    /\ reason' = "DISCONNECTED"
    /\ tp' = "nulled"
    /\ UNCHANGED <<status, commVars, conn_state, data_cb, output, pubs, subs,
                   timer, tick, fault, answered>>

(* mqtt_message_received, one branch per kind of message.                  *)
RecvConnack ==
    /\ Head(tocli) = "CONNACK"
    /\ IF conn_state = "MQTT_CONNECTING"
       THEN /\ conn_state' = "MQTT_CONNECTED" /\ tick' = 0
            /\ reason' = "ACCEPTED" /\ tp' = "notify"
       ELSE UNCHANGED <<conn_state, tick, reason, tp>>
    /\ tocli' = Tail(tocli)
    /\ UNCHANGED <<tcp, tosrv, acked, session, subs, fault, conn, data_cb,
                   output, pubs, timer, status, commVars, answered>>

RecvRefused ==
    /\ Head(tocli) = "REFUSE" /\ conn_state = "MQTT_CONNECTING"
    /\ StartClose("REFUSED")
    /\ UNCHANGED <<timer, tick>>

RecvSuback ==
    /\ Head(tocli) = "SUBACK"
    /\ subs' = IF subs > 0 THEN subs - 1 ELSE 0
    /\ tocli' = Tail(tocli)
    /\ UNCHANGED <<tcp, tosrv, acked, session, conn_state, conn, data_cb,
                   output, pubs, timer, tick, tpVars, commVars, fault, answered>>

(* A PUBLISH ends in a call through data_cb, whatever its value.           *)
RecvPublish ==
    /\ Head(tocli) = "PUBLISH"
    /\ fault' = IF data_cb THEN "none" ELSE "data_cb"
    /\ tocli' = Tail(tocli)
    /\ UNCHANGED <<tcp, tosrv, acked, session, clientVars, tpVars, commVars,
                   answered>>

TcpRecv ==
    /\ Tcpip("idle") /\ tocli # <<>>
    /\ RecvConnack \/ RecvRefused \/ RecvSuback \/ RecvPublish
    /\ UNCHANGED faults

(* mqtt_tcp_sent_cb *)
TcpSent ==
    /\ Tcpip("idle") /\ acked
    /\ acked' = FALSE
    /\ IF conn_state = "MQTT_CONNECTED"
       THEN /\ tick' = 0
            /\ pubs' = 0
            /\ mqtt_output_send(output)
       ELSE UNCHANGED <<tick, pubs, output, tosrv, fault, faults>>
    /\ UNCHANGED <<tcp, tocli, session, conn_state, conn, data_cb, subs, timer,
                   tpVars, commVars, answered>>

(* mqtt_tcp_poll_cb *)
TcpPoll ==
    /\ Tcpip("idle") /\ tcp = "established"
    /\ conn_state = "MQTT_CONNECTED"
    /\ mqtt_output_send(output)
    /\ UNCHANGED <<tcp, acked, tocli, session, conn_state, conn, data_cb, pubs,
                   subs, timer, tick, tpVars, commVars, answered>>

(* mqtt_cyclic_timer; keep_alive is 0.  A CONNECT that was sent and is not *)
(* answered in time is a failure of the network; one that tcp_write        *)
(* refused is never sent again and always times out.                       *)
ConnectTimeout ==
    /\ conn_state = "MQTT_CONNECTING" /\ tick + 1 >= ConnectTicks
    /\ IF output = <<>> THEN Fail ELSE UNCHANGED faults
    /\ tick' = tick + 1
    /\ timer' = timer - 1
    /\ StartClose("TIMEOUT")

(* The timer restarts itself in the two MQTT states and ends in the others. *)
TimerRuns ==
    /\ conn_state = "MQTT_CONNECTING" => tick + 1 < ConnectTicks
    /\ tick' = IF conn_state = "MQTT_CONNECTING" THEN tick + 1 ELSE tick
    /\ IF conn_state = "MQTT_CONNECTED"
       THEN pubs' \in 0..pubs /\ subs' \in 0..subs    \* timed out requests
       ELSE UNCHANGED <<pubs, subs>>
    /\ timer' = IF conn_state \in {"MQTT_CONNECTING", "MQTT_CONNECTED"}
                THEN timer ELSE timer - 1
    /\ UNCHANGED <<tcpVars, conn_state, conn, data_cb, output, tpVars,
                   commVars, fault, faults, answered>>

CyclicTimer ==
    /\ Tcpip("idle") /\ timer > 0
    /\ ConnectTimeout \/ TimerRuns

-----------------------------------------------------------------------------
(* The rest of mqtt_close and mqtt_cb, store by store.                     *)

CloseNull ==
    /\ Tcpip("closing")
    /\ conn' = FALSE
    /\ tp' = "nulled"
    /\ UNCHANGED <<tcpVars, conn_state, data_cb, output, pubs, subs, timer, tick,
                   reason, status, commVars, answered>>

(* Mutant of sys_untimeout: the timer is not stopped.                      *)
sys_untimeoutM == timer

(* sys_untimeout removes one entry of the timeout list, if there is one.   *)
sys_untimeout == IF timer > 0 THEN timer - 1 ELSE 0

(* mqtt_clear_requests and sys_untimeout.                                  *)
CloseClear ==
    /\ Tcpip("nulled")
    /\ pubs' = 0 /\ subs' = 0
    /\ timer' = sys_untimeout
    /\ tp' = IF conn_state = "TCP_DISCONNECTED" THEN "idle" ELSE "cleared"
    /\ slept' = (slept /\ tp' # "idle")
    /\ UNCHANGED <<tcpVars, conn_state, conn, data_cb, output, tick, reason,
                   status, comm, received, answered>>

(* Mutant of CloseDisconnected: the upper layer is not notified.           *)
CloseSilentM ==
    /\ Tcpip("cleared")
    /\ conn_state' = "TCP_DISCONNECTED"
    /\ tp' = "idle" /\ slept' = FALSE
    /\ UNCHANGED <<tcpVars, conn, data_cb, output, pubs, subs, timer, tick,
                   reason, status, comm, received, answered>>

(* Mutant of CloseDisconnected: the connection state is left as it was.    *)
CloseDisconnectedM ==
    /\ Tcpip("cleared")
    /\ tp' = "idle" /\ slept' = FALSE
    /\ UNCHANGED <<tcpVars, clientVars, reason, status, comm, received, answered>>

CloseDisconnected ==
    /\ Tcpip("cleared")
    /\ conn_state' = "TCP_DISCONNECTED"
    /\ tp' = "notify"
    /\ UNCHANGED <<tcpVars, conn, data_cb, output, pubs, subs, timer, tick,
                   reason, status, commVars, answered>>

(* mqtt_cb: the status first ...                                           *)
NotifyStatus ==
    /\ Tcpip("notify")
    /\ status' = reason
    /\ tp' = "flag"
    /\ UNCHANGED <<tcpVars, clientVars, reason, commVars, answered>>

(* ... then the flag.                                                      *)
NotifyFlag ==
    /\ Tcpip("flag")
    /\ received' = TRUE
    /\ answered' = (conn_state # "TCP_CONNECTING")
    /\ slept' = FALSE
    /\ tp' = "idle"
    /\ UNCHANGED <<tcpVars, clientVars, reason, status, comm>>

CallbackStep ==
    /\ \/ CloseNull
       \/ CloseClear
       \/ CloseDisconnected
       \/ NotifyStatus
       \/ NotifyFlag
    /\ UNCHANGED <<fault, faults>>

-----------------------------------------------------------------------------
(* The broker: a conforming MQTT server at the far end (external).         *)

BrokerRecv ==
    /\ Running /\ tcp = "established" /\ tosrv # <<>> /\ Len(tocli) < InCap
    /\ tosrv' = Tail(tosrv)
    /\ acked' = TRUE
    /\ \/ /\ Head(tosrv) = "CONNECT" /\ session = "new"
          /\ \/ /\ tocli' = Append(tocli, "CONNACK") /\ session' = "open"
                /\ UNCHANGED faults
             \/ /\ tocli' = Append(tocli, "REFUSE") /\ session' = "refused"
                /\ Fail
       \/ /\ Head(tosrv) = "SUBSCRIBE"
          /\ tocli' = Append(tocli, "SUBACK") /\ session' = "subscribed"
          /\ UNCHANGED faults
       \/ Head(tosrv) = "PUBLISH" /\ UNCHANGED <<tocli, session, faults>>
    /\ UNCHANGED <<tcp, clientVars, tpVars, commVars, fault, answered>>

BrokerPublish ==
    /\ Running /\ session = "subscribed" /\ Len(tocli) < InCap
    /\ tocli' = Append(tocli, "PUBLISH")
    /\ UNCHANGED <<tcp, tosrv, acked, session, clientVars, tpVars, commVars,
                   fault, faults, answered>>

Network ==
    \/ TcpConnected \/ TcpFin \/ TcpErr \/ TcpRecv \/ TcpSent \/ TcpPoll
    \/ CyclicTimer

(* LWIP_ASSERT and a call through NULL end in a handler that never returns. *)
Halted == ~Running /\ UNCHANGED vars

Next ==
    /\ \/ CommTask
       \/ Network
       \/ CallbackStep
       \/ BrokerRecv
       \/ BrokerPublish
       \/ Halted
    /\ UNCHANGED wakes

Spec == Init /\ [][Next]_vars

(* Threads that are ready run.  The tcpip thread needs strong fairness: it *)
(* runs in every sleep of the comm thread, which wakes up again and again. *)
(* TCP delivers and the broker answers; only failures may never happen.    *)
Fairness ==
    /\ WF_sysVars(CommTask)
    /\ SF_sysVars(CallbackStep)
    /\ SF_sysVars(TcpConnected)
    /\ SF_sysVars(TcpRecv)
    /\ SF_sysVars(TcpSent)
    /\ SF_sysVars(TcpPoll)
    /\ SF_sysVars(CyclicTimer)
    /\ WF_sysVars(BrokerRecv)

FairSpec == Spec /\ Fairness

-----------------------------------------------------------------------------
Requests == {"CONNECT", "SUBSCRIBE", "PUBLISH"}
Replies == {"CONNACK", "REFUSE", "SUBACK", "PUBLISH"}

TypeOK ==
    /\ wakes \in BOOLEAN
    /\ comm \in Asleep \cup {"connect", "check", "subscribe", "loop", "heartbeat"}
    /\ received \in BOOLEAN /\ slept \in BOOLEAN /\ answered \in BOOLEAN
    /\ status \in Statuses /\ reason \in Statuses
    /\ conn_state \in ConnStates
    /\ conn \in BOOLEAN /\ data_cb \in BOOLEAN
    /\ output \in Seq(Requests) /\ Len(output) <= OutCap
    /\ pubs \in Nat /\ subs \in Nat /\ pubs + subs <= MaxReq
    /\ timer \in Nat /\ tick \in 0..ConnectTicks
    /\ tp \in {"idle", "closing", "nulled", "cleared", "notify", "flag"}
    /\ tcp \in {"closed", "syn_sent", "established"}
    /\ tosrv \in Seq(Requests) /\ Len(tosrv) <= SndBuf
    /\ tocli \in Seq(Replies) /\ Len(tocli) <= InCap
    /\ acked \in BOOLEAN
    /\ session \in {"new", "open", "refused", "subscribed"}
    /\ fault \in {"none", "tpcb", "data_cb"}
    /\ faults \in 0..MaxFaults

(* The assertion at the top of mqtt_output_send: conn is never NULL when   *)
(* queued output is handed to TCP.                                         *)
OutputHasConnection == fault # "tpcb"

(* The assertion holds as long as the comm thread wakes up inside no       *)
(* callback: no order of publishes, callbacks, failures and reconnects     *)
(* reaches mqtt_output_send without a connection (mqtt.c:211).             *)
QuietOutputHasConnection == ~wakes => OutputHasConnection

(* data_cb is called without a NULL test, and mqtt_client_connect wipes    *)
(* it: no PUBLISH is delivered before _CommTask has set it again.          *)
DataCallbackSet == fault # "data_cb"

(* _CommTask takes connection_response_received as the answer to the       *)
(* mqtt_client_connect it just made: it is never left over from before.    *)
AnswerIsForThisAttempt == comm = "check" /\ received => answered

(* As long as the comm thread wakes up inside no callback, the flag        *)
(* mqtt_cb sets (comms.c:14) is cleared before every attempt and set only  *)
(* by that attempt's answer.                                               *)
QuietAnswerIsForThisAttempt == ~wakes => AnswerIsForThisAttempt

(* _CommTask waits without a timeout, so the wait must have an answer      *)
(* coming: a connection attempt is under way whenever it waits.            *)
WaitHasAttempt ==
    comm = "waitsleep" /\ ~received /\ tp = "idle"
        => conn_state # "TCP_DISCONNECTED"

(* In the publish loop with an accepted status, no callback running, the   *)
(* client is connected and this connection's SUBSCRIBE, whose result       *)
(* _CommTask ignores, was queued, sent or received.                        *)
OnlineIsServed ==
    comm = "loopsleep" /\ status = "ACCEPTED" /\ tp = "idle"
        => /\ conn_state = "MQTT_CONNECTED"
           /\ \/ session = "subscribed"
              \/ \E i \in DOMAIN (tosrv \o output) :
                     (tosrv \o output)[i] = "SUBSCRIBE"

(* On every connection CONNECT is the first message out and the only one   *)
(* of its kind: what mqtt_client_connect queues before any other call.     *)
ConnectFirst ==
    LET stream == tosrv \o output
    IN  /\ tcp = "established" /\ session = "new" => Head(stream) = "CONNECT"
        /\ \A i \in DOMAIN stream :
               stream[i] = "CONNECT" => i = 1 /\ session = "new"

(* Exactly one mqtt_cyclic_timer runs in MQTT_CONNECTING and               *)
(* MQTT_CONNECTED, and none in the other states, when no callback runs.    *)
TimerMatchesState ==
    tp = "idle" =>
        timer = IF conn_state \in {"MQTT_CONNECTING", "MQTT_CONNECTED"}
                THEN 1 ELSE 0

(* Once the network stops failing, _CommTask ends up connected and         *)
(* subscribed and stays there, whatever failed before; the comm thread     *)
(* waking up inside no callback.                                           *)
Recovers ==
    ~wakes =>
    <>[](/\ comm \in {"loop", "heartbeat", "loopsleep"}
         /\ conn_state = "MQTT_CONNECTED" /\ session = "subscribed")
=============================================================================
