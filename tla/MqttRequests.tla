---------------------------- MODULE MqttRequests ----------------------------
(***************************************************************************)
(* The MQTT client's request slots (req_list) and the list of pending      *)
(* requests threaded through them (pend_req_queue): create, append, take   *)
(* by packet id, time out, clear.  A slot whose next points at itself is   *)
(* free; timeout_diff is relative to the request before it.                *)
(*                                                                         *)
(* The comm thread creates and appends; the tcpip thread takes and expires.*)
(* The comm thread has the higher priority, so its operations are atomic;  *)
(* when preempt, they can fall between the pointer operations of the       *)
(* tcpip thread, for nothing locks the list.                               *)
(***************************************************************************)
EXTENDS Integers, Sequences

CONSTANTS
    MaxReq,      \* MQTT_REQ_MAX_IN_FLIGHT
    ReqTimeout,  \* MQTT_REQ_TIMEOUT / MQTT_CYCLIC_TIMER_INTERVAL
    PreemptModes,\* the values of preempt to consider, a set of BOOLEANs
    MaxNow,      \* bound: runs of the cyclic timer
    MaxDiff      \* largest value of a timeout_diff (u16_t)

ASSUME RequestsAssumption ==
    /\ MaxReq \in Nat \ {0}
    /\ ReqTimeout \in Nat \ {0}
    /\ PreemptModes \subseteq BOOLEAN /\ PreemptModes # {}
    /\ MaxNow \in Nat
    /\ MaxDiff \in Nat /\ MaxDiff >= 2 * ReqTimeout

VARIABLES
    preempt,       \* may the comm thread interrupt the list operations?
    next,          \* req_list[n].next: 0 is NULL
    pkt_id,        \* req_list[n].pkt_id
    timeout_diff,  \* req_list[n].timeout_diff
    tail,          \* pend_req_queue, which is where the oldest request is
    tp,            \* program counter of the tcpip thread
    iter, prev,    \* its locals in mqtt_take_request and time_elapsed
    loaded,        \* iter->next as loaded for the unchaining store
    t,             \* the time mqtt_request_time_elapsed has left to account for
    again,         \* mqtt_tcp_sent_cb repeats the take, SUBACK does not
    subscribed,    \* this connection's SUBSCRIBE was made
    now,           \* runs of the cyclic timer (history)
    halted         \* the assertion of mqtt_append_request failed

list == <<next, pkt_id, timeout_diff, tail>>
locals == <<iter, prev, loaded, t, again>>
vars == <<preempt, list, locals, tp, subscribed, now, halted>>

Slots == 1..MaxReq
NULL == 0
Ids == {0, 1}        \* QoS 0 publishes, and the SUBSCRIBE

(* The list as the code walks it: cut off after one step per slot.         *)
Walk == LET w[k \in 1..(MaxReq + 1)] ==
                IF k = 1 THEN tail
                ELSE IF w[k - 1] = NULL THEN NULL ELSE next[w[k - 1]]
        IN  w

Queue == LET len == CHOOSE n \in 0..MaxReq :
                       \A k \in Slots : Walk[k] # NULL <=> k <= n
         IN  [k \in 1..len |-> Walk[k]]

(* The sum of timeout_diff up to the k-th request of the list.             *)
Elapsing == LET s[k \in 0..Len(Queue)] ==
                    IF k = 0 THEN 0 ELSE s[k - 1] + timeout_diff[Queue[k]]
            IN  s

Init ==
    /\ preempt \in PreemptModes
    /\ next = [n \in Slots |-> n]              \* mqtt_init_requests
    /\ pkt_id = [n \in Slots |-> 0]
    /\ timeout_diff = [n \in Slots |-> 0]
    /\ tail = NULL
    /\ tp = "idle" /\ iter = NULL /\ prev = NULL /\ loaded = NULL /\ t = 0
    /\ again = FALSE /\ subscribed = FALSE /\ now = 0 /\ halted = FALSE

-----------------------------------------------------------------------------
(* The comm thread: mqtt_publish and mqtt_subscribe.                       *)

Free == {n \in Slots : next[n] = n}

(* mqtt_create_request: the first free slot.                               *)
mqtt_create_request == CHOOSE n \in Free : \A k \in Free : n <= k

time_before == Elapsing[Len(Queue)]

(* Link r behind the last request.                                         *)
LinkLast(r) ==
    IF Queue = <<>>
    THEN tail' = r /\ next' = [next EXCEPT ![r] = NULL]
    ELSE /\ UNCHANGED tail
         /\ next' = [next EXCEPT ![r] = NULL, ![Queue[Len(Queue)]] = r]

(* Mutant of mqtt_append_request: every request gets the full timeout.     *)
mqtt_append_requestM(r) ==
    IF time_before <= ReqTimeout
    THEN /\ timeout_diff' = [timeout_diff EXCEPT ![r] = ReqTimeout]
         /\ LinkLast(r)
         /\ UNCHANGED halted
    ELSE halted' = TRUE /\ UNCHANGED <<next, timeout_diff, tail>>

mqtt_append_request(r) ==
    IF time_before <= ReqTimeout
    THEN /\ timeout_diff' = [timeout_diff EXCEPT ![r] = ReqTimeout - time_before]
         /\ LinkLast(r)
         /\ UNCHANGED halted
    ELSE halted' = TRUE /\ UNCHANGED <<next, timeout_diff, tail>>

Request(id, fits) ==
    /\ ~halted /\ (preempt \/ tp = "idle")
    /\ Free # {}
    /\ id = 0 \/ ~subscribed
    /\ subscribed' = (subscribed \/ id # 0)
    /\ pkt_id' = [pkt_id EXCEPT ![mqtt_create_request] = id]
    /\ IF fits THEN mqtt_append_request(mqtt_create_request)
       ELSE UNCHANGED <<next, timeout_diff, tail, halted>>  \* deleted again
    /\ UNCHANGED <<locals, tp, now>>

(* mqtt_client_connect wipes the client, mqtt_init_requests frees all.     *)
Reconnect ==
    /\ ~halted /\ tp = "idle"
    /\ next' = [n \in Slots |-> n]
    /\ pkt_id' = [n \in Slots |-> 0]
    /\ timeout_diff' = [n \in Slots |-> 0]
    /\ tail' = NULL
    /\ subscribed' = FALSE
    /\ UNCHANGED <<locals, tp, now, halted>>

-----------------------------------------------------------------------------
(* The tcpip thread.                                                       *)

(* mqtt_tcp_sent_cb takes publishes until none is left; a SUBACK or one    *)
(* with an unknown id takes once.                                          *)
StartTake(id) ==
    /\ ~halted /\ tp = "idle"
    /\ again' = (id = 0)
    /\ tp' = "search"
    /\ UNCHANGED <<list, iter, prev, loaded, t, subscribed, now, halted>>

(* The search of mqtt_take_request.  The comm thread can only append, so   *)
(* the search sees the list of one moment.                                 *)
Search ==
    /\ ~halted /\ tp = "search"
    /\ LET id == IF again THEN 0 ELSE 1
           hits == {k \in DOMAIN Queue : pkt_id[Queue[k]] = id}
       IN  IF hits = {} THEN tp' = "idle" /\ UNCHANGED <<iter, prev>>
           ELSE LET k == CHOOSE i \in hits : \A j \in hits : i <= j
                IN  /\ iter' = Queue[k]
                    /\ prev' = IF k = 1 THEN NULL ELSE Queue[k - 1]
                    /\ tp' = "load"
    /\ UNCHANGED <<list, loaded, t, again, subscribed, now, halted>>

Load ==
    /\ ~halted /\ tp = "load"
    /\ loaded' = next[iter]
    /\ tp' = "unchain"
    /\ UNCHANGED <<list, iter, prev, t, again, subscribed, now, halted>>

(* Mutant of Unchain: the head of the list is not treated apart.           *)
UnchainM ==
    /\ ~halted /\ tp = "unchain"
    /\ next' = IF prev = NULL THEN next ELSE [next EXCEPT ![prev] = loaded]
    /\ tp' = "pass"
    /\ UNCHANGED <<pkt_id, timeout_diff, tail, locals, subscribed, now, halted>>

Unchain ==
    /\ ~halted /\ tp = "unchain"
    /\ IF prev = NULL THEN tail' = loaded /\ UNCHANGED next
       ELSE next' = [next EXCEPT ![prev] = loaded] /\ UNCHANGED tail
    /\ tp' = "pass"
    /\ UNCHANGED <<pkt_id, timeout_diff, locals, subscribed, now, halted>>

(* Mutant of PassTimeout: the request's remaining time is dropped.         *)
PassTimeoutM ==
    /\ ~halted /\ tp = "pass"
    /\ next' = [next EXCEPT ![iter] = NULL]
    /\ tp' = "free"
    /\ UNCHANGED <<timeout_diff, pkt_id, tail, locals, subscribed, now, halted>>

(* The next request takes over the remaining time.                         *)
PassTimeout ==
    /\ ~halted /\ tp = "pass"
    /\ timeout_diff' = IF next[iter] = NULL THEN timeout_diff
                       ELSE [timeout_diff EXCEPT ![next[iter]] =
                                 (@ + timeout_diff[iter]) % (MaxDiff + 1)]
    /\ next' = [next EXCEPT ![iter] = NULL]
    /\ tp' = "free"
    /\ UNCHANGED <<pkt_id, tail, locals, subscribed, now, halted>>

(* Mutant of Delete: mqtt_delete_request is forgotten after the callback.  *)
DeleteM ==
    /\ ~halted /\ tp = "free"
    /\ tp' = IF again THEN "search" ELSE "idle"
    /\ UNCHANGED <<list, locals, subscribed, now, halted>>

(* The callback and mqtt_delete_request.                                   *)
Delete ==
    /\ ~halted /\ tp = "free"
    /\ next' = [next EXCEPT ![iter] = iter]
    /\ tp' = IF again THEN "search" ELSE "idle"
    /\ iter' = NULL /\ prev' = NULL /\ loaded' = NULL
    /\ UNCHANGED <<pkt_id, timeout_diff, tail, t, again, subscribed, now, halted>>

(* mqtt_request_time_elapsed with the interval of one cyclic timer.        *)
StartElapsed ==
    /\ ~halted /\ tp = "idle" /\ now < MaxNow
    /\ t' = 1
    /\ now' = now + 1
    /\ tp' = "elapsed"
    /\ UNCHANGED <<list, iter, prev, loaded, again, subscribed, halted>>

(* The loop's condition, the deadline of the oldest request and the load   *)
(* of its successor.                                                       *)
Elapsed ==
    /\ ~halted /\ tp = "elapsed"
    /\ \/ /\ t > 0 /\ tail # NULL /\ t >= timeout_diff[tail]
          /\ iter' = tail /\ loaded' = next[tail]
          /\ t' = t - timeout_diff[tail]
          /\ tp' = "expire"
          /\ UNCHANGED timeout_diff
       \/ /\ t > 0 /\ tail # NULL /\ t < timeout_diff[tail]
          /\ timeout_diff' = [timeout_diff EXCEPT ![tail] = @ - t]
          /\ t' = 0 /\ tp' = "idle"
          /\ UNCHANGED <<iter, loaded>>
       \/ /\ t = 0 \/ tail = NULL
          /\ t' = 0 /\ tp' = "idle"
          /\ UNCHANGED <<timeout_diff, iter, loaded>>
    /\ UNCHANGED <<next, pkt_id, tail, prev, again, subscribed, now, halted>>

(* Unchain, notify, delete.                                                *)
ExpireOldest ==
    /\ ~halted /\ tp = "expire"
    /\ tail' = loaded
    /\ next' = [next EXCEPT ![iter] = iter]
    /\ tp' = "elapsed"
    /\ iter' = NULL /\ loaded' = NULL
    /\ UNCHANGED <<pkt_id, timeout_diff, prev, t, again, subscribed, now, halted>>

(* mqtt_clear_requests, from mqtt_close.  The connection is already NULL   *)
(* there, so a request made in the middle of it stops the system at the    *)
(* assertion of mqtt_output_send (Comms); here it is one step.             *)
mqtt_clear_requests ==
    /\ ~halted /\ tp = "idle"
    /\ next' = [n \in Slots |-> IF \E k \in DOMAIN Queue : Queue[k] = n
                                THEN n ELSE next[n]]
    /\ tail' = NULL
    /\ UNCHANGED <<pkt_id, timeout_diff, locals, tp, subscribed, now, halted>>

Tcpip ==
    \/ \E id \in Ids : StartTake(id)
    \/ Search \/ Load \/ Unchain \/ PassTimeout \/ Delete
    \/ StartElapsed \/ Elapsed \/ ExpireOldest
    \/ mqtt_clear_requests

(* LWIP_ASSERT does not return.                                            *)
Halted == halted /\ UNCHANGED vars

Next ==
    /\ \/ \E id \in Ids, fits \in BOOLEAN : Request(id, fits)
       \/ Reconnect
       \/ Tcpip
       \/ Halted
    /\ UNCHANGED preempt

Spec == Init /\ [][Next]_vars

-----------------------------------------------------------------------------
(* The list is a list: it ends, and no free slot is on it, so no loop of   *)
(* the code runs forever and no request is handed out twice.               *)
ListIsSound ==
    /\ Walk[MaxReq + 1] = NULL
    /\ \A k \in DOMAIN Queue : Queue[k] \notin Free

(* The assertion of mqtt_append_request: the differences along the list    *)
(* add up to no more than MQTT_REQ_TIMEOUT, as long as no request is made  *)
(* inside a list operation.                                                *)
TimeBeforeInBound == ~preempt => ~halted

(* Every slot is free, on the list, or in the hands of the callback that   *)
(* took it: none is lost until the next connection, as long as no request  *)
(* is made inside a list operation.                                        *)
NoSlotLost ==
    ~preempt /\ tp \in {"idle", "search", "elapsed"} =>
        Slots = Free \cup {Queue[k] : k \in DOMAIN Queue}

(* The refinement mapping.  In the middle of a take the time of the        *)
(* unchained request still counts for those behind it; before an expiry it *)
(* is already paid.                                                        *)
Pending ==
    LET before == IF prev = NULL THEN 0
                  ELSE CHOOSE k \in DOMAIN Queue : Queue[k] = prev
        carried(k) == CASE tp = "pass" /\ k > before -> timeout_diff[iter]
                        [] tp = "expire" -> -timeout_diff[iter]
                        [] OTHER -> 0
    IN  [k \in 1..Len(Queue) |->
            [id |-> pkt_id[Queue[k]],
             deadline |-> now - t + Elapsing[k] + carried(k)]]

(* Nothing is claimed of the queue once requests are made inside the list  *)
(* operations.                                                             *)
Abstract == INSTANCE RequestQueue WITH q <- IF preempt THEN <<>> ELSE Pending

(* The pointer list of mqtt_append_request, mqtt_take_request and          *)
(* mqtt_request_time_elapsed implements the queue with absolute deadlines, *)
(* which expire in the order they were made (MqttQueueProofs): looking     *)
(* at the oldest request only is enough.                                   *)
QueueRefined == Abstract!QSpec
=============================================================================
