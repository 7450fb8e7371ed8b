---------------------------- MODULE RequestQueue ----------------------------
(***************************************************************************)
(* What the MQTT client's queue of pending requests promises: first come   *)
(* first served, every request taken by its answer or expired ReqTimeout   *)
(* ticks of the cyclic timer after it was made, at most one tick late.     *)
(* MqttRequests, the pointer list with differential timeouts, implements   *)
(* it.                                                                     *)
(***************************************************************************)
EXTENDS Integers, Sequences

CONSTANTS
    MaxReq,      \* MQTT_REQ_MAX_IN_FLIGHT
    ReqTimeout,  \* MQTT_REQ_TIMEOUT in runs of the cyclic timer
    Ids,         \* packet identifiers; 0 is a QoS 0 publish
    MaxNow       \* bound: runs of the cyclic timer

(* What the theorems assume of them.                                       *)
QueueConstants ==
    /\ MaxReq \in Nat
    /\ ReqTimeout \in Nat \ {0}
    /\ MaxNow \in Nat

VARIABLES
    q,    \* pending requests, oldest first: [id, deadline]
    now   \* runs of the cyclic timer

qvars == <<q, now>>

QInit == q = <<>> /\ now = 0

Add(id) ==
    /\ Len(q) < MaxReq
    /\ q' = Append(q, [id |-> id, deadline |-> now + ReqTimeout])
    /\ UNCHANGED now

Without(s, i) == [j \in 1..(Len(s) - 1) |-> IF j < i THEN s[j] ELSE s[j + 1]]

(* The oldest request with this identifier is answered.                    *)
Take(id) ==
    /\ \E i \in DOMAIN q :
           /\ q[i].id = id
           /\ \A j \in 1..(i - 1) : q[j].id # id
           /\ q' = Without(q, i)
    /\ UNCHANGED now

Expire ==
    /\ q # <<>> /\ Head(q).deadline <= now
    /\ q' = Tail(q)
    /\ UNCHANGED now

Tick ==
    /\ now < MaxNow
    /\ \A i \in DOMAIN q : q[i].deadline >= now
    /\ now' = now + 1
    /\ UNCHANGED q

Drop == q' = <<>> /\ UNCHANGED now

QNext == (\E id \in Ids : Add(id) \/ Take(id)) \/ Expire \/ Tick \/ Drop

QSpec == QInit /\ [][QNext]_qvars

-----------------------------------------------------------------------------
QTypeOK ==
    /\ q \in Seq([id : Ids, deadline : Int]) /\ Len(q) <= MaxReq
    /\ now \in Nat

(* Requests expire in the order they were made, none is ever more than one *)
(* tick overdue, and none waits longer than ReqTimeout.                    *)
Ordered ==
    /\ \A i, j \in DOMAIN q : i < j => q[i].deadline <= q[j].deadline
    /\ \A i \in DOMAIN q : q[i].deadline \in (now - 1)..(now + ReqTimeout)
=============================================================================
