--------------------------- MODULE CommandChannel ---------------------------
(***************************************************************************)
(* What the receiving side promises the command handler: the payloads the  *)
(* broker publishes are handled whole, in order and at most once; one that *)
(* does not fit the buffer is skipped; a connection that ends loses what   *)
(* was under way.                                                          *)
(***************************************************************************)
EXTENDS Naturals, Sequences

CONSTANTS
    Payloads,   \* what may be published
    Capacity    \* the longest payload handled

VARIABLES inflight, handled

chVars == <<inflight, handled>>

ChInit == inflight = <<>> /\ handled = <<>>

ChPublish ==
    /\ \E p \in Payloads : inflight' = Append(inflight, p)
    /\ UNCHANGED handled

ChDeliver ==
    /\ inflight # <<>>
    /\ inflight' = Tail(inflight)
    /\ handled' = IF Len(Head(inflight)) <= Capacity
                  THEN Append(handled, Head(inflight)) ELSE handled

ChLose ==
    /\ inflight' = <<>>
    /\ UNCHANGED handled

ChSpec == ChInit /\ [][ChPublish \/ ChDeliver \/ ChLose]_chVars
=============================================================================
