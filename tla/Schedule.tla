------------------------------ MODULE Schedule -------------------------------
(***************************************************************************)
(* When the comm thread publishes: the inner loop of _CommTask, which      *)
(* compares the system time with next_outpub, and heartbeat, which         *)
(* compares an elapsed time.  The system time is a 32-bit counter of       *)
(* 100 us ticks and wraps; a turn of the loop takes as long as it takes,   *)
(* up to a bound.                                                          *)
(***************************************************************************)
EXTENDS Integers

CONSTANTS
    W,           \* 2^32, the range of systime_t
    HB,          \* HEARTBEAT_INTERVAL, in milliseconds of 10 ticks
    Delay,       \* what dispatch_telemetry returns, in ticks
    MaxTurn,     \* longest time between two turns of the loop
    MaxPub,      \* longest time between the two clock readings of a turn
    Cap          \* bound: the history variables count up to it

Step == MaxTurn + MaxPub

ASSUME ScheduleAssumption ==
    /\ W \in Nat /\ HB \in Nat \ {0} /\ Delay \in Nat
    /\ MaxTurn \in Nat /\ MaxPub \in Nat /\ Cap \in Nat
    /\ W > Delay + 2 * Step /\ W > 10 * HB + 2 * Step
    /\ Cap > W

VARIABLES
    pc,                     \* "offline", or what the loop does next
    now,                    \* chVTGetSystemTime
    next_outpub, time_last_heartbeat,
    age,                    \* history: ticks since the last heartbeat, or boot
    wait,                   \* history: those of them spent in this loop
    since,                  \* history: ticks since the last telemetry, or
    first                   \*   since the loop began, if none was sent in it

scheduleVars == <<pc, now, next_outpub, time_last_heartbeat, age, wait, since, first>>

ScheduleInit ==
    /\ pc = "offline" /\ now = 0 /\ next_outpub = 0 /\ time_last_heartbeat = 0
    /\ age = 0 /\ wait = 0 /\ since = 0 /\ first = TRUE

(* Sum and difference of system times, modulo W.                           *)
Later(t, d) == IF t + d < W THEN t + d ELSE t + d - W
Diff(t, u) == IF t >= u THEN t - u ELSE t - u + W

Capped(n) == IF n < Cap THEN n ELSE Cap

(* TIME_I2MS rounds up.                                                    *)
TIME_I2MS(n) == (n + 9) \div 10

-----------------------------------------------------------------------------
(* Waiting for a connection, and entering the loop.                        *)

Offline(d) ==
    /\ pc = "offline"
    /\ now' = Later(now, d) /\ age' = Capped(age + d)
    /\ UNCHANGED <<pc, next_outpub, time_last_heartbeat, wait, since, first>>

(* Mutant of Enter: next_outpub is left from the last connection.          *)
EnterM ==
    /\ pc = "offline"
    /\ pc' = "telemetry" /\ wait' = 0 /\ since' = 0 /\ first' = TRUE
    /\ UNCHANGED <<next_outpub, now, time_last_heartbeat, age>>
Enter ==
    /\ pc = "offline"
    /\ next_outpub' = now
    /\ pc' = "telemetry" /\ wait' = 0 /\ since' = 0 /\ first' = TRUE
    /\ UNCHANGED <<now, time_last_heartbeat, age>>

-----------------------------------------------------------------------------
(* One turn of the loop, in two steps: d ticks after the last turn the     *)
(* telemetry, e ticks after that the heartbeat.                            *)

Due(t) == t > next_outpub

(* Mutant of NextOutpub: one tick early.                                   *)
NextOutpubM(t) == Later(t, Delay - 1)
NextOutpub(t) == Later(t, Delay)

Telemetry(d) ==
    LET t == Later(now, d) IN
    /\ pc = "telemetry"
    /\ now' = t
    /\ age' = Capped(age + d) /\ wait' = wait + d
    /\ IF Due(t)
       THEN since' = 0 /\ first' = FALSE /\ next_outpub' = NextOutpub(t)
       ELSE since' = Capped(since + d) /\ UNCHANGED <<first, next_outpub>>
    /\ pc' = "heartbeat"
    /\ UNCHANGED time_last_heartbeat

(* Mutant of HeartbeatDue: absolute times are compared.                    *)
HeartbeatDueM(t) == TIME_I2MS(t) >= TIME_I2MS(time_last_heartbeat) + HB
HeartbeatDue(t) == TIME_I2MS(Diff(t, time_last_heartbeat)) >= HB

heartbeat(e) ==
    LET t == Later(now, e) IN
    /\ pc = "heartbeat"
    /\ now' = t
    /\ IF HeartbeatDue(t)
       THEN time_last_heartbeat' = t /\ age' = 0 /\ wait' = 0
       ELSE /\ age' = Capped(age + e) /\ wait' = wait + e
            /\ UNCHANGED time_last_heartbeat
    /\ since' = Capped(since + e)
    /\ pc' \in {"telemetry", "offline"}      \* connection_status, at the top
    /\ UNCHANGED <<next_outpub, first>>

ScheduleNext ==
    \/ Enter
    \/ \E d \in 0..MaxTurn : Offline(d) \/ Telemetry(d)
    \/ \E e \in 0..MaxPub : heartbeat(e)

ScheduleSpec == ScheduleInit /\ [][ScheduleNext]_scheduleVars

-----------------------------------------------------------------------------
(* Two heartbeats are never closer than the interval (less the rounding of *)
(* TIME_I2MS), and in the loop none is later than the interval and two     *)
(* turns: also across the wrap of the clock, and after an absence of any   *)
(* length, even of whole turns of the clock (comms.c:63-64).               *)
HeartbeatPaced ==
    /\ [](pc # "offline" => wait <= 10 * (HB - 1) + Step + MaxTurn)
    /\ [][pc = "heartbeat" /\ HeartbeatDue(now') =>
             age + Diff(now', now) > 10 * (HB - 1)]_scheduleVars

(* In one connection two telemetry messages are closer than the delay that *)
(* telem_cb asked for only while next_outpub has wrapped and the clock has *)
(* not (comms.c:118, 127).                                                 *)
TelemetryNotEarly ==
    [][pc = "telemetry" /\ Due(now') /\ ~first =>
          \/ since + Diff(now', now) > Delay
          \/ next_outpub < Delay /\ now > next_outpub]_scheduleVars

(* Telemetry is overdue by more than one turn only if next_outpub lies in  *)
(* the last turn before the clock wraps, where no turn may find the clock  *)
(* beyond it (comms.c:118).                                                *)
TelemetryOnTime ==
    pc # "offline" => \/ since <= Delay + Step
                      \/ next_outpub >= W - Step
=============================================================================
