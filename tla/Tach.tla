-------------------------------- MODULE Tach --------------------------------
(***************************************************************************)
(* The tachometer: a rotor drives three hall sensor lines, the firmware    *)
(* reads the lines one after another (HallSensorsGetState), decodes the    *)
(* state to one of six segments and accumulates the signed segment         *)
(* differences (TachUpdate).                                               *)
(*                                                                         *)
(* The rotor is the environment: it moves one segment at a time, also      *)
(* between the reads of two lines, so a reading can be torn.               *)
(***************************************************************************)
EXTENDS Integers

CONSTANTS
    MaxTravel,       \* bound of the model: |rotor| <= MaxTravel
    MaxCount,        \* bound of the model: |counter| <= MaxCount
    StepsPerPeriod   \* most segments the rotor moves in one sampling period

ASSUME TachAssumption ==
    /\ MaxTravel \in Nat
    /\ MaxCount \in Nat
    /\ StepsPerPeriod \in Nat

VARIABLES
    rotor,            \* segments travelled since power-on (environment)
    visited,          \* rotor positions of this sampling period (history)
    pc,               \* next step of the sampler
    state,            \* the bits read so far: set of lines that read high
    current_segment,  \* tach->current_segment
    counter,          \* tach->counter
    base,             \* count that corresponds to rotor = 0 (history)
    noisy             \* a line can read as either level (environment)

vars == <<rotor, visited, pc, state, current_segment, counter, base, noisy>>

Lines == {"a", "b", "c"}

-----------------------------------------------------------------------------
(* Mutant of HALL_SENSOR_STATE: segments 1 and 2 exchanged, so that two    *)
(* lines change at once between some neighbours.                           *)
HALL_SENSOR_STATEM == [segment \in 0..5 |->
    CASE segment = 0 -> {"a"}
      [] segment = 1 -> {"c"}
      [] segment = 2 -> {"a", "c"}
      [] segment = 3 -> {"b", "c"}
      [] segment = 4 -> {"b"}
      [] segment = 5 -> {"a", "b"}]

(* hall_sensors.h: the line levels of each enumerator, as the set of lines *)
(* that are high (bit 0 is a, bit 1 is b, bit 2 is c).                     *)

HALL_SENSOR_STATE == [segment \in 0..5 |->
    CASE segment = 0 -> {"a"}
      [] segment = 1 -> {"a", "c"}
      [] segment = 2 -> {"c"}
      [] segment = 3 -> {"b", "c"}
      [] segment = 4 -> {"b"}
      [] segment = 5 -> {"a", "b"}]

HallSensorsStateToSegment(s) ==
    CASE s = {"a", "c"} -> 1
      [] s = {"c"}      -> 2
      [] s = {"b", "c"} -> 3
      [] s = {"b"}      -> 4
      [] s = {"a", "b"} -> 5
      [] OTHER          -> 0

(* Mutant of SegmentDiff: folded with the number of the last segment.      *)
SegmentDiffM(new, old) ==
    LET d1 == IF new - old > 2 THEN new - old - 5 ELSE new - old
    IN  IF d1 < -2 THEN d1 + 5 ELSE d1

(* The signed difference TachUpdate adds: folded once from above and then  *)
(* once from below.                                                        *)
SegmentDiff(new, old) ==
    LET d1 == IF new - old > 2 THEN new - old - 6 ELSE new - old
    IN  IF d1 < -2 THEN d1 + 6 ELSE d1

-----------------------------------------------------------------------------
(* The line level the rotor produces at a position.                        *)
HallOf(position) == HALL_SENSOR_STATE[position % 6]

Init ==
    /\ rotor = 0
    /\ visited = {0}
    /\ pc = "a"
    /\ state = {}
    /\ current_segment = -1       \* TachInit has not run
    /\ counter \in {0, 7}         \* TachInit never writes counter
    /\ base = 0
    /\ noisy \in BOOLEAN

Turn(step) ==
    /\ rotor + step \in -MaxTravel..MaxTravel
    /\ visited \cup {rotor + step} \subseteq
           {p \in -MaxTravel..MaxTravel :
               \A q \in visited : p - q \in -StepsPerPeriod..StepsPerPeriod}
    /\ rotor' = rotor + step
    /\ visited' = visited \cup {rotor + step}
    /\ UNCHANGED <<pc, state, current_segment, counter, base, noisy>>

(* One palReadLine of HallSensorsGetState.                                 *)
ReadLine(line, next) ==
    /\ pc = line
    /\ pc' = next
    /\ \E high \in IF noisy THEN BOOLEAN ELSE {line \in HallOf(rotor)} :
           state' = (IF line = "a" THEN {} ELSE state)
                        \cup (IF high THEN {line} ELSE {})
    /\ visited' = IF line = "a" THEN {rotor} ELSE visited
    /\ UNCHANGED <<rotor, current_segment, counter, base, noisy>>

HallSensorsGetState ==
    \/ ReadLine("a", "b")
    \/ ReadLine("b", "c")
    \/ ReadLine("c", "use")

(* The rotor positions of this period that the reading can stand for.      *)
Positions == {p \in visited : p % 6 = HallSensorsStateToSegment(state)}

TachInit ==
    /\ pc = "use"
    /\ current_segment = -1
    /\ pc' = "a"
    /\ current_segment' = HallSensorsStateToSegment(state)
    /\ base' = counter - (IF Positions = {} THEN current_segment'
                          ELSE CHOOSE p \in Positions : TRUE)
    /\ UNCHANGED <<rotor, visited, state, counter, noisy>>

TachUpdate ==
    /\ pc = "use"
    /\ current_segment # -1
    /\ pc' = "a"
    /\ current_segment' = HallSensorsStateToSegment(state)
    /\ counter' = counter + SegmentDiff(current_segment', current_segment)
    /\ counter' \in -MaxCount..MaxCount
    /\ UNCHANGED <<rotor, visited, state, base, noisy>>

Next ==
    \/ \E step \in {-1, 1} : Turn(step)
    \/ HallSensorsGetState
    \/ TachInit
    \/ TachUpdate

Spec == Init /\ [][Next]_vars

-----------------------------------------------------------------------------
TypeOK ==
    /\ rotor \in -MaxTravel..MaxTravel
    /\ visited \subseteq -MaxTravel..MaxTravel
    /\ pc \in Lines \cup {"use"}
    /\ state \subseteq Lines
    /\ current_segment \in -1..5
    /\ counter \in Int
    /\ base \in Int
    /\ noisy \in BOOLEAN

(* Whatever the lines read, torn, noisy or too slowly sampled, the count   *)
(* and the segment stay congruent modulo a revolution: TachUpdate can lose *)
(* whole turns but never a fraction of one.                                *)
Congruent ==
    current_segment # -1 => (counter - base - current_segment) % 6 = 0

(* A noiseless reading torn by one rotor step is still a position the      *)
(* rotor had while the lines were read: the hall code changes one line per *)
(* segment.                                                                *)
TornReadIsAPosition ==
    ~noisy /\ pc = "use" => Positions # {}

(* While the rotor moves at most one segment per sampling period the count *)
(* after TachUpdate is a position the rotor had in that period.            *)
CountTracksRotor ==
    ~noisy /\ pc = "a" /\ current_segment # -1 => counter - base \in visited
=============================================================================
