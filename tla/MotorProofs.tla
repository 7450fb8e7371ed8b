----------------------------- MODULE MotorProofs -----------------------------
(***************************************************************************)
(* Proofs about the motor: the loop gain measurement and the current loop, *)
(* for every sweep, duty limit and counter width, and the tachometer, for  *)
(* every travel, sampling rate and noise.                                  *)
(***************************************************************************)
EXTENDS MotorControl, Tach, TLAPS

-----------------------------------------------------------------------------
(* The handover.                                                           *)

(* All of the samples of frequency f are in the sums.                      *)
Complete(s) == s = Samples[f]

(* What holds at each position of FreqResponse_Poll.                       *)
Handover ==
    /\ f = 0 => poll \in {"check", "next"} /\ samples_remaining = 0
    /\ poll # "check" => samples_remaining = 0
    /\ poll = "check" /\ f # 0 =>
        /\ Complete(sum + samples_remaining)
        /\ Complete(exc_sum + samples_remaining)
        /\ Complete(norm)
    /\ poll \in {"read", "emit"} =>
        /\ f # 0
        /\ Complete(sum) /\ Complete(exc_sum) /\ Complete(norm)
    /\ poll = "emit" => Complete(loaded)
    /\ poll \in {"arm", "hand"} => sum = 0 /\ exc_sum = 0
    /\ poll = "hand" => Complete(norm)

FRInv == FRTypeOK /\ Handover /\ ResultExact

(* Initially there is no frequency and no result.                          *)
LEMMA HandoverInit == FRInit => FRInv
  BY FreqAssumption, SMTT(30) DEF FRInit, FRInv, FRTypeOK, Handover, ResultExact, NoResult

(* Every step of the task and of the interrupt keeps the handover.         *)
LEMMA HandoverStep == FRInv /\ [FRNext]_frVars => FRInv'
<1> SUFFICES ASSUME FRInv, [FRNext]_frVars
             PROVE  FRInv'
    OBVIOUS
<1> USE FreqAssumption DEF FRInv, FRTypeOK, Handover, Complete, ResultExact
<1>1. CASE PollCheck
    BY <1>1 DEF PollCheck
<1>2. CASE PollRead
    BY <1>2 DEF PollRead
<1>3. CASE PollEmit
    BY <1>3 DEF PollEmit
<1>4. CASE PollNext
    BY <1>4 DEF PollNext
<1>5. CASE PollZero
    BY <1>5 DEF PollZero
<1>6. CASE PollArm
    BY <1>6 DEF PollArm
<1>7. CASE PollHand
    BY <1>7 DEF PollHand
<1>8. CASE FreqResponse_Update
  <2>1. CASE samples_remaining = 0
      BY <1>8, <2>1 DEF FreqResponse_Update
  <2>2. CASE samples_remaining # 0
    <3>1. poll = "check" /\ f # 0 /\ samples_remaining - 1 \in Nat
        BY <2>2
    <3>2. /\ sum' = sum + 1 /\ exc_sum' = exc_sum + 1
          /\ samples_remaining' = samples_remaining - 1
          /\ UNCHANGED <<poll, f, theta_increment, norm, loaded, result>>
        BY <1>8, <2>2 DEF FreqResponse_Update
    <3>3. sum' + samples_remaining' = sum + samples_remaining
        BY <3>2
    <3>4. exc_sum' + samples_remaining' = exc_sum + samples_remaining
        BY <3>2
    <3>5. FRTypeOK'
        BY <3>1, <3>2
    <3>6. Handover'
        BY <3>1, <3>2, <3>3, <3>4
    <3> QED
        BY <3>2, <3>5, <3>6
  <2> QED
      BY <2>1, <2>2
<1>9. CASE UNCHANGED frVars
    BY <1>9 DEF frVars
<1> QED
    BY <1>1, <1>2, <1>3, <1>4, <1>5, <1>6, <1>7, <1>8, <1>9
    DEF FRNext, FreqResponse_Poll

(* Every result FreqResponse_Poll emits has all the samples of its         *)
(* frequency and no other, wherever the interrupt falls.                   *)
THEOREM FreqResultExact == FRSpec => []ResultExact
<1>1. FRInv => ResultExact
    BY DEF FRInv
<1> QED
    BY HandoverInit, HandoverStep, <1>1, PTL DEF FRSpec

(* The task writes the shared structure only when samples_remaining is     *)
(* zero, whatever the interrupt does.                                      *)
THEOREM FreqOneOwner == FRSpec => []OneOwner
<1>1. FRInv => OneOwner
    BY DEF FRInv, Handover, OneOwner
<1> QED
    BY HandoverInit, HandoverStep, <1>1, PTL DEF FRSpec

-----------------------------------------------------------------------------
(* The current loop.                                                       *)

Flags ==
    /\ enabled \in BOOLEAN /\ converting \in BOOLEAN /\ jeoc \in BOOLEAN
    /\ fresh \in BOOLEAN /\ pending \in BOOLEAN /\ fault_clear \in BOOLEAN
    /\ raced \in BOOLEAN

Loop ==
    /\ i_target \in Classes
    /\ isr \in {"idle", "flag", "clear", "control"}
    /\ error_count \in 0..(ErrorMod - 1) /\ missed \in 0..(ErrorMod - 1)
    /\ comp \in [in1 : Classes, in2 : Classes, out1 : Int, out2 : Int]
    /\ BoundedDrive /\ NaNDoesNotDrive

(* The flag and the history agree except while the interrupt handles them. *)
Counted ==
    ~raced =>
    /\ isr \in {"idle", "control"} => (fresh <=> jeoc) /\ error_count = missed
    /\ isr = "flag" =>
        /\ ~fresh
        /\ missed = IF jeoc THEN error_count ELSE (error_count + 1) % ErrorMod
    /\ isr = "clear" => ~fresh /\ error_count = missed

(* MIN(MAX(out_raw, lim_low), lim_high) is within the limits for every     *)
(* out_raw, and is lim_low for a NaN.                                      *)
LEMMA LimitBounds ==
    /\ \A raw \in Int \cup {NaN} : Limit(raw) \in -MaxDuty..MaxDuty
    /\ Limit(NaN) = -MaxDuty
  BY MotorAssumption DEF Limit, MIN, MAX, Less

(* The whole program takes only steps of the measurement.                  *)
LEMMA MeasurementStep == [MCNext]_mcVars => [FRNext]_frVars
<1>1. ASSUME NEW b, StoreEnabled(b) PROVE UNCHANGED frVars
    BY <1>1 DEF StoreEnabled
<1>2. ASSUME NEW t, StoreTarget(t) PROVE UNCHANGED frVars
    BY <1>2 DEF StoreTarget
<1>3. Task => FRNext
    BY DEF Task, FRNext
<1>4. Period \/ ConversionDone => UNCHANGED frVars
    BY DEF Period, ConversionDone
<1>5. Isr => FRNext \/ UNCHANGED frVars
    BY DEF Isr, ReadSamples, ReadFlag, ClearFlag, Control, Drive, Shut, FRNext
<1>6. UNCHANGED mcVars => UNCHANGED frVars
    BY DEF mcVars
<1> QED
    BY <1>1, <1>2, <1>3, <1>4, <1>5, <1>6 DEF MCNext

(* The Boolean variables stay Boolean.                                     *)
LEMMA FlagsStep == Flags /\ [MCNext]_mcVars => Flags'
<1> SUFFICES ASSUME Flags, [MCNext]_mcVars
             PROVE  Flags'
    OBVIOUS
<1> USE DEF Flags, cmdVars, adcVars, errVars, outVars
<1>1. ASSUME NEW b \in BOOLEAN, StoreEnabled(b) PROVE Flags'
    BY <1>1, Zenon DEF StoreEnabled
<1>2. ASSUME NEW t \in Targets, StoreTarget(t) PROVE Flags'
    BY <1>2, Zenon DEF StoreTarget
<1>3. CASE Task
    BY <1>3, Zenon DEF Task
<1>4. CASE Period
    BY <1>4, Zenon DEF Period
<1>5. CASE ConversionDone
    BY <1>5, Zenon DEF ConversionDone
<1>6. CASE ReadSamples
    BY <1>6, Zenon DEF ReadSamples
<1>7. CASE ReadFlag
    BY <1>7, Zenon DEF ReadFlag
<1>8. CASE ClearFlag
    BY <1>8, Zenon DEF ClearFlag
<1>9. CASE Control
    BY <1>9, Zenon DEF Control, Drive, Shut
<1>10. CASE UNCHANGED mcVars
    BY <1>10, Zenon DEF mcVars
<1> QED
    BY <1>1, <1>2, <1>3, <1>4, <1>5, <1>6, <1>7, <1>8, <1>9, <1>10
    DEF MCNext, Isr

(* An iteration of the compensator keeps its state and the duty in bounds. *)
LEMMA DriveStep ==
    ASSUME Loop, Drive
    PROVE  /\ comp' \in [in1 : Classes, in2 : Classes, out1 : Int, out2 : Int]
           /\ BoundedDrive' /\ NaNDoesNotDrive'
<1>1. PICK raw \in RawOutputs(comp, i_target) :
        /\ comp' = BiquadUpdateLim(comp, i_target, Limit(raw))
        /\ ccr' = ToRegister(Limit(raw))
    BY DEF Drive
<1>2. raw \in Int \cup {NaN} /\ (i_target = "nan" => raw = NaN)
    BY <1>1, MotorAssumption DEF RawOutputs, Loop, Classes
<1>3. Limit(raw) \in -MaxDuty..MaxDuty /\ (i_target = "nan" => Limit(raw) = -MaxDuty)
    BY <1>2, LimitBounds
<1>4. /\ comp'.in1 = i_target /\ comp'.in2 = comp.in1
      /\ comp'.out1 = Limit(raw) /\ comp'.out2 = comp.out1
      /\ comp' \in [in1 : Classes, in2 : Classes, out1 : Int, out2 : Int]
    BY <1>1, <1>3, MotorAssumption DEF BiquadUpdateLim, Loop
<1> QED
    BY <1>1, <1>3, <1>4, MotorAssumption
    DEF ToRegister, BoundedDrive, NaNDoesNotDrive, Loop

(* The control state stays typed and in bounds.                            *)
LEMMA LoopStep == Loop /\ [MCNext]_mcVars => Loop'
<1> SUFFICES ASSUME Loop, [MCNext]_mcVars
             PROVE  Loop'
    OBVIOUS
<1> USE MotorAssumption DEF cmdVars, errVars, outVars
<1>1. ASSUME NEW b \in BOOLEAN, StoreEnabled(b) PROVE Loop'
    BY <1>1 DEF StoreEnabled, Loop, BoundedDrive, NaNDoesNotDrive
<1>2. ASSUME NEW t \in Targets, StoreTarget(t) PROVE Loop'
    BY <1>2 DEF StoreTarget, Loop, BoundedDrive, NaNDoesNotDrive, Classes
<1>3. CASE Task
    BY <1>3 DEF Task, Loop, BoundedDrive, NaNDoesNotDrive
<1>4. CASE Period
    BY <1>4 DEF Period, Loop, BoundedDrive, NaNDoesNotDrive
<1>5. CASE ConversionDone
    BY <1>5 DEF ConversionDone, Loop, BoundedDrive, NaNDoesNotDrive
<1>6. CASE ReadSamples
    BY <1>6 DEF ReadSamples, Loop, BoundedDrive, NaNDoesNotDrive
<1>7. CASE ReadFlag
    BY <1>7 DEF ReadFlag, Loop, BoundedDrive, NaNDoesNotDrive
<1>8. CASE ClearFlag
    BY <1>8 DEF ClearFlag, Loop, BoundedDrive, NaNDoesNotDrive
<1>9. CASE Control
  <2>1. isr' = "idle" /\ UNCHANGED <<i_target, error_count, missed>>
      BY <1>9 DEF Control
  <2>2. CASE Drive
      BY <2>1, <2>2, DriveStep DEF Loop
  <2>3. CASE Shut
      BY <2>1, <2>3 DEF Shut, Rest, Loop, Classes, BoundedDrive, NaNDoesNotDrive
  <2> QED
      BY <1>9, <2>2, <2>3 DEF Control
<1>10. CASE UNCHANGED mcVars
    BY <1>10 DEF mcVars, Loop, BoundedDrive, NaNDoesNotDrive
<1> QED
    BY <1>1, <1>2, <1>3, <1>4, <1>5, <1>6, <1>7, <1>8, <1>9, <1>10
    DEF MCNext, Isr

(* The driver off, the duty zero and the compensator at rest go together.  *)
LEMMA OffStep == OffIsRest /\ [MCNext]_mcVars => OffIsRest'
  BY DEF MCNext, Isr, StoreEnabled, StoreTarget, Task, Period, ConversionDone,
         ReadSamples, ReadFlag, ClearFlag, Control, Drive, Shut, mcVars, outVars,
         OffIsRest

(* Without a conversion ending inside the handling, flag and history stay  *)
(* together.                                                               *)
LEMMA CountedStep ==
    ASSUME Loop, Flags, Counted, [MCNext]_mcVars
    PROVE  Counted'
<1> USE MotorAssumption DEF Counted, adcVars, errVars
<1>1. ASSUME NEW b \in BOOLEAN, StoreEnabled(b) PROVE Counted'
    BY <1>1 DEF StoreEnabled
<1>2. ASSUME NEW t \in Targets, StoreTarget(t) PROVE Counted'
    BY <1>2 DEF StoreTarget
<1>3. CASE Task
    BY <1>3 DEF Task
<1>4. CASE Period
    BY <1>4 DEF Period
<1>5. CASE ConversionDone
    BY <1>5 DEF ConversionDone, Loop
<1>6. CASE ReadSamples
    BY <1>6 DEF ReadSamples, Loop
<1>7. CASE ReadFlag
    BY <1>7 DEF ReadFlag, Loop
<1>8. CASE ClearFlag
    BY <1>8 DEF ClearFlag, Loop
<1>9. CASE Control
    BY <1>9 DEF Control
<1>10. CASE UNCHANGED mcVars
    BY <1>10 DEF mcVars
<1> QED
    BY <1>1, <1>2, <1>3, <1>4, <1>5, <1>6, <1>7, <1>8, <1>9, <1>10
    DEF MCNext, Isr

(* The first state satisfies every part of the invariant.                  *)
LEMMA MotorInit == MCInit => FRInv /\ Flags /\ Loop /\ OffIsRest /\ Counted
<1> SUFFICES ASSUME MCInit
             PROVE  FRInv /\ Flags /\ Loop /\ OffIsRest /\ Counted
    OBVIOUS
<1>1. FRInv
    BY HandoverInit DEF MCInit
<1>2. Flags
    BY DEF MCInit, Flags
<1>3. Loop
    BY MotorAssumption
    DEF MCInit, Loop, Rest, Classes, BoundedDrive, NaNDoesNotDrive
<1>4. OffIsRest /\ Counted
    BY DEF MCInit, OffIsRest, Counted
<1> QED
    BY <1>1, <1>2, <1>3, <1>4

(* Every variable of the current loop and of the measurement keeps its     *)
(* type.                                                                   *)
THEOREM MotorTypeCorrect == MCSpec => []MCTypeOK
<1>1. FRInv /\ Flags /\ Loop => MCTypeOK
    BY MotorAssumption DEF FRInv, Flags, Loop, MCTypeOK, BoundedDrive
<1> QED
    BY MotorInit, MeasurementStep, HandoverStep, FlagsStep, LoopStep, <1>1, PTL
    DEF MCSpec

(* The duty MotorControlCb writes and the outputs BiquadUpdateLim feeds    *)
(* back stay within the limits, for every target a command may carry.      *)
THEOREM MotorBoundedDrive == MCSpec => []BoundedDrive
<1>1. Loop => BoundedDrive
    BY DEF Loop
<1> QED
    BY MotorInit, LoopStep, <1>1, PTL DEF MCSpec

(* A NaN error leaves the motor undriven.                                  *)
THEOREM MotorNaN == MCSpec => []NaNDoesNotDrive
<1>1. Loop => NaNDoesNotDrive
    BY DEF Loop
<1> QED
    BY MotorInit, LoopStep, <1>1, PTL DEF MCSpec

(* While the driver is off, MotorControlCb leaves the compensator at rest. *)
THEOREM MotorOffIsRest == MCSpec => []OffIsRest
  BY MotorInit, OffStep, PTL DEF MCSpec

(* The current loop is a measurement: what commands, converter and timer   *)
(* do between the calls of FreqResponse_Update does not touch it.          *)
THEOREM MotorIsMeasurement == MCSpec => FRSpec
<1>1. MCInit => FRInit
    BY DEF MCInit
<1> QED
    BY <1>1, MeasurementStep, PTL DEF MCSpec, FRSpec

(* Measurements stay exact while commands switch the motor on and off.     *)
THEOREM MotorResultExact == MCSpec => []ResultExact
  BY MotorIsMeasurement, FreqResultExact, PTL

(* The task and the interrupt never both own the structure, also while the *)
(* motor is switched and conversions are late.                             *)
THEOREM MotorOneOwner == MCSpec => []OneOwner
  BY MotorIsMeasurement, FreqOneOwner, PTL

(* As long as no conversion has ended between the reads of the data and    *)
(* the write that clears the flag, error_count is exact.                   *)
THEOREM MotorErrorCount == MCSpec => []ErrorCountExact
<1>1. Loop /\ Flags /\ Counted /\ [MCNext]_mcVars => Counted'
    BY CountedStep
<1>2. Counted => ErrorCountExact
    BY DEF Counted, ErrorCountExact
<1> QED
    BY MotorInit, FlagsStep, LoopStep, <1>1, <1>2, PTL DEF MCSpec

-----------------------------------------------------------------------------
(* The tachometer.                                                         *)


(* The two folds of TachUpdate change a difference by whole turns only.    *)
LEMMA SegmentDiffCongruent ==
    ASSUME NEW new \in 0..5, NEW old \in 0..5
    PROVE  /\ SegmentDiff(new, old) \in -2..3
           /\ (SegmentDiff(new, old) - (new - old)) % 6 = 0
  BY DEF SegmentDiff

(* Starting the count at a position of the segment.                        *)
LEMMA CongruentStart ==
    ASSUME NEW c \in Int, NEW p \in Int
    PROVE  (c - (c - p) - (p % 6)) % 6 = 0
  OBVIOUS

(* Adding a difference that is congruent to the change of segment.         *)
LEMMA CongruentStep ==
    \A c, b, s, t, d \in Int :
        (c - b - s) % 6 = 0 /\ (d - (t - s)) % 6 = 0
            => (c + d - b - t) % 6 = 0
<1> SUFFICES ASSUME NEW c \in Int, NEW b \in Int, NEW s \in Int,
                    NEW t \in Int, NEW d \in Int,
                    (c - b - s) % 6 = 0, (d - (t - s)) % 6 = 0
             PROVE  (c + d - b - t) % 6 = 0
  OBVIOUS
<1> DEFINE x == c - b - s
           y == d - (t - s)
<1>1. c + d - b - t = x + y
  OBVIOUS
<1>2. x \in Int /\ y \in Int /\ x % 6 = 0 /\ y % 6 = 0
  OBVIOUS
<1> HIDE DEF x, y
<1>3. (x + y) % 6 = 0
  BY <1>2
<1> QED
  BY <1>1, <1>3

(* Every combination of line levels decodes to a segment.                  *)
LEMMA SegmentType ==
    ASSUME NEW s
    PROVE  HallSensorsStateToSegment(s) \in 0..5
  BY DEF HallSensorsStateToSegment

(* The variables keep their types in every behaviour.                      *)
THEOREM TachTypeCorrect == Spec => []TypeOK
<1>1. Init => TypeOK
  BY TachAssumption DEF Init, TypeOK, Lines
<1>2. TypeOK /\ [Next]_vars => TypeOK'
  <2> SUFFICES ASSUME TypeOK, [Next]_vars
               PROVE  TypeOK'
    OBVIOUS
  <2> USE TachAssumption DEF TypeOK, Lines
  <2>1. ASSUME NEW step \in {-1, 1}, Turn(step)
        PROVE  TypeOK'
    BY <2>1 DEF Turn
  <2>2. CASE HallSensorsGetState
    BY <2>2 DEF HallSensorsGetState, ReadLine
  <2>3. CASE TachInit
    <3>1. current_segment' \in 0..5
      BY <2>3, SegmentType DEF TachInit
    <3>2. base' \in Int
      <4>1. CASE Positions = {}
        BY <2>3, <3>1, <4>1 DEF TachInit
      <4>2. CASE Positions # {}
        <5> DEFINE p == CHOOSE q \in Positions : TRUE
        <5>1. p \in Positions
          BY <4>2
        <5>2. base' = counter - p
          BY <2>3, <4>2 DEF TachInit
        <5> HIDE DEF p
        <5>3. p \in Int
          BY <5>1 DEF Positions
        <5> QED
          BY <5>2, <5>3
      <4> QED
        BY <4>1, <4>2
    <3> QED
      BY <2>3, <3>1, <3>2 DEF TachInit
  <2>4. CASE TachUpdate
    <3>1. current_segment' \in 0..5
      BY <2>4, SegmentType DEF TachUpdate
    <3> QED
      BY <2>4, <3>1 DEF TachUpdate
  <2>5. CASE UNCHANGED vars
    BY <2>5 DEF vars
  <2> QED
    BY <2>1, <2>2, <2>3, <2>4, <2>5 DEF Next
<1> QED
  BY <1>1, <1>2, PTL DEF Spec

(* TachUpdate never loses a fraction of a turn, whatever the lines read.   *)
THEOREM TachCongruent == Spec => []Congruent
<1>1. Init => Congruent
  BY DEF Init, Congruent
<1>2. TypeOK /\ TypeOK' /\ Congruent /\ [Next]_vars => Congruent'
  <2> SUFFICES ASSUME TypeOK, TypeOK', Congruent, [Next]_vars
               PROVE  Congruent'
    OBVIOUS
  <2>1. ASSUME NEW step \in {-1, 1}, Turn(step)
        PROVE  Congruent'
    BY <2>1 DEF Turn, Congruent
  <2>2. CASE HallSensorsGetState
    BY <2>2 DEF HallSensorsGetState, ReadLine, Congruent
  <2>3. CASE TachInit
    <3>1. current_segment' \in 0..5 /\ counter \in Int
      BY <2>3, SegmentType DEF TachInit, TypeOK
    <3>2. CASE Positions = {}
      BY <2>3, <3>1, <3>2 DEF TachInit, Congruent
    <3>3. CASE Positions # {}
      <4> DEFINE p == CHOOSE q \in Positions : TRUE
      <4>1. p \in Positions
        BY <3>3
      <4>2. counter' = counter /\ base' = counter - p
        BY <2>3, <3>3 DEF TachInit
      <4> HIDE DEF p
      <4>3. p \in Int /\ p % 6 = current_segment'
        BY <4>1, <2>3, TachAssumption DEF Positions, TachInit, TypeOK
      <4>4. (counter - (counter - p) - (p % 6)) % 6 = 0
        BY <3>1, <4>3, CongruentStart
      <4> QED
        BY <4>2, <4>3, <4>4 DEF Congruent
    <3> QED
      BY <3>2, <3>3
  <2>4. CASE TachUpdate
    <3>1. /\ current_segment \in 0..5 /\ current_segment' \in 0..5
          /\ counter \in Int /\ base \in Int
      BY <2>4, SegmentType DEF TachUpdate, TypeOK
    <3> DEFINE d == SegmentDiff(current_segment', current_segment)
    <3>2. d \in -2..3 /\ (d - (current_segment' - current_segment)) % 6 = 0
      BY <3>1, SegmentDiffCongruent
    <3>3. counter' = counter + d /\ base' = base
      BY <2>4 DEF TachUpdate
    <3> HIDE DEF d
    <3>4. (counter - base - current_segment) % 6 = 0
      BY <3>1 DEF Congruent
    <3>5. current_segment \in Int /\ current_segment' \in Int /\ d \in Int
      BY <3>1, <3>2
    <3>6. (counter + d - base - current_segment') % 6 = 0
      <4> DEFINE t == current_segment'
      <4>1. /\ t \in Int
            /\ (counter - base - current_segment) % 6 = 0
            /\ (d - (t - current_segment)) % 6 = 0
        BY <3>2, <3>4, <3>5
      <4> HIDE DEF t
      <4>2. (counter + d - base - t) % 6 = 0
        BY <3>1, <3>5, <4>1, CongruentStep
      <4> QED
        BY <4>2 DEF t
    <3>7. counter' - base' - current_segment' = counter + d - base - current_segment'
      BY <3>1, <3>3, <3>5
    <3> QED
      BY <3>6, <3>7 DEF Congruent
  <2>5. CASE UNCHANGED vars
    BY <2>5 DEF vars, Congruent
  <2> QED
    BY <2>1, <2>2, <2>3, <2>4, <2>5 DEF Next
<1> QED
  BY <1>1, <1>2, TachTypeCorrect, PTL DEF Spec

-----------------------------------------------------------------------------
(* The inductive invariant behind the two claims about a rotor that moves  *)
(* at most one segment per sampling period.                                *)
Near(p, q) == p - q \in -1..1

(* The positions of a period are neighbours, and the rotor is at one.      *)
Neighbours ==
    /\ rotor \in visited
    /\ \A p, q \in visited : Near(p, q)

(* Each line read in this period has the level it had at some position of  *)
(* the period, and the bits of the lines not read yet are clear.           *)
LineRead(line) == \E p \in visited : line \in state <=> line \in HallOf(p)

Reading ==
    /\ pc # "a" => LineRead("a")
    /\ pc \in {"c", "use"} => LineRead("b")
    /\ pc = "use" => LineRead("c")
    /\ pc = "b" => state \subseteq {"a"}
    /\ pc = "c" => state \subseteq {"a", "b"}

(* The count is a position of the period it was taken in, hence a          *)
(* neighbour of the position the next period starts at.                    *)
Following ==
    current_segment # -1 =>
        /\ pc = "a" => counter - base \in visited
        /\ pc # "a" => \E r \in visited : Near(counter - base, r)

Tracking == noisy = FALSE => Neighbours /\ Reading /\ Following

(* A segment's line levels decode to the segment.                          *)
LEMMA DecodesItself ==
    \A u \in 0..5 : HallSensorsStateToSegment(HALL_SENSOR_STATE[u]) = u
  <1> DEFINE H == HALL_SENSOR_STATE
             code == {{"a", "c"}, {"c"}, {"b", "c"}, {"b"}, {"a", "b"}}
  <1>1. /\ H[0] = {"a"} /\ H[1] = {"a", "c"} /\ H[2] = {"c"}
        /\ H[3] = {"b", "c"} /\ H[4] = {"b"} /\ H[5] = {"a", "b"}
    BY DEF HALL_SENSOR_STATE
  <1>2. {"a"} \notin code
    OBVIOUS
  <1>3. /\ {"c"} # {"a", "c"} /\ {"b", "c"} # {"a", "c"} /\ {"b"} # {"a", "c"}
        /\ {"a", "b"} # {"a", "c"} /\ {"b", "c"} # {"c"} /\ {"b"} # {"c"}
        /\ {"a", "b"} # {"c"} /\ {"b"} # {"b", "c"} /\ {"a", "b"} # {"b", "c"}
        /\ {"a", "b"} # {"b"}
    OBVIOUS
  <1>4. /\ HallSensorsStateToSegment({"a"}) = 0
        /\ HallSensorsStateToSegment({"a", "c"}) = 1
        /\ HallSensorsStateToSegment({"c"}) = 2
        /\ HallSensorsStateToSegment({"b", "c"}) = 3
        /\ HallSensorsStateToSegment({"b"}) = 4
        /\ HallSensorsStateToSegment({"a", "b"}) = 5
    BY <1>2, <1>3 DEF HallSensorsStateToSegment
  <1>5. \A u \in 0..5 : u = 0 \/ u = 1 \/ u = 2 \/ u = 3 \/ u = 4 \/ u = 5
    OBVIOUS
  <1> HIDE DEF H, code
  <1>6. \A u \in 0..5 : HallSensorsStateToSegment(H[u]) = u
    BY <1>1, <1>4, <1>5, SMTT(30)
  <1> QED
    BY <1>6 DEF H

(* The hall code changes one line per segment: three lines read at two     *)
(* neighbouring segments decode to one of the two.                         *)
LEMMA TornCode ==
    ASSUME NEW s \in 0..5, NEW t \in 0..5,
           t = (s + 1) % 6,
           NEW x \in SUBSET Lines,
           \A line \in Lines :
               \/ line \in x <=> line \in HALL_SENSOR_STATE[s]
               \/ line \in x <=> line \in HALL_SENSOR_STATE[t]
    PROVE  HallSensorsStateToSegment(x) \in {s, t}
  <1>1. x = HALL_SENSOR_STATE[s] \/ x = HALL_SENSOR_STATE[t]
    BY SMTT(60) DEF HALL_SENSOR_STATE, Lines
  <1> QED
    BY <1>1, DecodesItself

(* Lines read at neighbouring positions decode to one of the positions.    *)
LEMMA TornReading ==
    ASSUME TypeOK, Neighbours, Reading, pc = "use"
    PROVE  Positions # {}
  <1>1. visited \subseteq Int
    BY DEF TypeOK
  <1>2. PICK pa \in visited : "a" \in state <=> "a" \in HallOf(pa)
    BY DEF Reading, LineRead
  <1>3. PICK pb \in visited : "b" \in state <=> "b" \in HallOf(pb)
    BY DEF Reading, LineRead
  <1>4. PICK pp \in visited : "c" \in state <=> "c" \in HallOf(pp)
    BY DEF Reading, LineRead
  <1>5. \E p, q \in visited :
            /\ {pa, pb, pp} \subseteq {p, q}
            /\ q = p \/ q = p + 1
    <2>1. Near(pa, pb) /\ Near(pb, pp) /\ Near(pa, pp)
      BY <1>2, <1>3, <1>4 DEF Neighbours
    <2>2. \E p, q \in {pa, pb, pp} :
            /\ {pa, pb, pp} \subseteq {p, q}
            /\ q = p \/ q = p + 1
      <3>1. pa \in Int /\ pb \in Int /\ pp \in Int
        BY <1>1
      <3>2. /\ pa = pb \/ pa = pb + 1 \/ pb = pa + 1
            /\ pb = pp \/ pb = pp + 1 \/ pp = pb + 1
            /\ pa = pp \/ pa = pp + 1 \/ pp = pa + 1
        BY <2>1, <3>1 DEF Near
      <3> QED
        BY <3>1, <3>2
    <2> QED
      BY <2>2
  <1>6. PICK p, q \in visited :
            /\ {pa, pb, pp} \subseteq {p, q}
            /\ q = p \/ q = p + 1
    BY <1>5
  <1>7. p % 6 \in 0..5 /\ q % 6 \in 0..5
    BY <1>1
  <1>8. \A line \in Lines :
            \/ line \in state <=> line \in HALL_SENSOR_STATE[p % 6]
            \/ line \in state <=> line \in HALL_SENSOR_STATE[q % 6]
    BY <1>2, <1>3, <1>4, <1>6 DEF HallOf, Lines
  <1>9. state \in SUBSET Lines
    BY DEF TypeOK
  <1>10. HallSensorsStateToSegment(state) \in {p % 6, q % 6}
    <2>1. CASE q = p + 1
      <3>1. q % 6 = ((p % 6) + 1) % 6
        BY <1>1, <2>1
      <3> QED
        BY <1>7, <1>8, <1>9, <3>1, TornCode
    <2>2. CASE q = p
      <3>1. \A line \in Lines : line \in state <=> line \in HALL_SENSOR_STATE[p % 6]
        BY <1>8, <2>2
      <3> DEFINE s == p % 6
                 t == (s + 1) % 6
      <3>2. HALL_SENSOR_STATE[s] \subseteq Lines
        BY <1>7 DEF HALL_SENSOR_STATE, Lines
      <3>3. state = HALL_SENSOR_STATE[s]
        BY <3>1, <3>2, <1>9
      <3> QED
        BY <3>3, <1>7, DecodesItself
    <2> QED
      BY <1>6, <2>1, <2>2
  <1> QED
    BY <1>10 DEF Positions

(* Two readings whose positions are at most two segments apart: the folded *)
(* difference of the segments is the difference of the positions.          *)
LEMMA SegmentDiffExact ==
    ASSUME NEW p \in Int, NEW q \in Int, q - p \in -2..2
    PROVE  SegmentDiff(q % 6, p % 6) = q - p
  <1> DEFINE s == p % 6
  <1>1. s \in 0..5
    OBVIOUS
  <1>2. q = p - 2 \/ q = p - 1 \/ q = p \/ q = p + 1 \/ q = p + 2
    OBVIOUS
  <1>3. \/ q = p - 2 /\ q % 6 = (IF s < 2 THEN s + 4 ELSE s - 2)
        \/ q = p - 1 /\ q % 6 = (IF s < 1 THEN s + 5 ELSE s - 1)
        \/ q = p /\ q % 6 = s
        \/ q = p + 1 /\ q % 6 = (IF s > 4 THEN s - 5 ELSE s + 1)
        \/ q = p + 2 /\ q % 6 = (IF s > 3 THEN s - 4 ELSE s + 2)
    BY <1>2
  <1> HIDE DEF s
  <1>4. SegmentDiff(q % 6, s) = q - p
    BY <1>1, <1>3 DEF SegmentDiff
  <1> QED
    BY <1>4 DEF s

(* The segment the firmware remembers is the segment of the count.         *)
LEMMA SegmentOfCount ==
    ASSUME NEW s \in 0..5, NEW p \in Int, (p - s) % 6 = 0
    PROVE  s = p % 6
  OBVIOUS

(* One step keeps the tracking invariant.                                  *)
LEMMA TrackingKept ==
    ASSUME StepsPerPeriod <= 1, TypeOK, TypeOK', Congruent, Tracking, [Next]_vars
    PROVE  Tracking'
  <1> SUFFICES ASSUME noisy' = FALSE
               PROVE  Neighbours' /\ Reading' /\ Following'
    BY DEF Tracking
  <1>1. noisy = FALSE
    <2>1. noisy' = noisy
      BY DEF Next, Turn, HallSensorsGetState, ReadLine, TachInit, TachUpdate, vars
    <2> QED
      BY <2>1
  <1>2. Neighbours /\ Reading /\ Following
    BY <1>1 DEF Tracking
  <1>3. visited \subseteq Int /\ rotor \in Int /\ counter \in Int /\ base \in Int
    BY DEF TypeOK
  <1>4. ASSUME NEW step \in {-1, 1}, Turn(step)
        PROVE  Neighbours' /\ Reading' /\ Following'
    <2>1. /\ rotor' = rotor + step /\ visited' = visited \cup {rotor'}
          /\ UNCHANGED <<pc, state, current_segment, counter, base>>
      BY <1>4 DEF Turn
    <2>2. \A q \in visited : rotor' - q \in -StepsPerPeriod..StepsPerPeriod
      BY <1>4 DEF Turn
    <2>3. \A q \in visited : Near(rotor', q) /\ Near(q, rotor')
      <3> DEFINE r == rotor'
      <3>1. StepsPerPeriod = 0 \/ StepsPerPeriod = 1
        BY TachAssumption
      <3>2. r \in Int
        BY DEF TypeOK
      <3>3. \A q \in visited : r - q \in -StepsPerPeriod..StepsPerPeriod
        BY <2>2
      <3> HIDE DEF r
      <3>4. \A q \in visited : Near(r, q) /\ Near(q, r)
        BY <3>1, <3>2, <3>3, <1>3 DEF Near
      <3> QED
        BY <3>4 DEF r
    <2>4. Near(rotor', rotor')
      <3>1. \A i \in Int : Near(i, i)
        BY DEF Near
      <3>2. rotor' \in Int
        BY DEF TypeOK
      <3> QED
        BY <3>1, <3>2
    <2>5. Neighbours'
      BY <1>2, <2>1, <2>3, <2>4 DEF Neighbours
    <2>6. \A line : LineRead(line) => LineRead(line)'
      BY <2>1 DEF LineRead
    <2>7. Reading'
      BY <1>2, <2>1, <2>6 DEF Reading
    <2>8. Following'
      BY <1>2, <2>1 DEF Following
    <2> QED
      BY <2>5, <2>7, <2>8
  <1>5. ASSUME NEW line \in Lines, NEW next \in {"b", "c", "use"}, ReadLine(line, next)
        PROVE  /\ pc = line /\ pc' = next
               /\ UNCHANGED <<rotor, current_segment, counter, base>>
               /\ visited' = IF line = "a" THEN {rotor} ELSE visited
               /\ state' \subseteq (IF line = "a" THEN {} ELSE state) \cup {line}
               /\ line \in state' <=>
                       line \in HallOf(rotor) \/ (line # "a" /\ line \in state)
               /\ line # "a" => \A other \in Lines \ {line} :
                                    other \in state' <=> other \in state
    <2>1. PICK high \in {line \in HallOf(rotor)} :
              state' = (IF line = "a" THEN {} ELSE state)
                           \cup (IF high THEN {line} ELSE {})
      BY <1>1, <1>5 DEF ReadLine
    <2>2. CASE line \in HallOf(rotor)
      <3>1. state' = (IF line = "a" THEN {} ELSE state) \cup {line}
        BY <2>1, <2>2
      <3> QED
        BY <1>5, <2>2, <3>1 DEF ReadLine
    <2>3. CASE line \notin HallOf(rotor)
      <3>1. state' = (IF line = "a" THEN {} ELSE state)
        BY <2>1, <2>3
      <3> QED
        BY <1>5, <2>3, <3>1 DEF ReadLine
    <2> QED
      BY <2>2, <2>3
  <1>6. CASE ReadLine("a", "b")
    <2>1. /\ pc = "a" /\ pc' = "b" /\ visited' = {rotor}
          /\ UNCHANGED <<rotor, current_segment, counter, base>>
          /\ state' \subseteq {"a"}
          /\ "a" \in state' <=> "a" \in HallOf(rotor)
      BY <1>5, <1>6 DEF Lines
    <2>2. Neighbours'
      BY <1>3, <2>1 DEF Neighbours, Near
    <2>3. Reading'
      BY <2>1 DEF Reading, LineRead
    <2>4. Following'
      <3> SUFFICES ASSUME current_segment # -1
                   PROVE  Near(counter - base, rotor)
        BY <2>1 DEF Following
      <3> QED
        BY <1>2, <2>1 DEF Following, Neighbours
    <2> QED
      BY <2>2, <2>3, <2>4
  <1>7. ASSUME NEW line \in {"b", "c"}, NEW next, ReadLine(line, next),
               next = IF line = "b" THEN "c" ELSE "use"
        PROVE  Neighbours' /\ Reading' /\ Following'
    <2>1. /\ pc = line /\ pc' = next /\ visited' = visited
          /\ UNCHANGED <<rotor, current_segment, counter, base>>
          /\ state' \subseteq state \cup {line}
          /\ line \in state' <=> line \in HallOf(rotor) \/ line \in state
          /\ \A other \in Lines \ {line} : other \in state' <=> other \in state
      BY <1>5, <1>7 DEF Lines
    <2>2. Neighbours' /\ Following'
      BY <1>2, <1>7, <2>1 DEF Neighbours, Following
    <2>3. line \notin state
      BY <1>2, <1>7, <2>1 DEF Reading
    <2>4. LineRead(line)'
      BY <1>2, <2>1, <2>3 DEF LineRead, Neighbours
    <2>5. \A other \in Lines \ {line} : LineRead(other) => LineRead(other)'
      BY <2>1 DEF LineRead
    <2>6. Reading'
      BY <1>2, <1>7, <2>1, <2>4, <2>5 DEF Reading, Lines
    <2> QED
      BY <2>2, <2>6
  <1>8. ASSUME pc = "use", pc' = "a", visited' = visited, rotor' = rotor, state' = state,
               counter' - base' \in visited
        PROVE  Neighbours' /\ Reading' /\ Following'
    BY <1>2, <1>8 DEF Neighbours, Reading, Following
  <1>9. CASE TachInit
    <2> DEFINE p == CHOOSE q \in Positions : TRUE
    <2>1. Positions # {}
      BY <1>2, <1>9, TornReading DEF TachInit
    <2>2. p \in Positions /\ base' = counter - p /\ counter' = counter
      BY <1>9, <2>1 DEF TachInit
    <2> HIDE DEF p
    <2>3. counter' - base' = p /\ p \in visited
      BY <1>3, <2>2 DEF Positions
    <2> QED
      BY <1>8, <1>9, <2>3 DEF TachInit
  <1>10. CASE TachUpdate
    <2>1. PICK q \in Positions : TRUE
      BY <1>2, <1>10, TornReading DEF TachUpdate
    <2> DEFINE p == counter - base
    <2>2. q \in visited /\ q \in Int /\ p \in Int /\ current_segment' = q % 6
      BY <1>3, <1>10, <2>1 DEF Positions, TachUpdate
    <2>3. current_segment = p % 6
      <3>1. current_segment \in 0..5 /\ (counter - base - current_segment) % 6 = 0
        BY <1>10 DEF TachUpdate, Congruent, TypeOK
      <3> QED
        BY <2>2, <3>1, SegmentOfCount
    <2>4. PICK r \in visited : Near(p, r)
      BY <1>2, <1>10 DEF TachUpdate, Following
    <2>5. q - p \in -2..2
      BY <1>2, <1>3, <2>2, <2>4 DEF Neighbours, Near
    <2>6. counter' - base' = q
      <3>1. counter' = counter + (q - p) /\ base' = base
        BY <1>10, <2>2, <2>3, <2>5, SegmentDiffExact DEF TachUpdate
      <3> QED
        BY <1>3, <2>2, <3>1
    <2> QED
      BY <1>8, <1>10, <2>2, <2>6 DEF TachUpdate
  <1>11. CASE UNCHANGED vars
    <2>1. UNCHANGED <<rotor, visited, pc, state, current_segment, counter, base>>
      BY <1>11 DEF vars
    <2> QED
      BY <1>2, <2>1 DEF Neighbours, Reading, LineRead, Following
  <1>12. CASE ReadLine("b", "c")
    <2>1. ReadLine("b", "c")
      BY <1>12
    <2> QED
      BY <1>7, <2>1
  <1>13. CASE ReadLine("c", "use")
    BY <1>7, <1>13
  <1>14. CASE HallSensorsGetState
    BY <1>6, <1>12, <1>13, <1>14 DEF HallSensorsGetState
  <1> QED
    BY <1>4, <1>9, <1>10, <1>11, <1>14 DEF Next

(* The tracking invariant holds throughout.                                *)
LEMMA TrackingHolds ==
    ASSUME StepsPerPeriod <= 1
    PROVE  Spec => []Tracking
  <1>1. Init => Tracking
    <2>1. ASSUME Init PROVE Neighbours /\ Reading /\ Following
      <3>1. Neighbours
        <4>1. Near(0, 0)
          BY DEF Near
        <4> QED
          BY <2>1, <4>1 DEF Init, Neighbours
      <3> QED
        BY <2>1, <3>1 DEF Init, Reading, Following
    <2> QED
      BY <2>1 DEF Tracking
  <1>2. TypeOK /\ TypeOK' /\ Congruent /\ Tracking /\ [Next]_vars => Tracking'
    BY TrackingKept
  <1> QED
    BY <1>1, <1>2, TachTypeCorrect, TachCongruent, PTL DEF Spec

(* A noiseless reading torn by one rotor step is a position the rotor had, *)
(* for any travel and any count.                                           *)
THEOREM TachTornRead ==
    ASSUME StepsPerPeriod <= 1
    PROVE  Spec => []TornReadIsAPosition
  <1>1. TypeOK /\ Tracking => TornReadIsAPosition
    BY TornReading DEF Tracking, TornReadIsAPosition, TypeOK
  <1> QED
    BY <1>1, TachTypeCorrect, TrackingHolds, PTL

(* While the rotor moves at most one segment per sampling period the count *)
(* TachUpdate returns is a position the rotor had in that period.          *)
THEOREM TachCountTracks ==
    ASSUME StepsPerPeriod <= 1
    PROVE  Spec => []CountTracksRotor
  <1>1. TypeOK /\ Tracking => CountTracksRotor
    BY DEF Tracking, Following, CountTracksRotor, TypeOK
  <1> QED
    BY <1>1, TachTypeCorrect, TrackingHolds, PTL
=============================================================================
