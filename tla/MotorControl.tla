---------------------------- MODULE MotorControl ----------------------------
(***************************************************************************)
(* The current loop: the injected ADC conversion the timer triggers, the   *)
(* PWM interrupt (m1_pwm_cb, MotorControlCb) with the limited compensator  *)
(* (BiquadUpdateLim), the stores handle_incoming_command makes from the    *)
(* network thread, and the loop gain measurement of FreqResponse, whose    *)
(* task and interrupt half run in the same program.                        *)
(*                                                                         *)
(* Threads run only while the interrupt does not; the converter runs       *)
(* beside both.  Floats are abstracted to their class and, after the       *)
(* limiter, to a duty count.                                               *)
(***************************************************************************)
EXTENDS FreqResponse

CONSTANTS
    MaxDuty,     \* max_duty_count
    Over,        \* how far a finite raw output may exceed the limits
    NaN,         \* not a number
    Targets,     \* classes of i_target a command may carry
    ErrorMod     \* width of error_count, 2^32

ASSUME MotorAssumption ==
    /\ MaxDuty \in Nat /\ Over \in Nat
    /\ NaN \notin Int
    /\ Targets \subseteq {"finite", "infinite", "nan"}
    /\ ErrorMod \in Nat \ {0}

VARIABLES
    enabled, i_target,       \* written by the command handler
    converting, jeoc,        \* ADC1: conversion under way, SR.JEOC
    fresh,                   \* history: JDR1 has changed since it was read
    pending, isr,            \* the timer's request; the interrupt's position
    error_count, missed,     \* history: missed, cycles without a new value
    raced,                   \* history: a conversion ended inside a cycle's check
    comp,                    \* ia_compensator: in1, in2, out1, out2
    ccr, fault_clear         \* CCR[0]; is the PWM driver on?

adcVars == <<converting, jeoc, fresh, pending>>
outVars == <<comp, ccr, fault_clear>>
cmdVars == <<enabled, i_target>>
errVars == <<error_count, missed, raced>>
mcVars == <<cmdVars, adcVars, isr, errVars, outVars, frVars>>

Rest == [in1 |-> "finite", in2 |-> "finite", out1 |-> 0, out2 |-> 0]

(* The first conversion is started by software (configure_motor_adcs).     *)
MCInit ==
    /\ FRInit
    /\ enabled = FALSE /\ i_target = "finite"
    /\ converting = TRUE /\ jeoc = FALSE /\ fresh = FALSE
    /\ pending = FALSE /\ isr = "idle"
    /\ error_count = 0 /\ missed = 0 /\ raced = FALSE
    /\ comp = Rest /\ ccr = 0 /\ fault_clear = FALSE

-----------------------------------------------------------------------------
(* handle_incoming_command: one store per recognised key.                  *)

StoreEnabled(b) ==
    /\ isr = "idle"
    /\ enabled' = b
    /\ UNCHANGED <<i_target, adcVars, isr, errVars, outVars, frVars>>

StoreTarget(t) ==
    /\ isr = "idle"
    /\ i_target' = t
    /\ UNCHANGED <<enabled, adcVars, isr, errVars, outVars, frVars>>

(* _MCTask.                                                                *)
Task ==
    /\ isr = "idle"
    /\ FreqResponse_Poll
    /\ UNCHANGED <<cmdVars, adcVars, isr, errVars, outVars>>

-----------------------------------------------------------------------------
(* TIM1 and ADC1.  Compare channel 4 starts a conversion shortly before    *)
(* the period ends and the interrupt is requested.                         *)

Period ==
    /\ isr = "idle" /\ ~pending /\ ~converting
    /\ converting' = TRUE /\ pending' = TRUE
    /\ UNCHANGED <<cmdVars, jeoc, fresh, isr, errVars, outVars, frVars>>

ConversionDone ==
    /\ converting
    /\ converting' = FALSE /\ jeoc' = TRUE /\ fresh' = TRUE
    /\ raced' = (raced \/ isr \in {"flag", "clear"})
    /\ UNCHANGED <<cmdVars, pending, isr, error_count, missed, outVars, frVars>>

-----------------------------------------------------------------------------
(* The PWM interrupt.                                                      *)

(* m1_pwm_cb reads JDR1 and JDR2 for the arguments.                        *)
ReadSamples ==
    /\ isr = "idle" /\ pending
    /\ pending' = FALSE
    /\ missed' = IF fresh THEN missed ELSE (missed + 1) % ErrorMod
    /\ fresh' = FALSE
    /\ isr' = "flag"
    /\ UNCHANGED <<cmdVars, converting, jeoc, error_count, raced, outVars,
                   frVars>>

ReadFlag ==
    /\ isr = "flag"
    /\ error_count' = IF jeoc THEN error_count ELSE (error_count + 1) % ErrorMod
    /\ isr' = "clear"
    /\ UNCHANGED <<cmdVars, adcVars, missed, raced, outVars, frVars>>

(* Mutant of ClearFlag: the flag is left set.                              *)
ClearFlagM ==
    /\ isr = "clear"
    /\ isr' = "control"
    /\ UNCHANGED <<cmdVars, adcVars, errVars, outVars, frVars>>

ClearFlag ==
    /\ isr = "clear"
    /\ jeoc' = FALSE
    /\ isr' = "control"
    /\ UNCHANGED <<cmdVars, converting, fresh, pending, errVars, outVars, frVars>>

(* C comparisons with a NaN are false.                                     *)
Less(x, y) == x # NaN /\ y # NaN /\ x < y

MAX(x, y) == IF Less(y, x) THEN x ELSE y
MIN(x, y) == IF Less(x, y) THEN x ELSE y

(* What the sum of products can be, by the classes of its terms.           *)
RawOutputs(c, input) ==
    LET ins == {input, c.in1, c.in2}
        top == MaxDuty + Over
    IN  IF "nan" \in ins \/ NaN \in {c.out1, c.out2} THEN {NaN}
        ELSE IF "infinite" \in ins THEN {NaN, -top, top}
        ELSE -top .. top

(* Mutant of Limit: no upper limit.                                       *)
LimitM(raw) == MAX(raw, -MaxDuty)

Limit(raw) == MIN(MAX(raw, -MaxDuty), MaxDuty)

BiquadUpdateLim(c, input, out) ==
    [in1 |-> input, in2 |-> c.in1, out1 |-> out, out2 |-> c.out1]

(* The float goes to an unsigned register: the conversion instruction      *)
(* saturates a negative value at zero.                                     *)
ToRegister(va) == IF va < 0 THEN 0 ELSE va

Drive ==
    /\ FreqResponse_Update
    /\ \E raw \in RawOutputs(comp, i_target) :
        LET va == Limit(raw)
        IN  /\ comp' = BiquadUpdateLim(comp, i_target, va)
            /\ ccr' = ToRegister(va)
    /\ fault_clear' = TRUE

(* Mutants of Shut: the compensator keeps its history; the driver is left  *)
(* on.                                                                     *)
ShutM ==
    /\ fault_clear' = FALSE
    /\ ccr' = 0
    /\ UNCHANGED <<comp, frVars>>

ShutPinM ==
    /\ ccr' = 0
    /\ comp' = Rest
    /\ UNCHANGED <<fault_clear, frVars>>

Shut ==
    /\ fault_clear' = FALSE
    /\ ccr' = 0
    /\ comp' = Rest
    /\ UNCHANGED frVars

Control ==
    /\ isr = "control"
    /\ isr' = "idle"
    /\ \/ enabled /\ Drive
       \/ ~enabled /\ Shut
    /\ UNCHANGED <<cmdVars, adcVars, errVars>>

Isr == ReadSamples \/ ReadFlag \/ ClearFlag \/ Control

MCNext ==
    \/ \E b \in BOOLEAN : StoreEnabled(b)
    \/ \E t \in Targets : StoreTarget(t)
    \/ Task
    \/ Period
    \/ ConversionDone
    \/ Isr

MCSpec == MCInit /\ [][MCNext]_mcVars

(* Timer, converter and interrupt are hardware driven and never stop.  The *)
(* task has the lowest priority but for the idle thread, and runs whenever *)
(* the interrupt has returned and the other threads sleep, as they do.     *)
MCFairSpec ==
    /\ MCSpec
    /\ WF_mcVars(Period) /\ WF_mcVars(ConversionDone) /\ WF_mcVars(Isr)
    /\ SF_mcVars(Task)

-----------------------------------------------------------------------------
Classes == {"finite", "infinite", "nan"}

MCTypeOK ==
    /\ FRTypeOK
    /\ enabled \in BOOLEAN /\ i_target \in Classes
    /\ converting \in BOOLEAN /\ jeoc \in BOOLEAN /\ fresh \in BOOLEAN
    /\ pending \in BOOLEAN /\ isr \in {"idle", "flag", "clear", "control"}
    /\ error_count \in 0..(ErrorMod - 1) /\ missed \in 0..(ErrorMod - 1)
    /\ raced \in BOOLEAN
    /\ comp \in [in1 : Classes, in2 : Classes, out1 : Int, out2 : Int]
    /\ ccr \in Int /\ fault_clear \in BOOLEAN

(* Whatever target arrives, the register holds no more than                *)
(* max_duty_count and the outputs BiquadUpdateLim feeds back stay within   *)
(* the limits, so an infinite or NaN target is forgotten two iterations    *)
(* after a finite one replaces it.                                         *)
BoundedDrive ==
    /\ ccr \in 0..MaxDuty
    /\ comp.out1 \in -MaxDuty..MaxDuty
    /\ comp.out2 \in -MaxDuty..MaxDuty

(* A NaN error makes MIN(MAX(out_raw, lim_low), lim_high) the low limit:   *)
(* the motor is not driven.                                                *)
NaNDoesNotDrive == comp.in1 = "nan" => ccr = 0

(* While the PWM driver is off its duty is zero and the compensator has no *)
(* history: it restarts from rest, without windup.                         *)
OffIsRest == ~fault_clear => ccr = 0 /\ comp = Rest

(* error_count counts the cycles in which MotorControlCb was given no new  *)
(* ADC value, and only those, as long as no conversion ends between the    *)
(* read of JDR1 (main.c:43) and ADC1->SR = 0 (motor_control.c:90).         *)
ErrorCountExact ==
    ~raced /\ isr \in {"idle", "control"} => error_count = missed

(* A motor that stays disabled is switched off.                            *)
DisableTakesEffect == ~enabled ~> (enabled \/ ~fault_clear)

(* Task and interrupt never wait for each other: while the motor stays     *)
(* enabled every frequency is measured again and again.                    *)
SweepGoesOn == <>[]enabled => \A k \in 1..NFreq : []<>(result.freq = k)
=============================================================================
