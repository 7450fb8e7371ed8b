---------------------------- MODULE FreqResponse ----------------------------
(***************************************************************************)
(* The loop gain measurement: FreqResponse_Poll, run by _MCTask at the     *)
(* lowest priority, and FreqResponse_Update, run by the PWM interrupt,     *)
(* share one structure without a lock.  samples_remaining hands it over:   *)
(* zero gives it to the task, non-zero to the interrupt.                   *)
(*                                                                         *)
(* Sums are abstracted to the number of samples in them.  The interrupt    *)
(* can fall between any two groups of loads or stores of the task; the     *)
(* stores become visible in program order.                                 *)
(***************************************************************************)
EXTENDS Integers

CONSTANTS
    NFreq,     \* number of frequencies from f_min to f_max
    Samples    \* samples per frequency, (int)(fs / f * wavelengths)

ASSUME FreqAssumption ==
    /\ NFreq \in Nat \ {0}
    /\ Samples \in [1..NFreq -> Nat \ {0}]

VARIABLES
    poll,               \* program counter of FreqResponse_Poll
    f,                  \* fr->f, the number of the frequency; 0 before the first
    theta_increment,    \* the frequency it was computed from
    sum, exc_sum,       \* samples in sin_sum, cos_sum and in the exc sums
    norm,               \* normalization_factor, as the count it divides by
    samples_remaining,
    loaded,             \* the first half of the result, as read by the task
    result              \* the result last emitted, or the empty one

frVars == <<poll, f, theta_increment, sum, exc_sum, norm, samples_remaining,
            loaded, result>>

NoResult == [freq |-> 0, sum |-> 0, exc_sum |-> 0, norm |-> 0]

FRInit ==
    /\ poll = "check" /\ f = 0 /\ theta_increment = 0
    /\ sum = 0 /\ exc_sum = 0 /\ norm = 0 /\ samples_remaining = 0
    /\ loaded = 0 /\ result = NoResult

-----------------------------------------------------------------------------
(* FreqResponse_Poll                                                       *)

(* Mutant of PollCheck: the handover is not tested.                        *)
PollCheckM ==
    /\ poll = "check"
    /\ poll' = IF f >= 1 THEN "read" ELSE "next"
    /\ UNCHANGED <<f, theta_increment, sum, exc_sum, norm, samples_remaining,
                   loaded, result>>

PollCheck ==
    /\ poll = "check" /\ samples_remaining = 0
    /\ poll' = IF f >= 1 THEN "read" ELSE "next"
    /\ UNCHANGED <<f, theta_increment, sum, exc_sum, norm, samples_remaining,
                   loaded, result>>

(* real and imag, before exc_real and exc_imag.                            *)
PollRead ==
    /\ poll = "read"
    /\ loaded' = sum
    /\ poll' = "emit"
    /\ UNCHANGED <<f, theta_increment, sum, exc_sum, norm, samples_remaining,
                   result>>

PollEmit ==
    /\ poll = "emit"
    /\ result' = [freq |-> f, sum |-> loaded, exc_sum |-> exc_sum, norm |-> norm]
    /\ loaded' = 0
    /\ poll' = "next"
    /\ UNCHANGED <<f, theta_increment, sum, exc_sum, norm, samples_remaining>>

(* Mutant of PollNext: no progress from f_min.                             *)
PollNextM ==
    /\ poll = "next"
    /\ f' = 1
    /\ theta_increment' = f'
    /\ poll' = "zero"
    /\ UNCHANGED <<sum, exc_sum, norm, samples_remaining, loaded, result>>

(* Beyond f_max, or below f_min at the start, back to f_min.               *)
PollNext ==
    /\ poll = "next"
    /\ f' = IF f \in 1..(NFreq - 1) THEN f + 1 ELSE 1
    /\ theta_increment' = f'
    /\ poll' = "zero"
    /\ UNCHANGED <<sum, exc_sum, norm, samples_remaining, loaded, result>>

(* Mutant of PollZero: the sums of the excitation are not reset.           *)
PollZeroM ==
    /\ poll = "zero"
    /\ sum' = 0
    /\ poll' = "arm"
    /\ UNCHANGED <<f, theta_increment, exc_sum, norm, samples_remaining, loaded,
                   result>>

PollZero ==
    /\ poll = "zero"
    /\ sum' = 0 /\ exc_sum' = 0
    /\ poll' = "arm"
    /\ UNCHANGED <<f, theta_increment, norm, samples_remaining, loaded, result>>

PollArm ==
    /\ poll = "arm"
    /\ norm' = Samples[f]
    /\ poll' = "hand"
    /\ UNCHANGED <<f, theta_increment, sum, exc_sum, samples_remaining, loaded,
                   result>>

PollHand ==
    /\ poll = "hand"
    /\ samples_remaining' = Samples[f]
    /\ poll' = "check"
    /\ UNCHANGED <<f, theta_increment, sum, exc_sum, norm, loaded, result>>

FreqResponse_Poll ==
    \/ PollCheck \/ PollRead \/ PollEmit \/ PollNext \/ PollZero \/ PollArm
    \/ PollHand

(* FreqResponse_UpdateWithOffset, in the interrupt.                        *)
FreqResponse_Update ==
    /\ IF samples_remaining # 0
       THEN /\ sum' = sum + 1
            /\ exc_sum' = exc_sum + 1
            /\ samples_remaining' = samples_remaining - 1
       ELSE UNCHANGED <<sum, exc_sum, samples_remaining>>
    /\ UNCHANGED <<poll, f, theta_increment, norm, loaded, result>>

FRNext == FreqResponse_Poll \/ FreqResponse_Update

FRSpec == FRInit /\ [][FRNext]_frVars

-----------------------------------------------------------------------------
FRTypeOK ==
    /\ poll \in {"check", "read", "emit", "next", "zero", "arm", "hand"}
    /\ f \in 0..NFreq /\ theta_increment \in 0..NFreq
    /\ sum \in Nat /\ exc_sum \in Nat /\ loaded \in Nat /\ norm \in Nat
    /\ samples_remaining \in Nat
    /\ result \in [freq : 0..NFreq, sum : Nat, exc_sum : Nat, norm : Nat]

(* An emitted result consists of as many samples as its frequency asks     *)
(* for, as many in both pairs of sums, and is normalised by their number:  *)
(* none is lost and none of the frequency before is left in (by count;     *)
(* freq_response.c:20-52).                                                 *)
ResultExact ==
    result = NoResult \/
        /\ result.freq \in 1..NFreq
        /\ result.sum = Samples[result.freq]
        /\ result.exc_sum = Samples[result.freq]
        /\ result.norm = Samples[result.freq]

(* The task changes the shared structure only while the interrupt leaves   *)
(* it alone.                                                               *)
OneOwner == poll # "check" => samples_remaining = 0
=============================================================================
