------------------------------ MODULE MCMotor -------------------------------
EXTENDS MotorControl

(* Two frequencies, the second with a single sample.                       *)
MCSamples == [k \in 1..2 |-> IF k = 1 THEN 2 ELSE 1]
=============================================================================
