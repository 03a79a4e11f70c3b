------------------------------ MODULE DigitSerial ------------------------------
(***************************************************************************)
(* One digit position of the TMC0501's digit-serial adder                  *)
(* (Core/TMC0501.cpp, alu()): the raw sum of two digits and the incoming   *)
(* carry in an 8-bit variable, the carry out, and the BCD correction.      *)
(* Digit 0 is hexadecimal, digits 1 to 15 are decimal.                     *)
(***************************************************************************)
EXTENDS Integers

\* enum { ALU_ADD, ALU_SHL, ALU_SUB, ALU_SHR }: SUB and SHR complement srcY.
ADD == 0
SHL == 1
SUB == 2
SHR == 3
Complements(op) == op >= SUB
Shifts(op) == op % 2 = 1

\* sum = srcY[i] (+ constant) + carry, negated for SUB and SHR, + srcX[i].
RawSum(op, x, y, c) == (x + (IF Complements(op) THEN -(y + c) ELSE y + c)) % 256

\* Mutant of CarryOut: the decimal comparison is off by one.
CarryOutLate(i, s) == IF i = 0 THEN s >= 16 ELSE s > 10
CarryOut(i, s) == IF i = 0 THEN s >= 16 ELSE s >= 10

Corrected(op, i, s) ==
  IF ~CarryOut(i, s) THEN s
  ELSE IF i = 0 THEN s % 16
  ELSE IF Complements(op) THEN (s + 10) % 256
  ELSE s - 10
================================================================================
