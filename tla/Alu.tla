---------------------------------- MODULE Alu ----------------------------------
(***************************************************************************)
(* The TMC0501's arithmetic as pure operators: the field masks, the        *)
(* digit-serial loop of alu() over 16 positions, exchanges, and the        *)
(* decoding of an ALU opcode's sources.  A register is a function from     *)
(* digit positions to digits, a number is 16 bits; TMC0501 uses them.      *)
(***************************************************************************)
EXTENDS DigitSerial, Sequences

Pos == 0..15
Zeros == [i \in Pos |-> 0]

\* Bit k of n; the w bits of n from lo; n with those bits replaced by v's.
Bit(n, k) == (n \div 2^k) % 2 = 1
Bits(n, lo, w) == (n \div 2^lo) % 2^w
PutBits(n, lo, w, v) == n + ((v % 2^w) - Bits(n, lo, w)) * 2^lo

\* a | b, of numbers of w bits: what a lacks of b's bits is added to it.
BitOr(a, b, w) ==
  LET or[k \in 0..w] ==
        IF k = 0 THEN a ELSE or[k - 1] + (IF Bit(b, k - 1) /\ ~Bit(a, k - 1) THEN 2^(k - 1) ELSE 0)
  IN or[w]

\* Rows of mask_info: field [first, last], position and value of the constant.
\* Rows 0, 8 and 10 belong to the flag, keyboard and wait opcodes: no field.
MaskInfo(n) ==
  LET Rows == << <<255, 0, 0, 0>>, <<0, 15, 0, 0>>, <<0, 0, 0, 0>>,   <<0, 0, 0, 1>>,
                 <<0, 0, 0, 12>>,  <<3, 3, 3, 1>>,  <<1, 2, 1, 0>>,   <<1, 2, 1, 1>>,
                 <<255, 0, 0, 0>>, <<3, 15, 3, 0>>, <<255, 0, 0, 0>>, <<3, 15, 3, 5>>,
                 <<1, 15, 1, 0>>,  <<1, 15, 3, 1>>, <<1, 15, 15, 1>>, <<1, 15, 1, 1>> >>
      row == Rows[n + 1]
  IN [start |-> row[1], end |-> row[2], cpos |-> row[3], cval |-> row[4]]

InField(m, i) == m.start <= i /\ i <= m.end

(***************************************************************************)
(* alu(): x and y are registers (Zeros for a null operand), dst is what    *)
(* the destination holds before.  The loop's carry and shifted digit start *)
(* anew at the first digit of the field.                                   *)
(***************************************************************************)
Addend(y, m) == [y EXCEPT ![m.cpos] = BitOr(@, m.cval, 4)]
Sums(x, addend, m, op) ==
  LET carry(i, before) == IF i \in {0, m.start} \/ ~CarryOut(i - 1, before) THEN 0 ELSE 1
      sum[i \in Pos] == RawSum(op, x[i], addend[i], carry(i, IF i = 0 THEN 0 ELSE sum[i - 1]))
  IN sum
Shown(dst, x, addend, sum, m, op) ==
  LET digit(i) == Corrected(op, i, sum[i])
      into(i) == CASE op = SHL -> IF i = m.start THEN 0 ELSE digit(i - 1)
                   [] op = SHR -> IF i = m.end THEN 0 ELSE BitOr(addend[i + 1], x[i + 1], 4)
                   [] OTHER    -> digit(i)
  IN [dst  |-> [i \in Pos |-> IF InField(m, i) THEN into(i) ELSE dst[i]],
      sout |-> [i \in Pos |-> IF InField(m, i) THEN sum[i] % 16 ELSE 0],
      r5   |-> IF InField(m, m.cpos) THEN {digit(m.cpos)} ELSE {},
      overflow |-> InField(m, m.end) /\ ~Shifts(op) /\ CarryOut(m.end, sum[m.end])]
Alu(dst, x, y, m, op) ==
  LET addend == Addend(y, m) IN Shown(dst, x, addend, Sums(x, addend, m, op), m, op)

\* xch(): the field of a and b changes places.
Exchanged(a, b, m) == [i \in Pos |-> IF InField(m, i) THEN b[i] ELSE a[i]]

\* readRegMasked(), readScomMasked(): the field of a register, zero elsewhere.
Masked(src, m) == [i \in Pos |-> IF InField(m, i) THEN src[i] ELSE 0]

\* execALU(): operations 0 to 23 name two sources (none: Zeros) and an ALU mode.
Source(idx) ==
  LET pair == << <<"A", "-">>, <<"-", "B">>, <<"C", "-">>, <<"-", "D">> >>
      both == << <<"A", "B">>, <<"C", "B">>, <<"C", "D">>, <<"A", "D">> >>
  IN CASE idx < 16 -> pair[(idx % 8) \div 2 + 1]
       [] idx \in 16..23 -> both[(idx - 16) \div 2 + 1]
       [] OTHER -> <<"-", "-">>
Mode(idx) ==
  CASE idx < 8 \/ idx \in 16..23 -> IF idx % 2 = 0 THEN ADD ELSE SUB
    [] idx \in 8..15             -> IF idx % 2 = 0 THEN SHL ELSE SHR
    [] OTHER                     -> ADD

\* Row of the constant memory: KR bits 4-6 and 8-11, row 0 beyond the 64.
ConstantRow(kr) == LET row == Bits(kr, 8, 4) * 8 + Bits(kr, 4, 3)
                   IN IF row >= 64 THEN 0 ELSE row

(***************************************************************************)
(* What the loop must compute: numbers of the field's width.  The carry of *)
(* one digit into the next is what alu() gets right or wrong.  Numbers of  *)
(* 16 digits are compared by their residues: below 10^20, equal residues   *)
(* for all of the moduli, pairwise coprime, mean equal numbers.            *)
(***************************************************************************)
Moduli == {99999989, 99999971, 9973}
Number(r, first, last, p) ==
  LET from[i \in first..(last + 1)] == IF i > last THEN 0 ELSE (r[i] + 10 * from[i + 1]) % p
  IN from[first]

\* Operands whose field is decimal and leaves out the hexadecimal digit 0,
\* where the constant of the mask is not or-ed into another digit.
DecimalOperands(x, y, m, op) ==
  /\ m.start \in 1..15
  /\ \A i \in m.start..m.end : x[i] \in 0..9 /\ y[i] \in 0..9
  /\ m.cval # 0 => y[m.cpos] = 0
  /\ (op = SHR /\ m.cval # 0) => x[m.cpos] = 0

\* x + y = result + carry * width, x = result + y - borrow * width; a shift
\* to the left drops digits off the top, one to the right the lowest digit.
\* Every digit of the result is decimal.
IsDecimal(x, y, m, op, result) ==
  LET carry == IF result.overflow THEN 1 ELSE 0
      last == m.end - m.start + 1
      addend == [y EXCEPT ![m.cpos] = @ + m.cval]
      Agrees(lost, p) ==
        LET n(r) == Number(r, m.start, m.end, p)
            width == Number([i \in 0..last |-> i \div last], 0, last, p)
        IN CASE op = ADD -> (n(x) + n(addend)) % p = (n(result.dst) + carry * width) % p
             [] op = SUB -> (n(x) + carry * width) % p = (n(result.dst) + n(addend)) % p
             [] op = SHL -> (10 * ((n(x) + n(addend)) % p)) % p = (n(result.dst) + lost * width) % p
             [] op = SHR -> (n(x) + n(addend)) % p = (10 * n(result.dst) + lost) % p
  IN /\ \A i \in m.start..m.end : result.dst[i] \in 0..9
     /\ \E lost \in 0..19 : \A p \in Moduli : Agrees(lost, p)
================================================================================
