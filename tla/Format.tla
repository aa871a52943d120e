------------------------------- MODULE Format -------------------------------
(***************************************************************************)
(* Numbers as text, in the kernel (u64_to_dec, u64_to_hex,                 *)
(* fb_print_number) and in the user library (utoa_base, itoa_signed), and  *)
(* the walk of printf over its format.                                     *)
(*                                                                         *)
(* A long has Bits bits for 64, and the arrays shrink with it: tmp[32]     *)
(* holds Bits \div 2 digits, temp[21] one more than a long can have.       *)
(* Digits are numbers, the sign is Minus.  A format is a sequence of       *)
(* characters that a NUL follows.                                          *)
(***************************************************************************)
EXTENDS Integers, Sequences, SequencesExt

CONSTANTS Bits,
          Formats,         \* formats of any kind
          MaxPieces        \* bound: pieces of a correct format

VARIABLES value, base,     \* the number that is printed, and utoa_base's argument
          fmt, pos,        \* printf's format and position in it
          args,            \* how many arguments va_arg has taken
          want             \* how many a correct format asks for, or Unknown

vars == <<value, base, fmt, pos, args, want>>

Top == 2 ^ Bits
Minus == -1
Overrun == <<-2>>
Unknown == -1
-----------------------------------------------------------------------------
(* Numbers.                                                                *)

\* The loop "tmp[i++] = value % base; value /= base": least digit first.
LowDigits(v, b) ==
  LET loop[n \in 0 .. v] == IF n = 0 THEN <<>> ELSE <<n % b>> \o loop[n \div b]
  IN  loop[v]

\* More digits than tmp holds overwrite what lies behind it: nothing is known of
\* the result then.
TmpSize == Bits \div 2
utoa_base(v, b) ==
  IF b < 2 \/ b > 16 THEN <<>>
  ELSE IF v = 0 THEN <<0>>
  ELSE LET tmp == LowDigits(v, b) IN IF Len(tmp) > TmpSize THEN Overrun ELSE Reverse(tmp)

\* Of a number read as signed; -value of the least number is that number again.
\* Mutant: the absolute value is taken in a signed type that cannot hold it.
AbsCapped(s) == IF -s > Top \div 2 - 1 THEN Top \div 2 - 1 ELSE -s
Abs(s) == (-s) % Top
Signed(v) == IF v >= Top \div 2 THEN v - Top ELSE v
itoa_signed(s) == IF s < 0 THEN <<Minus>> \o utoa_base(Abs(s), 10) ELSE utoa_base(s, 10)

TempSize == 4
u64_to_dec(v) ==
  IF v = 0 THEN <<0>>
  ELSE LET all == LowDigits(v, 10)
       IN  Reverse(SubSeq(all, 1, IF Len(all) < TempSize THEN Len(all) ELSE TempSize))

u64_to_hex(v) == [i \in 1 .. Bits \div 4 |-> (v \div 16 ^ (Bits \div 4 - i)) % 16]
-----------------------------------------------------------------------------
(* printf, one turn of its loop at a time.                                 *)

\* Reading behind the NUL gives whatever lies there.
At(p) == IF p <= Len(fmt) THEN {fmt[p]} ELSE IF p = Len(fmt) + 1 THEN {"NUL"} ELSE {"%", "d", "NUL"}

Long(p) ==
  UNION {IF c = "d" THEN {[last |-> p, args |-> 1]}
         ELSE IF c = "l" THEN {[last |-> p + 1, args |-> IF d = "d" THEN 1 ELSE 0] : d \in At(p + 1)}
         ELSE {[last |-> p, args |-> 0]} : c \in At(p)}
Directive(p) ==
  UNION {IF c = "l" THEN Long(p + 1)
         ELSE {[last |-> p, args |-> IF c \in {"s", "d", "x"} THEN 1 ELSE 0]} : c \in At(p)}

Turn ==
  /\ \E c \in At(pos) :
       /\ c # "NUL"
       /\ \E t \in IF c = "%" THEN Directive(pos + 1) ELSE {[last |-> pos, args |-> 0]} :
            pos' = t.last + 1 /\ args' = args + t.args
  /\ pos <= Len(fmt) + 1       \* bound: behind the end one turn is enough
  /\ UNCHANGED <<value, base, fmt, want>>

\* What a caller of printf may write, and the arguments that go with it.
Pieces ==
  [text : {<<"c">>, <<"d">>, <<"l">>, <<"%", "%">>}, args : {0}]
    \cup [text : {<<"%", "d">>, <<"%", "l", "d">>, <<"%", "l", "l", "d">>}, args : {1}]
Correct == UNION {[1 .. n -> Pieces] : n \in 0 .. MaxPieces}

Init ==
  /\ \/ value \in 0 .. Top - 1 /\ base \in 0 .. 17 /\ fmt = <<>> /\ want = 0
     \/ value = 0 /\ base = 10 /\ fmt \in Formats /\ want = Unknown
     \/ value = 0 /\ base = 10 /\ \E ps \in Correct :
          /\ fmt = FlattenSeq([i \in DOMAIN ps |-> ps[i].text])
          /\ want = Len(SelectSeq(ps, LAMBDA p : p.args = 1))
  /\ pos = 1 /\ args = 0

Spec == Init /\ [][Turn]_vars
-----------------------------------------------------------------------------
\* printf never goes further than the character behind the NUL.
TypeOK == value \in 0 .. Top - 1 /\ base \in 0 .. 17 /\ pos \in 1 .. Len(fmt) + 2 /\ args \in Nat

\* What digits mean.
Meaning(ds, b) ==
  LET sum[i \in 0 .. Len(ds)] == IF i = 0 THEN 0 ELSE sum[i - 1] * b + ds[i] IN sum[Len(ds)]
Numeral(ds, b, v) ==
  ds # <<>> /\ (\A i \in 1 .. Len(ds) : ds[i] \in 0 .. b - 1) /\ Meaning(ds, b) = v

\* Every number is printed as a numeral of that number, the least negative one
\* included, in decimal and by utoa_base without leading zeros.  temp[21] cuts
\* none off.  tmp[32] is enough in every base from 4 on; in bases 2 and 3, which
\* utoa_base accepts and nobody uses, only for numbers of as many digits.
NumbersRight ==
  /\ base \in 2 .. 16 /\ (base >= 4 \/ value < base ^ TmpSize) =>
       /\ Numeral(utoa_base(value, base), base, value)
       /\ value # 0 => utoa_base(value, base)[1] # 0
  /\ LET s == Signed(value)
         ds == itoa_signed(s)
     IN  IF s < 0 THEN ds[1] = Minus /\ Numeral(Tail(ds), 10, -s) ELSE Numeral(ds, 10, s)
  /\ Numeral(u64_to_dec(value), 10, value) /\ (value # 0 => u64_to_dec(value)[1] # 0)
  /\ Numeral(u64_to_hex(value), 16, value)

\* printf walks a format of plain characters and of the directives it knows to
\* its NUL and not behind it, and takes an argument for each directive: none is
\* skipped, so that every number is printed by the directive meant for it.
StaysInside ==
  want # Unknown => pos <= Len(fmt) + 1 /\ (pos = Len(fmt) + 1 => args = want)
=============================================================================
