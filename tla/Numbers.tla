------------------------------- MODULE Numbers --------------------------------
(***************************************************************************)
(* How pdfgrep reads numbers: parse_int() and the strtoul() of pdfgrep.cc, *)
(* the stoi() of intervals.cc.  A string is what these functions tell      *)
(* apart: whether it has digits, a minus sign in front of them, the number *)
(* they write, and whether anything that is not a digit follows.           *)
(***************************************************************************)
EXTENDS Integers

CONSTANTS IntMax, LongMax  \* INT_MAX and LONG_MAX

ASSUME WordsAssumption == IntMax \in Nat /\ LongMax \in Nat /\ IntMax <= LongMax

IntMin == -IntMax - 1
ULongMax == 2 * LongMax + 1
UIntMax == 2 * IntMax + 1

NumberText ==
  {t \in [digits: BOOLEAN, negative: BOOLEAN, magnitude: Nat, junk: BOOLEAN] :
     ~t.digits => ~t.negative /\ t.magnitude = 0}
\* The number that is written, for a reader.
Written(t) == IF t.negative THEN -t.magnitude ELSE t.magnitude

\* The conversion of d, an unsigned integer, to a signed one with the maximum max.
ToSigned(d, max) == IF d > max THEN d - 2 * (max + 1) ELSE d

\* strtoul(): a minus sign negates in the unsigned type; errno tells of a number
\* that is too large, and ULONG_MAX is returned.
Overflows(t) == t.magnitude > ULongMax
Strtoul(t) ==
  IF Overflows(t) THEN ULongMax
  ELSE IF t.negative /\ t.magnitude > 0 THEN ULongMax + 1 - t.magnitude
  ELSE t.magnitude

\* (mutant) what follows the digits is not looked at.
parse_int_prefix(t) ==
  {v \in {ToSigned(Strtoul(t), LongMax)} : ~Overflows(t) /\ IntMin <= v /\ v <= IntMax}

\* The number, or none if the string is rejected.  The empty string is 0.
parse_int(t) ==
  {v \in {ToSigned(Strtoul(t), LongMax)} :
     ~Overflows(t) /\ ~t.junk /\ IntMin <= v /\ v <= IntMax}

\* stoi(): the number, or the exception; what follows the digits is ignored.
Stoi(t) ==
  IF ~t.digits THEN [outcome |-> "invalid_argument", value |-> 0]
  ELSE IF Written(t) < IntMin \/ Written(t) > IntMax
       THEN [outcome |-> "out_of_range", value |-> 0]
  ELSE [outcome |-> "number", value |-> Written(t)]

\* (mutant) the unsigned number.
LimitUnsigned(t) == Strtoul(t) % (UIntMax + 1)
\* PDFGREP_CACHE_LIMIT: unsigned long to unsigned int to int, nothing is checked.
LimitOf(t) == ToSigned(Strtoul(t) % (UIntMax + 1), IntMax)
=============================================================================
