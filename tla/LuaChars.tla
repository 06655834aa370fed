------------------------------ MODULE LuaChars ------------------------------
(***************************************************************************)
(* Characters and tokens.  A character is a one-letter string that stands  *)
(* for its class: "e" is the letter of exponents, "a" that of the escape   *)
(* \a, "x" that of hexadecimal numbers.                                    *)
(***************************************************************************)
EXTENDS Integers, Sequences, FiniteSets, TLC

CONSTANT Reserved     \* the reserved words

EOZ == "EOZ"
Newlines == {"\n", "\r"}
Digits == {"1", "9"}
Letters == {"a", "e", "x"}
Initials == Letters \cup {"_"}   \* of names
Alnum == Digits \cup Initials
Quotes == {"'"}
Backslash == "\\"
Space == " "       \* any space

Bell == "bell"
Byte(v) == "byte" \o ToString(v)
UCHAR_MAX == 255

TK_EOS == "<eof>"
Token(kind, value, line) == [kind |-> kind, value |-> value, line |-> line]

DigitValue(d) == IF d = "1" THEN 1 ELSE 9
Decimal(digits) ==
  LET upTo[j \in 0 .. Len(digits)] ==
        IF j = 0 THEN 0 ELSE 10 * upTo[j - 1] + DigitValue(digits[j])
  IN upTo[Len(digits)]

\* oStr2d: strconv takes decimal numbers, and a final x makes one hexadecimal.
AllIn(s, S) == \A j \in DOMAIN s : s[j] \in S
Mantissa(s) == /\ AllIn(s, Digits \cup {"."}) /\ \E j \in DOMAIN s : s[j] \in Digits
               /\ Cardinality({ j \in DOMAIN s : s[j] = "." }) <= 1
Exponent(s) == \/ s = <<>>
               \/ /\ s[1] = "e"
                  /\ \E first \in {2, 3} : /\ first <= Len(s) /\ (first = 3 => s[2] = "-")
                                           /\ AllIn(SubSeq(s, first, Len(s)), Digits)
IsNumber(s) ==
  IF s[Len(s)] = "x"
  THEN Len(s) > 1 /\ AllIn(SubSeq(s, 1, Len(s) - 1), Digits \cup {"a", "e"})
  ELSE \E j \in 1 .. Len(s) : Mantissa(SubSeq(s, 1, j)) /\ Exponent(SubSeq(s, j + 1, Len(s)))
=============================================================================
