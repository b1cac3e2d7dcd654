-------------------------------- MODULE Utf8 --------------------------------
(***************************************************************************)
(* yu/utf8.hpp: encode() and the Decoder, on sequences of bytes, and the   *)
(* table of well-formed byte sequences of the Unicode standard, which the  *)
(* code does not use.                                                      *)
(***************************************************************************)
EXTENDS Naturals, Sequences

Surrogate(cp) == cp \in 55296 .. 57343          \* U+D800 .. U+DFFF
MaxCodePoint == 1114111                         \* U+10FFFF
Replacement == 65533                            \* U+FFFD

Continuation(bits) == 128 + (bits % 64)

\* encode() of a code point; it throws for anything else.
Encode(cp) ==
  CASE cp < 128   -> <<cp>>
    [] cp \in 128 .. 2047 -> <<192 + cp \div 64, Continuation(cp)>>
    [] cp \in 2048 .. 65535 ->
         <<224 + cp \div 4096, Continuation(cp \div 64), Continuation(cp)>>
    [] OTHER -> <<240 + cp \div 262144, Continuation(cp \div 4096),
                  Continuation(cp \div 64), Continuation(cp)>>

\* count_leading_ones(); the code makes no difference between 5 and more.
LeadingOnes(byte) ==
  CASE byte < 128 -> 0 [] byte \in 128 .. 191 -> 1 [] byte \in 192 .. 223 -> 2
    [] byte \in 224 .. 239 -> 3 [] byte \in 240 .. 247 -> 4 [] OTHER -> 5

\* The bits of the n bytes of s from i on.
Bits(s, i, n) ==
  CASE n = 2 -> (s[i] % 64) * 64 + (s[i + 1] % 64)
    [] n = 3 -> (s[i] % 32) * 4096 + (s[i + 1] % 64) * 64 + (s[i + 2] % 64)
    [] n = 4 -> (s[i] % 16) * 262144 + (s[i + 1] % 64) * 4096
                + (s[i + 2] % 64) * 64 + (s[i + 3] % 64)

\* The least code point n bytes are for.
Least(n) == CASE n = 2 -> 128 [] n = 3 -> 2048 [] n = 4 -> 65536

\* decode(): the code point at s[i], whether it is invalid_ for an error, and
\* where the next one starts.  A byte that breaks a character off is consumed.
Decode(s, i) ==
  LET n == LeadingOnes(s[i])
      broken == {j \in i + 1 .. i + n - 1 : j > Len(s) \/ LeadingOnes(s[j]) # 1}
      Bad(next) == [cp |-> Replacement, error |-> TRUE, next |-> next]
  IN CASE n = 0 -> [cp |-> s[i], error |-> FALSE, next |-> i + 1]
       [] n \in {1, 5} -> Bad(i + 1)
       [] n \in 2 .. 4 /\ broken # {} ->
            LET j == CHOOSE j \in broken : \A k \in broken : j <= k
            IN Bad(IF j > Len(s) THEN j ELSE j + 1)
       [] n \in 2 .. 4 /\ broken = {} ->
            LET cp == Bits(s, i, n) IN
            IF cp < Least(n) \/ Surrogate(cp) \/ cp > MaxCodePoint THEN Bad(i + n)
            ELSE [cp |-> cp, error |-> FALSE, next |-> i + n]

\* What next() returns, call after call, until has_next() is false.
CodePoints(s) ==
  LET from[i \in 1 .. Len(s) + 1] ==
        IF i > Len(s) THEN <<>>
        ELSE LET d == Decode(s, i) IN <<d.cp>> \o from[d.next]
  IN from[1]

-----------------------------------------------------------------------------
(* The table of well-formed byte sequences.                                *)

WellFormedChar(b) ==
  /\ \A k \in 2 .. Len(b) : b[k] \in 128 .. 191
  /\ \/ Len(b) = 1 /\ b[1] \in 0 .. 127
     \/ Len(b) = 2 /\ b[1] \in 194 .. 223
     \/ /\ Len(b) = 3 /\ b[1] \in 224 .. 239
        /\ (b[1] = 224 => b[2] >= 160) /\ (b[1] = 237 => b[2] <= 159)
     \/ /\ Len(b) = 4 /\ b[1] \in 240 .. 244
        /\ (b[1] = 240 => b[2] >= 144) /\ (b[1] = 244 => b[2] <= 143)

WellFormed(s) ==
  LET from[i \in 1 .. Len(s) + 1] ==
        \/ i > Len(s)
        \/ \E j \in i .. (IF i + 3 <= Len(s) THEN i + 3 ELSE Len(s)) :
             WellFormedChar(SubSeq(s, i, j)) /\ from[j + 1]
  IN from[1]
=============================================================================
