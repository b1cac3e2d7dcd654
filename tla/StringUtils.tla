---------------------------- MODULE StringUtils -----------------------------
(***************************************************************************)
(* The functions of yu/string/utils.hpp that the HTTP headers use.  A      *)
(* string is the sequence of its characters' codes.                        *)
(***************************************************************************)
EXTENDS Integers, Sequences, FiniteSetsExt, SequencesExt

NotOf(str, spaces) == {n \in DOMAIN str : str[n] \notin spaces}

rstrip(str, spaces) ==
  IF NotOf(str, spaces) = {} THEN <<>> ELSE SubSeq(str, 1, Max(NotOf(str, spaces)))

strip(str, spaces) ==
  IF NotOf(str, spaces) = {} THEN <<>>
  ELSE SubSeq(str, Min(NotOf(str, spaces)), Max(NotOf(str, spaces)))

\* At most max_tokens tokens; none given, as many as str has characters.
split(str, delim, max_tokens) ==
  LET most == IF max_tokens = 0 THEN Len(str) ELSE max_tokens
      delims == SelectSeq([n \in DOMAIN str |-> n], LAMBDA n : str[n] = delim)
      cuts == Min({Len(delims), Max({most - 1, 0})})
      cut(n) == IF n = 0 THEN 0 ELSE IF n > cuts THEN Len(str) + 1 ELSE delims[n]
  IN [n \in 1 .. cuts + 1 |-> SubSeq(str, cut(n - 1) + 1, cut(n) - 1)]

join(strs, delim) ==
  FlattenSeq([n \in DOMAIN strs |-> IF n = 1 THEN strs[n] ELSE delim \o strs[n]])

toupper(str) == [n \in DOMAIN str |-> IF str[n] \in 97 .. 122 THEN str[n] - 32 ELSE str[n]]

\* icompare(lhs, rhs) < 0, and = 0.
iless(lhs, rhs) ==
  LET l == toupper(lhs) r == toupper(rhs) IN
  \E n \in 0 .. Min({Len(l), Len(r)}) :
    /\ \A m \in 1 .. n : l[m] = r[m]
    /\ IF n = Len(l) THEN Len(l) < Len(r) ELSE n < Len(r) /\ l[n + 1] < r[n + 1]
iequal(lhs, rhs) == toupper(lhs) = toupper(rhs)
=============================================================================
