----------------------------- MODULE MCCodings ------------------------------
(* Instances for TLC of the codings: JSON, base64, the fields of an HTTP   *)
(* header, and rational numbers.  A behaviour is of one of the four.       *)
EXTENDS MCJson, Base64, Header, Rational

VARIABLE task

MCMessages == [bytes : BoundedSeq({0, 77, 178, 255}, 4), wrap : {0, 3, 4}, pad : BOOLEAN]
MCCodes == [code : BoundedSeq({5, 62, PadChar, NewLine, InvalidChar}, 5), pad : BOOLEAN]

\* Lines of a header: k:v, K: w with a blank, k:, k: , and Set-Cookie twice;
\* an indented one, one without a colon, an empty one, and m:v: .
KLines == {<<107, 58, 118>>, <<75, 58, 32, 119, 32, 13>>, <<107, 58>>}
MCLines == KLines \cup {SetCookie \o <<58, 118>>, toupper(SetCookie) \o <<58, 32>>,
                        <<32, 107, 58, 118>>, <<107, 118>>, <<13>>, <<109, 58, 118, 58, 9, 13>>}
MCInputs == BoundedSeq(MCLines, 2)
MCAdditions == {<<<<75>>, <<32, 118>>>>, <<<<109>>, <<>>>>, <<SetCookie, <<118>>>>}

MCOperands == [positive : BOOLEAN, numerator : {0, 1, 6, 15}, denominator : {0, 1, 4, 9}]

\* What the machines at rest start from.
JsonRest == job = [type |-> Tiny, old |-> 2, text |-> <<Zero + 1>>]
Base64Rest == source = [code |-> <<>>, pad |-> TRUE]
RationalRest == r = Triple(TRUE, 0, 1)

MCInit ==
  \/ task = "json" /\ Base64Rest /\ RationalRest /\ Base64Init /\ RationalInit /\ HeaderInit /\ Init
  \/ task = "base64" /\ JsonRest /\ RationalRest /\ Init /\ RationalInit /\ HeaderInit /\ Base64Init
  \/ task = "header" /\ JsonRest /\ Base64Rest /\ RationalRest /\ Init /\ Base64Init /\ RationalInit
                     /\ HeaderInit
  \/ task = "rational" /\ JsonRest /\ Base64Rest /\ Init /\ Base64Init /\ HeaderInit /\ RationalInit

MCNext ==
  /\ task' = task
  /\ \/ task = "json" /\ Next /\ UNCHANGED <<base64Vars, headerVars, rationalVars>>
     \/ task = "base64" /\ Base64Next /\ UNCHANGED <<vars, headerVars, rationalVars>>
     \/ task = "header" /\ HeaderNext /\ UNCHANGED <<vars, base64Vars, rationalVars>>
     \/ task = "rational" /\ RationalNext /\ UNCHANGED <<vars, base64Vars, headerVars>>

MCSpec == MCInit /\ [][MCNext]_<<vars, base64Vars, headerVars, rationalVars, task>>
=============================================================================
