------------------------------ MODULE MCCipher ------------------------------
(* Instances for TLC of the cipher streams, of the cipher behind them, of  *)
(* the digest streams and of the password digests made with those.  A      *)
(* behaviour is of one of the four.                                        *)
EXTENDS CipherStream, Blowfish, Sha2Stream, Bcrypt, Bitwise

VARIABLE task

MCInitSubkey == [n \in 0 .. Rounds + 1 |-> (7 * n + 3) % 16]
MCInitSbox == [b \in 1 .. 4 |-> [n \in 0 .. ByteBase - 1 |-> (5 * b + 11 * n) % 16]]
MCXor(a, b) == a ^^ b
MCKeys == {<<1>>, <<0, 1>>, <<1, 0, 1>>, <<0, 1, 1, 0, 1>>}

\* Settings with and without rounds: too few, too many, no number, no "$"; with
\* salts that are empty, too long, or look like a setting themselves.
MCRounds == {<<>>, <<RoundsPrefix>>, <<RoundsPrefix, Dollar>>, <<RoundsPrefix, <<"num", 2>>>>}
            \cup {<<RoundsPrefix, <<"num", n>>, Dollar>> : n \in {0, 3, 9}}
Char(n) == <<"c", n>>
MCSalts == {<<>>, <<Char(1)>>, <<Char(1), Char(2), Char(3), Char(4)>>, <<Dollar>>,
            <<Char(1), Dollar, Char(2), Char(3)>>, <<RoundsPrefix, <<"num", 2>>, Dollar, Char(1)>>}
MCSettings == {r \o s : r \in MCRounds, s \in MCSalts}
MCPasswords == {<<p, n>> : p \in {"p", "q"}, n \in 0 .. 6}

\* What the machines at rest start from.
CipherRest == mode = [cipher |-> "stream", padding |-> "none",
                      encoder |-> "ostream", decoder |-> "ostream"] /\ len = 0
BlowfishRest == key = <<1>>
BcryptRest == password = <<"p", 0>>

MCInit ==
  /\ Init /\ BlowfishInit /\ ShaInit /\ BcryptInit
  /\ \/ task = "streams" /\ BlowfishRest /\ BcryptRest
     \/ task = "blowfish" /\ CipherRest /\ BcryptRest
     \/ task = "sha2" /\ CipherRest /\ BlowfishRest /\ BcryptRest
     \/ task = "bcrypt" /\ CipherRest /\ BlowfishRest

MCNext ==
  /\ task' = task
  /\ \/ task = "streams" /\ Next /\ UNCHANGED <<blowfishVars, shaVars, bcryptVars>>
     \/ task = "blowfish" /\ BlowfishNext /\ UNCHANGED <<vars, shaVars, bcryptVars>>
     \/ task = "sha2" /\ ShaNext /\ UNCHANGED <<vars, blowfishVars, bcryptVars>>
     \/ task = "bcrypt" /\ BcryptNext /\ UNCHANGED <<vars, blowfishVars, shaVars>>

MCSpec == MCInit /\ [][MCNext]_<<vars, blowfishVars, shaVars, bcryptVars, task>>
=============================================================================
