------------------------------- MODULE Bcrypt -------------------------------
(***************************************************************************)
(* bcrypt_sha() and bcrypt_check() of yu/digest/bcrypt.hpp: a digest is    *)
(* made of a setting and a password, and checked against a password, which *)
(* makes it again from the setting found in its text.                      *)
(*                                                                         *)
(* A setting is a sequence of tokens <<kind, value>>: "rounds=", a number  *)
(* "num", a "$", or a character "c" of the salt, which may be made at      *)
(* "random"; each counts as one character.  A password is its name and its *)
(* size.  The hash functions are kept abstract: a hash is what went into   *)
(* it, where <<what, n>> are the first n bytes of the password, of the     *)
(* salt or of digest_b.                                                    *)
(***************************************************************************)
EXTENDS Integers, Sequences, SequencesExt, FiniteSetsExt

CONSTANTS HashSize,                 \* kBufSize: bytes of a hash (32 or 64)
          MaxSaltSize,              \* kMaxSaltSize (16)
          DefaultRound, MinRound, MaxRound,  \* 5000, 1000, 999999999
          Settings, Passwords       \* the arguments of the calls

Tokens == {"rounds=", "num", "$", "c", "random"} \X Nat

ASSUME BcryptAssumption ==
  /\ HashSize \in Nat \ {0} /\ MaxSaltSize \in Nat \ {0}
  /\ MinRound \in Nat /\ DefaultRound \in Nat /\ MaxRound \in Nat
  /\ MinRound <= DefaultRound /\ DefaultRound <= MaxRound
  /\ Settings \subseteq Seq(Tokens) /\ \A pw \in Passwords : pw[2] \in Nat

VARIABLES
  step,        \* where bcrypt_sha() is
  checking,    \* whether bcrypt_check() called it
  inputSalt, password,         \* its arguments
  salt, round, customRound,    \* its locals
  buf,         \* buf, as the pieces put into it
  i,           \* the i of the first loop, the n of the second, and the rounds made
  digest,      \* the digest made last
  madeOf,      \* the password it was made of
  answer       \* what bcrypt_check() returned: "none", "yes" or "no"

bcryptVars == <<step, checking, inputSalt, password, salt, round, customRound, buf,
                i, digest, madeOf, answer>>

RoundsPrefix == <<"rounds=", 0>>
Dollar == <<"$", 0>>
RandomSalt == [k \in 1 .. MaxSaltSize |-> <<"random", k>>]
NoDigest == [text |-> <<>>, hash |-> [buf |-> <<>>, salt |-> <<>>, password |-> <<>>, round |-> 0]]

BcryptInit ==
  /\ step = "idle" /\ checking = FALSE /\ inputSalt = <<>> /\ password \in Passwords
  /\ salt = <<>> /\ round = 0 /\ customRound = FALSE /\ buf = <<>> /\ i = 0
  /\ digest = NoDigest /\ madeOf = password /\ answer = "none"

Enter(setting, pw) ==
  /\ step' = "salt" /\ inputSalt' = setting /\ password' = pw
  /\ UNCHANGED <<salt, round, customRound, buf, i>>

\* bcrypt_sha256() or bcrypt_sha512(), from the program.
Make(setting, pw) ==
  /\ step = "idle" /\ digest = NoDigest
  /\ Enter(setting, pw)
  /\ checking' = FALSE /\ madeOf' = pw
  /\ UNCHANGED <<digest, answer>>

\* Mutant of Check: the setting is the text up to its first "$".
CheckFirstDollar(pw) ==
  /\ step = "idle" /\ digest # NoDigest /\ answer = "none"
  /\ Enter(SubSeq(digest.text, 1, SelectInSeq(digest.text, LAMBDA t : t = Dollar) - 1), pw)
  /\ checking' = TRUE
  /\ UNCHANGED <<digest, madeOf, answer>>

\* bcrypt_check(): the setting is the text up to its last "$".
Check(pw) ==
  /\ step = "idle" /\ digest # NoDigest /\ answer = "none"
  /\ Enter(Front(digest.text), pw)
  /\ checking' = TRUE
  /\ UNCHANGED <<digest, madeOf, answer>>

Truncated(s) == SubSeq(s, 1, Min({Len(s), MaxSaltSize}))
NumberAfterPrefix == IF Len(inputSalt) > 1 /\ inputSalt[2][1] = "num" THEN 1 ELSE 0

CustomSalt(p) == Truncated(SubSeq(inputSalt, p + 1, Len(inputSalt)))

\* The salt and the number of rounds; no number behind "rounds=" reads as zero.
ParseSalt ==
  LET custom == inputSalt # <<>> /\ Head(inputSalt) = RoundsPrefix
      p == 2 + NumberAfterPrefix
      given == IF custom THEN CustomSalt(p) ELSE Truncated(inputSalt) IN
  /\ step = "salt"
  /\ IF custom /\ (Len(inputSalt) < p \/ inputSalt[p] # Dollar)
     THEN \* throws "invalid salt"
          step' = "failed" /\ UNCHANGED <<salt, round, customRound, buf, i>>
     ELSE /\ step' = "blocks" /\ customRound' = custom
          /\ round' = IF ~custom THEN DefaultRound
                      ELSE LET n == IF p = 3 THEN inputSalt[2][2] ELSE 0 IN
                           IF n < MinRound THEN MinRound ELSE IF n > MaxRound THEN MaxRound ELSE n
          /\ salt' = IF given = <<>> THEN RandomSalt ELSE given
          /\ buf' = <<<<"password", password[2]>>, <<"salt", Len(salt')>>>>
          /\ i' = password[2]
  /\ UNCHANGED <<checking, inputSalt, password, digest, madeOf, answer>>

\* Mutant of DigestBlocks: the second loop goes on with the i of the first.
DigestBlocksNoReset ==
  /\ step = "blocks"
  /\ IF i > HashSize
     THEN buf' = Append(buf, <<"digest_b", HashSize>>) /\ i' = i - HashSize /\ step' = step
     ELSE buf' = Append(buf, <<"digest_b", password[2] % HashSize>>) /\ i' = i /\ step' = "bits"
  /\ UNCHANGED <<checking, inputSalt, password, salt, round, customRound, digest, madeOf, answer>>

\* The loop of line 137, and what follows it.
DigestBlocks ==
  /\ step = "blocks"
  /\ IF i > HashSize
     THEN buf' = Append(buf, <<"digest_b", HashSize>>) /\ i' = i - HashSize /\ step' = step
     ELSE buf' = Append(buf, <<"digest_b", password[2] % HashSize>>) /\ i' = password[2] /\ step' = "bits"
  /\ UNCHANGED <<checking, inputSalt, password, salt, round, customRound, digest, madeOf, answer>>

\* The loop over the bits of the size; P and S are made behind it.
DigestBits ==
  /\ step = "bits"
  /\ IF i > 0
     THEN /\ buf' = Append(buf, IF i % 2 = 0 THEN <<"password", password[2]>> ELSE <<"digest_b", HashSize>>)
          /\ i' = i \div 2 /\ step' = step
     ELSE step' = "rounds" /\ buf' = buf /\ i' = 0
  /\ UNCHANGED <<checking, inputSalt, password, salt, round, customRound, digest, madeOf, answer>>

\* A turn of the main loop: what goes into a round is fixed by its number.
MainRound ==
  /\ step = "rounds" /\ i < round
  /\ i' = i + 1
  /\ UNCHANGED <<step, checking, inputSalt, password, salt, round, customRound, buf, digest, madeOf, answer>>

Result ==
  [text |-> (IF customRound THEN <<RoundsPrefix, <<"num", round>>, Dollar>> ELSE <<>>) \o salt \o <<Dollar>>,
   hash |-> [buf |-> buf, salt |-> salt, password |-> password, round |-> i]]

\* bcrypt_sha() returns, to the program or to bcrypt_check().
Finished ==
  /\ step = "rounds" /\ i = round /\ step' = "idle"
  /\ IF checking THEN digest' = digest /\ answer' = IF Result = digest THEN "yes" ELSE "no"
                 ELSE digest' = Result /\ answer' = answer
  /\ UNCHANGED <<checking, inputSalt, password, salt, round, customRound, buf, i, madeOf>>

BcryptNext ==
  \/ \E setting \in Settings, pw \in Passwords : Make(setting, pw)
  \/ \E pw \in Passwords : Check(pw)
  \/ ParseSalt \/ DigestBlocks \/ DigestBits \/ MainRound \/ Finished

BcryptSpec == BcryptInit /\ [][BcryptNext]_bcryptVars

-----------------------------------------------------------------------------
(* Properties.                                                             *)

\* What SHA-crypt, the scheme of "$5$" and "$6$", hashes first for a password of
\* n bytes: the password and the salt, n bytes of digest_b in pieces of HashSize,
\* and a piece for each binary digit of n, the lowest first.
FullPieces(n) == IF n = 0 THEN 0 ELSE (n - 1) \div HashSize
Bits(n) == IF n = 0 THEN 0 ELSE CHOOSE k \in 1 .. n : 2 ^ (k - 1) <= n /\ n < 2 ^ k
SchemePieces(n) ==
  <<<<"password", n>>, <<"salt", Len(salt)>>>>
  \o [k \in 1 .. FullPieces(n) |-> <<"digest_b", HashSize>>]
  \o <<<<"digest_b", n - FullPieces(n) * HashSize>>>>
  \o [k \in 1 .. Bits(n) |-> IF (n \div 2 ^ (k - 1)) % 2 = 1 THEN <<"digest_b", HashSize>>
                             ELSE <<"password", n>>]

\* What the tests say of bcrypt_sha(): it makes the digests of
\* `openssl passwd -5`, so what it hashes first is what the scheme hashes, for
\* every password.
SchemeFollowed == step = "rounds" => buf = SchemePieces(password[2])

\* The loops over the blocks and over the binary digits follow the scheme for
\* the empty password and every size that leaves a rest behind the last whole
\* block; the sizes left out are those of SchemeFollowed.
PreDigest == password[2] = 0 \/ password[2] % HashSize # 0 => SchemeFollowed

\* bcrypt_check() finds in the text of a digest the setting it was made with:
\* whatever the salt looked like, it accepts the password of the digest and no
\* other, and never fails.
ChecksOwn ==
  /\ answer # "none" => (answer = "yes" <=> password = madeOf)
  /\ checking => step # "failed"

\* The salt and the rounds stay within their limits.
WithinLimits ==
  digest # NoDigest =>
    /\ digest.hash.round \in MinRound .. MaxRound
    /\ Len(digest.hash.salt) \in 1 .. MaxSaltSize

\* What a digest promises.
BcryptRight == ChecksOwn /\ WithinLimits
=============================================================================
