------------------------------ MODULE MCMigrate ------------------------------
(* Small instances of Migrate for TLC.                                       *)
EXTENDS Migrate, TLC

CONSTANTS i1, i2

\* Versions of one and of two parts, two that are one number (2, 2.0), and one
\* with an empty token.
MCTokens == "2" :> <<2>> @@ "2.0" :> <<2, 0>> @@ "10" :> <<10>> @@ "2_" :> <<2, Empty>>

V(text, sum) == [version |-> text, checksum |-> sum]

\* A release; one with another version of the same number; one whose V2 differs
\* and whose V10 has a CRC-32 above MaxInt4.
Sound == <<{V("2.0", 1), V("10", 1)}, {V("2", 2), V("2.0", 1)}, {V("2", 1), V("10", 3)}>>

\* Two that listMigrations refuses: a version twice, an empty token.
Refused == <<{V("2", 1), V("2", 2)}, {V("2", 1), V("2_", 1)}>>

\* Any two releases side by side, refused ones beside others only.  The
\* instances differ in nothing else, so that one order of each pair is enough.
MCDeployments ==
  {i1 :> Sound[a] @@ i2 :> (Sound \o Refused)[b] :
     <<a, b>> \in {p \in (1 .. 3) \X (1 .. 5) : p[1] <= p[2]}}
=============================================================================
