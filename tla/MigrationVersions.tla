-------------------------- MODULE MigrationVersions --------------------------
(***************************************************************************)
(* The versions of migration files: parseVersionedMigration,               *)
(* parseVersionParts, compareVersionParts and listMigrations of            *)
(* internal/db/migrate.go.  A version is known by its text, and ordered by *)
(* its parts: "2" and "2.0" are two versions of which neither is first.    *)
(*                                                                         *)
(* A text is a name; Tokens gives what is left of it when "-" and "_" are  *)
(* replaced by "." and the result is split: numbers, and empty tokens.     *)
(* A file whose name does not match the pattern has a version that Tokens  *)
(* does not know.                                                          *)
(***************************************************************************)
EXTENDS Integers, Sequences, FiniteSets

CONSTANTS Tokens,    \* version text -> its tokens
          MaxAtoi    \* largest number that strconv.Atoi accepts

Empty == -1          \* the empty token

ASSUME TokensAssumption ==
  /\ MaxAtoi \in Nat
  /\ \A v \in DOMAIN Tokens : Tokens[v] \in Seq(Nat \cup {Empty}) /\ Len(Tokens[v]) > 0

\* A file is its version and the CRC-32 of its contents.
Parses(f) ==
  /\ f.version \in DOMAIN Tokens
  /\ \A k \in DOMAIN Tokens[f.version] : Tokens[f.version][k] \in 0 .. MaxAtoi

Parts(f) == Tokens[f.version]

\* The parts that one version has and the other has not count as zero.
Part(p, k) == IF k \in DOMAIN p THEN p[k] ELSE 0

\* Mutant: the number of parts is compared first.
LessByLength(p, q) ==
  \/ Len(p) < Len(q)
  \/ /\ Len(p) = Len(q)
     /\ \E k \in DOMAIN p : p[k] < q[k] /\ \A j \in 1 .. k - 1 : p[j] = q[j]

\* compareVersionParts(p, q) < 0: the first parts that differ decide.
Less(p, q) ==
  \E k \in 1 .. (IF Len(p) > Len(q) THEN Len(p) ELSE Len(q)) :
    /\ Part(p, k) < Part(q, k)
    /\ \A j \in 1 .. k - 1 : Part(p, j) = Part(q, j)

\* Mutant: no duplicate is reported.
ListsUnchecked(release) == \A f \in release : Parses(f)

\* listMigrations reports no error: every name parses and no text is there twice.
Lists(release) ==
  /\ \A f \in release : Parses(f)
  /\ \A f, g \in release : f.version = g.version => f = g

\* The files that sort.Slice may put first, of those that are left: it keeps no
\* order between files that compare equal.
First(left) == {f \in left : \A g \in left : ~ Less(Parts(g), Parts(f))}
-----------------------------------------------------------------------------
\* A version of at most three parts as one number: the order by definition.
Number(p) == (Part(p, 1) * (MaxAtoi + 1) + Part(p, 2)) * (MaxAtoi + 1) + Part(p, 3)
=============================================================================
