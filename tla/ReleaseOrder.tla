------------------------------ MODULE ReleaseOrder ------------------------------
(***************************************************************************)
(* Concrete releases and their order (package_selector.c). A release is a  *)
(* dotted sequence of numerals of any length with an optional -revN; a     *)
(* numeral is the sequence of its digits, because cup compares digits and  *)
(* never converts a numeral into an integer.                               *)
(***************************************************************************)
EXTENDS Integers, Sequences, FiniteSetsExt, Functions

Digit == 0..9

\* parse_numeric_dotted and parse_revision: no numeral has leading zeros,
\* and a revision is at least 1.
Numeral(d)  == d \in Seq(Digit) /\ d # <<>> /\ (Len(d) > 1 => d[1] # 0)
Revision(d) == Numeral(d) /\ d[1] # 0

\* rev is <<>> where the release has no revision.
Concrete(r) ==
  /\ r \in [base : Seq(Seq(Digit)), rev : Seq(Digit)]
  /\ r.base # <<>>
  /\ \A i \in DOMAIN r.base : Numeral(r.base[i])
  /\ r.rev # <<>> => Revision(r.rev)

Sign(n) == IF n < 0 THEN -1 ELSE IF n > 0 THEN 1 ELSE 0

\* The first position where two sequences of the same length differ.
Differ(l, r) == {i \in DOMAIN l \cap DOMAIN r : l[i] # r[i]}

\* memcmp of two numerals of the same length; the longer numeral is greater.
CompareBytes(l, r) ==
  IF Differ(l, r) = {} THEN 0
  ELSE LET i == Min(Differ(l, r)) IN Sign(l[i] - r[i])

CompareNumericText(l, r) ==
  IF Len(l) # Len(r) THEN Sign(Len(l) - Len(r)) ELSE CompareBytes(l, r)

\* Numeral by numeral; a base that ends first is smaller.
CompareBaseVersions(l, r) ==
  IF Differ(l, r) = {} THEN Sign(Len(l) - Len(r))
  ELSE LET i == Min(Differ(l, r)) IN CompareNumericText(l[i], r[i])

\* package_release_compare: a release without a revision comes before its
\* revisions.
ReleaseCompare(l, r) ==
  LET base == CompareBaseVersions(l.base, r.base)
  IN  IF base # 0 THEN base
      ELSE IF l.rev = <<>> \/ r.rev = <<>> THEN Sign(Len(l.rev) - Len(r.rev))
      ELSE CompareNumericText(l.rev, r.rev)

-------------------------------------------------------------------------------
(***************************************************************************)
(* What the comparison means: numerals by their values.                    *)
(***************************************************************************)
Value(d) ==
  LET v[n \in 0..Len(d)] == IF n = 0 THEN 0 ELSE 10 * v[n - 1] + d[n]
  IN  v[Len(d)]

\* l comes before r.
Before(l, r) ==
  \/ \E n \in 1..Len(r.base) :
       /\ n <= Len(l.base) => Value(l.base[n]) < Value(r.base[n])
       /\ \A i \in 1..(n - 1) : i <= Len(l.base) /\ Value(l.base[i]) = Value(r.base[i])
  \/ /\ l.base = r.base
     /\ r.rev # <<>>
     /\ l.rev # <<>> => Value(l.rev) < Value(r.rev)
===============================================================================
