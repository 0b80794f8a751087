----------------------------- MODULE MCPlainPut -----------------------------
(***************************************************************************)
(* Small instances of PlainPut.                                            *)
(***************************************************************************)
EXTENDS PlainPut, SequencesExt

\* The decimal digits of n, as printf("%d", n) writes them (external).
Digits[n \in Nat] ==
  IF n < 10 THEN <<n>> ELSE Append(Digits[n \div 10], n % 10)
MCDecimal(n) == IF n < 0 THEN <<45>> \o Digits[-n] ELSE Digits[n]

\* atoi (external): an optional sign and the digits that follow it.
LeadingDigits(s) ==
  LET ends == {i \in 0..Len(s) : \A j \in 1..i : s[j] \in 0..9}
  IN  SubSeq(s, 1, CHOOSE i \in ends : \A j \in ends : j <= i)
ValueOf(s) == FoldLeft(LAMBDA v, d : 10 * v + d, 0, LeadingDigits(s))
MCAtoi(s) ==
  IF s # <<>> /\ s[1] = 45 THEN -ValueOf(Tail(s)) ELSE ValueOf(s)

\* File names: one that fits the buffer and one longer than it.
ShortName == <<97, 98>>
LongName == <<97, 98, 99, 100, 101, 102, 103, 104>>

\* Contents of 0 bytes, of less than a buffer, of exactly one and of more; and
\* around an INT_MAX of 12 and the largest size_t.
Text(n) == [i \in 1..n |-> 64 + i]
Texts(S) == {Text(n) : n \in S}

MCFilenames == {ShortName, LongName}
MCContents == Texts({1, 4, 5, 6, 7, 11, 12, 13})
EmptyToo == MCContents \cup {<<>>}
OnlyEmpty == {<<>>}
AroundIntMax == Texts({1, 5, 6, 7, 9, 11, 12, 13, 25})
FewContents == Texts({0, 1, 6, 7, 13})
MCOldDisk == [f \in {ShortName, <<97>>} |-> <<120, 121>>]
=============================================================================
