------------------------------- MODULE MCKeyfile -------------------------------
(* Instances of Keyfile for TLC.                                              *)
EXTENDS Keyfile, SequencesExt

\* The check value that the tests of keyfile.rs use: the checksum of "123456789"
\* is the complement of 0x340BC6D9, bit by bit.
Digits == [i \in 1 .. 9 |-> 48 + i]
Complement(word) == (0 .. 31) \ word
ASSUME CrcAssumption ==
  LET crcEnd == Complement(FoldLeft(CrcStep, CrcStart, Digits))
  IN  <<Lane(crcEnd, 24), Lane(crcEnd, 16), Lane(crcEnd, 8), Lane(crcEnd, 0)>> = <<203, 244, 57, 38>>

Ones(n) == [i \in 1 .. n |-> 255]
SomePasswords == {<<>>, <<1>>, <<1, 0>>} \cup {Ones(n) : n \in {8, 9, 17, 18}}
SomeContents == UNION {[1 .. n -> {0, 200}] : n \in 0 .. 4} \cup {<<0, 200, 7, 7, 7, 7>>}
=============================================================================
