----------------------------- MODULE MCKvStore ------------------------------
(***************************************************************************)
(* Small instances of KvStore for TLC: the inputs clients use.             *)
(***************************************************************************)
EXTENDS KvStore

CONSTANTS a, b, f, k1, k2, k3

Text(s) == [type |-> "Str", data |-> s]
Number(n) == [type |-> "Int", data |-> n]

\* A string of one byte, and an 8-byte counter next to its overflow.
CoreValues == {Text(<<a>>), Number(HalfRange - 1)}

BatchPairs == (Keys \cup {InvalidKey}) \X {Text(<<a>>)}
OneText == {<<a>>}
ShortLists == {<<a, b>>}

KeySymmetry == Permutations(Keys)

\* A counter about to leave its range; append makes the strings.
Counters == {Number(HalfRange - 1)}
FieldInputs == {1, NonNumeric}
Halves == {3}
=============================================================================
