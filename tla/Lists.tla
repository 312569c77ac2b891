-------------------------------- MODULE Lists --------------------------------
(***************************************************************************)
(* Lists that are filtered, as the program's comprehensions filter them    *)
(* ([x for x in s if ...]), and lists that are sorted.                     *)
(***************************************************************************)
EXTENDS Integers, Sequences, SequencesExt

\* The elements of s that are in T, in their order.
Kept(s, T) == FoldLeft(LAMBDA list, x : IF x \in T THEN Append(list, x) ELSE list, <<>>, s)

\* sorted(s, key=...): `key' gives the key of each element; each is put behind
\* those whose key is not greater, so equals stay in their order.
Inserted(sorted, x, key) ==
  LET greater == {y \in ToSet(sorted) : key[y] > key[x]}
  IN  Kept(sorted, ToSet(sorted) \ greater) \o <<x>> \o Kept(sorted, greater)
Sorted(s, key) == FoldLeft(LAMBDA sorted, x : Inserted(sorted, x, key), <<>>, s)
=============================================================================
