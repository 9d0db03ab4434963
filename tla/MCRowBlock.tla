----------------------------- MODULE MCRowBlock -----------------------------
(* An instance of RowBlock for TLC: four keys and two values.              *)
EXTENDS RowBlock

B(n) == [byte |-> n]
Empty == <<>>
K1 == <<B(1)>>
K2 == <<B(2)>>
K3 == <<B(1), B(2)>>

\* The empty key, two keys of one length and one hash, and a longer key of
\* their hash that one of them begins.
MCKey == {Empty, K1, K2, K3}
MCHashOf == [x \in Key |-> IF x = Empty THEN 0 ELSE 3]

\* The empty value and one of two bytes.
MCVal == {Empty, <<B(8), B(9)>>}
MCColumn == <<B(5)>>

E(x, v) == [key |-> x, val |-> v]

\* Pairs, and a full row with a key that comes twice.
MCBatch ==
  {<<e, f>> : e \in {x \in Entry : x.val # Empty}, f \in Entry}
    \cup {<<E(K1, v), E(K2, w), E(K3, v), E(Empty, w), E(K1, w)>> : v, w \in Val}
=============================================================================
