----------------------------- MODULE MCRowIndex -----------------------------
(* Small instances of RowIndex.  Rows are named by column and row id: a42   *)
(* and b42 are rows with one row id of two columns whose 64-bit hashes are  *)
(* equal, a7 is another row.                                                *)
EXTENDS RowIndex, TLC

CONSTANT Colliding    \* the rows that share an identity

MCIdentOf == [r \in Row |-> IF r \in Colliding THEN "h42" ELSE "h7"]
MCStartOf == [i \in Ident |-> IF i = "h42" THEN BucketCount - 1 ELSE 0]
MCShardOf == [i \in Ident |-> CHOOSE s \in Shard : TRUE]

\* A block grows with its number of keys; PutRowStructs writes all keys.
Keys(c)   == {k \in Key : c[k] # NoVal}
MCSizeOf  == [c \in Content |-> 1 + Cardinality(Keys(c))]
MCBatch   == {c \in Content : Keys(c) = Key}

\* Every row with an identity of its own, over the whole table.
RowIdent  == [r \in Row |-> r]
RowStart  == [i \in Ident |-> i % BucketCount]

Symmetry  == {f @@ g : f \in Permutations(Thread), g \in Permutations(Colliding)}
=============================================================================
