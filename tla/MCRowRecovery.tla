--------------------------- MODULE MCRowRecovery ---------------------------
(* Instances of RowRecovery for TLC.                                       *)
EXTENDS RowRecovery, TLC

CONSTANTS r1, r2

\* Both rows start in the last bucket of two and of four, and in shard 1 of
\* two; in four shards they move up to shard 3, in three r1 moves down to 0.
MCHashOf == [r \in Row |-> IF r = r1 THEN 3 ELSE 7]

Opt(s, n) == [shards |-> s, buckets |-> n]
OneShard  == {Opt(1, 4)}
Resharded == {Opt(2, 4), Opt(3, 4), Opt(4, 2)}

Symmetry == Permutations(Thread)
=============================================================================
