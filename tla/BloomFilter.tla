---------------------------- MODULE BloomFilter ----------------------------
(***************************************************************************)
(* The Bloom filter of a segment (bloom.cpp): a table of bits, of which a  *)
(* key sets three.  The hash functions only choose the bits, so that any   *)
(* numbers may stand for their values; they are taken modulo the length of *)
(* the table, which differs from segment to segment.                       *)
(***************************************************************************)
EXTENDS Integers

CONSTANTS Keys,
          Hashes     \* of each key, the values of hash_1, hash_2 and hash_3
                     \* before they are reduced

ASSUME HashAssumption == Hashes \in [Keys -> SUBSET Nat]

\* A filter of that many bits, none of them set.
Filter(length) == [length |-> length, table |-> {}]

Bits(f, key) == {h % f.length : h \in Hashes[key]}

\* bloom_filter::set()
SetIn(f, key) == [f EXCEPT !.table = @ \cup Bits(f, key)]

\* bloom_filter::is_set()
IsSetIn(f, key) == Bits(f, key) \subseteq f.table

\* (Property.)  The filter says yes of each key of S.
SaysYesOf(f, S) == \A key \in S : IsSetIn(f, key)
=============================================================================
