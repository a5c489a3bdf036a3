----------------------------- MODULE BloomFilter -----------------------------
(***************************************************************************)
(* BloomFilter<FilterSize, NumHashes>: the filter is the set of the         *)
(* positions of m_bits that hold 1.                                         *)
(***************************************************************************)
EXTENDS Integers

CONSTANTS
  FilterSize,   \* 10'000'000 in the code
  NumHashes,    \* 7 in the code
  HashRange,    \* 2^64: the arithmetic of rehash wraps there
  BloomHash     \* MurmurHash3_x64_128 of a key id, as a pair of words

ASSUME BloomAssumption ==
  /\ FilterSize \in Nat \ {0}
  /\ NumHashes \in Nat \ {0}
  /\ HashRange \in Nat \ {0}

Rehash(i, hash) == ((hash[1] + i * hash[2]) % HashRange) % FilterSize

BloomBits(k) == {Rehash(i, BloomHash[k]) : i \in 0 .. NumHashes - 1}

BloomAdd(bits, keys) == bits \cup UNION {BloomBits(k) : k \in keys}

ProbablyContains(bits, k) == BloomBits(k) \subseteq bits
=============================================================================
