----------------------------- MODULE BloomFilter -----------------------------
(***************************************************************************)
(* BloomFilter (core/engine_shared/src/bloom_filter.cpp): double hashing   *)
(* over a bit array, and a binary file it is saved to and loaded from.     *)
(* The two hash functions are arbitrary constants.  element_count_, which  *)
(* is only reported, is left out.                                          *)
(***************************************************************************)
EXTENDS Integers

CONSTANTS
  Keys,          \* keys added and looked up
  Hash1, Hash2,  \* hash_fnv1a_64 and hash_murmur_mix_64
  Word,          \* 2^64: unsigned arithmetic wraps
  Shapes         \* the [bits, hashes] pairs a constructor computes

ASSUME HashAssumption == Hash1 \in [Keys -> Nat] /\ Hash2 \in [Keys -> Nat]
ASSUME WordAssumption == Word \in Nat \ {0}
ASSUME ShapesAssumption == Shapes \subseteq [bits : Nat \ {0}, hashes : Nat]

VARIABLES
  shape,   \* num_bits_ and num_hashes_
  bits_,   \* the positions of the bits that are set
  file,    \* the saved filter, or why there is none
  added    \* the keys whose add, or whose file, this filter's content comes from

bloomVars == <<shape, bits_, file, added>>

NoFile == [state |-> "absent"]
Truncated == [state |-> "truncated"]
Saved(s, b, keys) == [state |-> "good", shape |-> s, bits |-> b, keys |-> keys]

BloomInit ==
  /\ shape \in Shapes
  /\ bits_ = {}
  /\ file = NoFile
  /\ added = {}

\* The bits a key stands for in a filter of the given shape.
Probes(key, s) ==
  {((Hash1[key] + i * Hash2[key]) % Word) % s.bits : i \in 0 .. s.hashes - 1}

MayContain(key) == Probes(key, shape) \subseteq bits_

Add(key) ==
  /\ bits_' = bits_ \cup Probes(key, shape)
  /\ added' = added \cup {key}
  /\ UNCHANGED <<shape, file>>

BloomClear ==
  /\ bits_' = {}
  /\ added' = {}
  /\ UNCHANGED <<shape, file>>

\* The file is overwritten in place: opening it truncates it, so a write that
\* fails, or a process that dies, leaves a short file behind.  Opening may fail.
Save ==
  /\ file' \in {Saved(shape, bits_, added), Truncated, file}
  /\ UNCHANGED <<shape, bits_, added>>

\* Mutant: the shape is taken from the header before the words have been read.
LoadHeaderFirst ==
  /\ file.state # "absent"
  /\ IF file.state = "good"
       THEN shape' = file.shape /\ bits_' = file.bits /\ added' = file.keys
       ELSE shape' \in Shapes /\ UNCHANGED <<bits_, added>>
  /\ UNCHANGED file

\* load_from_file: a missing or short file changes nothing and returns false.
Load ==
  /\ IF file.state = "good"
       THEN shape' = file.shape /\ bits_' = file.bits /\ added' = file.keys
       ELSE UNCHANGED <<shape, bits_, added>>
  /\ UNCHANGED file

\* A new filter, in the next process: only the file survives.
Construct ==
  /\ shape' \in Shapes
  /\ bits_' = {}
  /\ added' = {}
  /\ UNCHANGED file

BloomNext == BloomClear \/ Save \/ Load \/ Construct \/ \E key \in Keys : Add(key)

BloomSpec == BloomInit /\ [][BloomNext]_bloomVars

-----------------------------------------------------------------------------

\* A key that was added, here or by the process that wrote the loaded file, is
\* always found, also in a filter constructed with another shape and after
\* loads that failed.
NoFalseNegatives == \A key \in added : MayContain(key)
=============================================================================
