------------------------------ MODULE EvmWord ------------------------------
(***************************************************************************)
(* The 256-bit EVM word (EVMU256) of src/src/evm/input.rs, scaled down to  *)
(* NBytes bytes of ByteBase values each, and the byte conversions the      *)
(* input code applies to it: to_be_bytes / try_from_be_slice around the    *)
(* byte mutator, and to_le_bytes when a word crosses the native runner     *)
(* boundary.  A word is a natural below WordBound.                         *)
(***************************************************************************)
EXTENDS Naturals, Sequences
LOCAL INSTANCE SequencesExt

CONSTANTS
    NBytes,     \* bytes per word (32 in the code)
    ByteBase    \* values per byte (256 in the code)

ASSUME NBytes \in 2..8 /\ NBytes % 2 = 0 /\ ByteBase \in 2..256

Bytes == 0..(ByteBase - 1)
WordBound == ByteBase ^ NBytes
Words == 0..(WordBound - 1)
ByteStrings == [1..NBytes -> Bytes]

\* The bound call_value enforces: the top half of the bytes is zero
\* (2^128 wei in the code).
HalfBound == ByteBase ^ (NBytes \div 2)

\* EVMU256::to_be_bytes: most significant byte first.
ToBytesBE(v) == [i \in 1..NBytes |-> (v \div ByteBase ^ (NBytes - i)) % ByteBase]

\* EVMU256::to_le_bytes: least significant byte first.
ToBytesLE(v) == Reverse(ToBytesBE(v))

\* EVMU256::try_from_be_slice on a slice of exactly NBytes bytes.
FromBytesBE(b) == FoldLeft(LAMBDA acc, x : acc * ByteBase + x, 0, b)

\* How a reader that expects little-endian bytes decodes them.
FromBytesLE(b) == FromBytesBE(Reverse(b))

\* Mutant of ZeroHighHalf: the loop clears bytes 16..32 instead of 0..16.
ZeroLowHalf(b) == [i \in 1..NBytes |-> IF i > NBytes \div 2 THEN 0 ELSE b[i]]

\* The loop `for i in 0..16 { input_vec[i] = 0 }` of call_value: clear the
\* first (most significant, in big-endian order) half of the bytes.
ZeroHighHalf(b) == [i \in 1..NBytes |-> IF i <= NBytes \div 2 THEN 0 ELSE b[i]]

=============================================================================
