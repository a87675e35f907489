----------------------------- MODULE MCEVMInput -----------------------------
(***************************************************************************)
(* Model-checking instance of EVMInput: two callers, one payload, 2-byte   *)
(* words of binary "bytes", one representative of each mutator family.     *)
(* The u256 mutators are one macro (impl_env_mutator_u256!) and the three  *)
(* stubs are one body, so one instance of each covers the family.          *)
(***************************************************************************)
EXTENDS EVMInput

CONSTANTS a1, a2, p1, post, none

MCAddrs == {a1, a2}
MCPayloads == {p1}
MCU256Fields == {"timestamp"}
MCH160Fields == {"coinbase"}
MCUnsupportedFields == {"gas_price"}

=============================================================================
