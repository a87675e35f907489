---------------------------- MODULE MCCudaBridge ----------------------------
(***************************************************************************)
(* CudaBridge with two threads and four inputs.   Words are 4 bits (so an *)
(* address is 2 bits and both byte orders of it differ for 1 and 2).      *)
(* i2 carries calldata longer than SEED_SIZE - 68 and a two-slot storage, *)
(* so both HashMap orders are sent; i4 has a one-slot storage of the     *)
(* other contract, so loads of different storages can meet at one id.    *)
(***************************************************************************)
EXTENDS CudaBridge, TLC

CONSTANT none


MCInputs ==
    { [contract |-> 1, caller |-> 2, txn_value |-> none, timestamp |-> 5,
       number |-> 6, calldata |-> [id |-> "c1", len |-> 2], storage |-> none,
       sstate_idx |-> 0],
      [contract |-> 2, caller |-> 1, txn_value |-> 3, timestamp |-> 9,
       number |-> 1, calldata |-> [id |-> "c2", len |-> 3],
       storage |-> (1 :> 4) @@ (2 :> 7), sstate_idx |-> 1],
      [contract |-> 2, caller |-> 3, txn_value |-> 0, timestamp |-> 12,
       number |-> 2, calldata |-> [id |-> "c3", len |-> 0],
       storage |-> (1 :> 4) @@ (2 :> 7), sstate_idx |-> 1],
      [contract |-> 1, caller |-> 1, txn_value |-> none, timestamp |-> 3,
       number |-> 4, calldata |-> [id |-> "c1", len |-> 2],
       storage |-> (3 :> 1), sstate_idx |-> 1] }

====
