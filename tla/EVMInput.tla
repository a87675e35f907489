------------------------------ MODULE EVMInput ------------------------------
(***************************************************************************)
(* The fuzz-input record EVMInput of src/src/evm/input.rs and the          *)
(* operations that change it: the mutation entry point (VMInputT::mutate), *)
(* the access-pattern-driven environment mutators, and the setters the     *)
(* fuzzer loop calls between rounds.                                       *)
(*                                                                         *)
(* One record is modelled.  The staged state (by its index sstate_idx)   *)
(* and branch_distance are kept only as the values their setters store;  *)
(* randomness, repeat and liquidation_percent, which no control flow here *)
(* reads, are left out.  The byte mutator and the ABI payload mutator are *)
(* outside this repository and are modelled by the outcomes they return.  *)
(***************************************************************************)
EXTENDS Naturals, FiniteSets, EvmWord

CONSTANTS
    Addrs,             \* addresses state.get_rand_caller() can return
    Payloads,          \* ABI payloads (BoxedABI) the record can carry
    PostExecPayload,   \* the AUnknown{AEmpty, size} set_as_post_exec installs
    NoValue,           \* Rust None
    U256Fields,        \* env fields mutated by impl_env_mutator_u256!
    H160Fields,        \* env fields mutated by impl_env_mutator_h160!
    UnsupportedFields, \* fields whose mutator is a stub returning Skipped
    StateIdxs,         \* corpus indices of staged VM states
    Distances          \* branch distances the native executor reports

ASSUME
    /\ U256Fields \subseteq {"basefee", "timestamp", "gas_limit", "number", "chain_id"}
    /\ H160Fields \subseteq {"coinbase"}
    /\ UnsupportedFields \subseteq {"balance", "gas_price", "prevrandao"}
    /\ PostExecPayload \notin Payloads
    /\ NoValue \notin Addrs \cup Payloads \cup Words

EnvFields == U256Fields \cup H160Fields

\* The fields of AccessPattern the mutator consults (balance stands for
\* `ap.balance.len() > 0`).
ApFields == {"caller", "call_value"} \cup EnvFields \cup UnsupportedFields

Results == {"Mutated", "Skipped"}
NoResult == "NoResult"   \* the step was not a mutation
NoMutator == "none"

VARIABLES
    caller,          \* EVMInput.caller
    env,             \* EVMInput.env, the block/cfg fields the mutators touch
    txn_value,       \* EVMInput.txn_value: a word or NoValue
    data,            \* EVMInput.data: a payload or NoValue
    step,            \* EVMInput.step
    is_cuda,         \* EVMInput.is_cuda
    access_pattern,  \* *EVMInput.access_pattern.borrow()
    sstate_idx,      \* EVMInput.sstate_idx, standing for the staged state sstate
    branch_distance, \* EVMInput.branch_distance
    result,          \* MutationResult returned by the last step, or NoResult
    mutator          \* the mutator the last mutation dispatched to

inputVars == <<caller, env, txn_value, data, step, is_cuda, sstate_idx, branch_distance>>
vars == <<inputVars, access_pattern, result, mutator>>

(***************************************************************************)
(* byte_mutator(state, &mut wrapper, vm_slots): the shared LibAFL byte     *)
(* mutator.  Its mutators keep the length of the vector; it either skips   *)
(* or leaves any byte string of that length (possibly the same one).       *)
(***************************************************************************)
ByteMutatorOutcomes(bytes) ==
    [res : {"Skipped"}, out : {bytes}] \cup [res : {"Mutated"}, out : ByteStrings]

\* impl_env_mutator_u256!($item, $loc): mutate the big-endian bytes of the
\* field and write them back unless the byte mutator skipped.
U256Mutator(f) ==
    /\ \E o \in ByteMutatorOutcomes(ToBytesBE(env[f])) :
          /\ result' = o.res
          /\ IF o.res = "Skipped"
               THEN UNCHANGED env
               ELSE env' = [env EXCEPT ![f] = FromBytesBE(o.out)]
    /\ UNCHANGED <<caller, txn_value>>

\* impl_env_mutator_h160!($item, $loc): draw a random caller; skip when it
\* equals the input's caller, otherwise store it in the env field.
H160Mutator(f) ==
    /\ \E addr \in Addrs :
          IF addr = caller
            THEN result' = "Skipped" /\ UNCHANGED env
            ELSE result' = "Mutated" /\ env' = [env EXCEPT ![f] = addr]
    /\ UNCHANGED <<caller, txn_value>>

\* EVMInput::caller: draw a random caller; skip when it is the current one.
CallerMutator ==
    /\ \E c \in Addrs :
          IF c = caller
            THEN result' = "Skipped" /\ UNCHANGED caller
            ELSE result' = "Mutated" /\ caller' = c
    /\ UNCHANGED <<env, txn_value>>

\* Mutant of CallValueMutator: the value is written back before the
\* Skipped result is checked.
CallValueMutatorWritesBeforeCheck ==
    /\ LET cur == IF txn_value = NoValue THEN 0 ELSE txn_value IN
       \E o \in ByteMutatorOutcomes(ToBytesBE(cur)) :
          /\ result' = o.res
          /\ txn_value' = FromBytesBE(ZeroHighHalf(o.out))
    /\ UNCHANGED <<caller, env>>

\* EVMInput::call_value: mutate the big-endian bytes of the value (0 when
\* None); unless skipped, zero the first 16 bytes and store Some(value).
CallValueMutator ==
    /\ LET cur == IF txn_value = NoValue THEN 0 ELSE txn_value IN
       \E o \in ByteMutatorOutcomes(ToBytesBE(cur)) :
          /\ result' = o.res
          /\ IF o.res = "Skipped"
               THEN UNCHANGED txn_value
               ELSE txn_value' = FromBytesBE(ZeroHighHalf(o.out))
    /\ UNCHANGED <<caller, env>>

\* EVMInput::prevrandao, gas_price, balance: "not supported yet".
UnsupportedMutator ==
    /\ result' = "Skipped"
    /\ UNCHANGED <<caller, env, txn_value>>

\* Mutant of EnabledMutators: the u256 mutators are pushed without their
\* `if ap.$item` guard.
EnabledMutatorsUnguardedU256(ap, value) ==
    {f \in ApFields : ap[f] \/ f \in U256Fields \/ (f = "call_value" /\ value # NoValue)}

\* The mutators mutate_env_with_access_pattern pushes: one per access-pattern
\* flag, except that call_value is also pushed when the input has a value.
EnabledMutators(ap, value) ==
    {f \in ApFields : ap[f] \/ (f = "call_value" /\ value # NoValue)}

\* mutate_env_with_access_pattern: snapshot the access pattern, collect the
\* enabled mutators, skip when there is none, else run one chosen by
\* state.rand_mut().below(len).
MutateEnvWithAccessPattern ==
    LET enabled == EnabledMutators(access_pattern, txn_value) IN
    \/ /\ enabled = {}
       /\ result' = "Skipped"
       /\ mutator' = NoMutator
       /\ UNCHANGED <<caller, env, txn_value>>
    \/ \E m \in enabled :
          /\ mutator' = m
          /\ \/ m = "caller" /\ CallerMutator
             \/ m = "call_value" /\ CallValueMutator
             \/ m \in U256Fields /\ U256Mutator(m)
             \/ m \in H160Fields /\ H160Mutator(m)
             \/ m \in UnsupportedFields /\ UnsupportedMutator

\* The payload branch of mutate: data.mutate_with_vm_slots, or Skipped when
\* there is no payload.  The ABI mutator may skip or produce any payload.
MutatePayload ==
    /\ mutator' = "payload"
    /\ IF data = NoValue
         THEN result' = "Skipped" /\ UNCHANGED data
         ELSE \/ result' = "Skipped" /\ UNCHANGED data
              \/ result' = "Mutated" /\ data' \in Payloads
    /\ UNCHANGED <<caller, env, txn_value>>

\* VMInputT::mutate.  `roll` is `state.rand_mut().next() % 100 > 87`, drawn
\* only when the input is not a CUDA input (&& short-circuits).
Mutate ==
    /\ \E roll \in BOOLEAN :
          IF ~is_cuda /\ (roll \/ data = NoValue)
            THEN MutateEnvWithAccessPattern /\ UNCHANGED data
            ELSE MutatePayload
    /\ UNCHANGED <<step, is_cuda, access_pattern, sstate_idx, branch_distance>>

\* Every step that is not a mutation returns no MutationResult.
NotAMutation == result' = NoResult /\ mutator' = NoMutator

\* EVMInputT::set_txn_value.
SetTxnValue(v) ==
    /\ txn_value' = v
    /\ NotAMutation
    /\ UNCHANGED <<caller, env, data, step, is_cuda, access_pattern, sstate_idx, branch_distance>>

\* VMInputT::set_caller.
SetCaller(c) ==
    /\ caller' = c
    /\ NotAMutation
    /\ UNCHANGED <<env, txn_value, data, step, is_cuda, access_pattern, sstate_idx, branch_distance>>

\* VMInputT::set_step: drops the transaction value and sets the flag.
SetStep(gate) ==
    /\ txn_value' = NoValue
    /\ step' = gate
    /\ NotAMutation
    /\ UNCHANGED <<caller, env, data, is_cuda, access_pattern, sstate_idx, branch_distance>>

\* EVMInputT::set_cuda_input.
SetCudaInput(status) ==
    /\ is_cuda' = status
    /\ NotAMutation
    /\ UNCHANGED <<caller, env, txn_value, data, step, access_pattern, sstate_idx, branch_distance>>

\* VMInputT::set_as_post_exec: the payload becomes AUnknown over AEmpty.
SetAsPostExec ==
    /\ data' = PostExecPayload
    /\ NotAMutation
    /\ UNCHANGED <<caller, env, txn_value, step, is_cuda, access_pattern, sstate_idx, branch_distance>>

\* EVMInput::set_staged_state(state, idx): the staged state and its index.
SetStagedState(idx) ==
    /\ sstate_idx' = idx
    /\ NotAMutation
    /\ UNCHANGED <<caller, env, txn_value, data, step, is_cuda, access_pattern, branch_distance>>

\* EVMInputT::set_distance, called with the distance the executor measured.
SetDistance(d) ==
    /\ branch_distance' = d
    /\ NotAMutation
    /\ UNCHANGED <<caller, env, txn_value, data, step, is_cuda, access_pattern, sstate_idx>>

\* The executor records an environment read in the shared access pattern
\* (AccessPattern lives outside this repository; flags are only set).
RecordAccess(f) ==
    /\ access_pattern' = [access_pattern EXCEPT ![f] = TRUE]
    /\ NotAMutation
    /\ UNCHANGED inputVars

\* A freshly generated input: any field values, a fresh access pattern.
Init ==
    /\ caller \in Addrs
    /\ env \in {e \in [EnvFields -> Words \cup Addrs] :
                   /\ \A f \in U256Fields : e[f] \in Words
                   /\ \A f \in H160Fields : e[f] \in Addrs}
    /\ txn_value \in Words \cup {NoValue}
    /\ data \in Payloads \cup {NoValue}
    /\ step = FALSE
    /\ is_cuda = FALSE
    /\ access_pattern = [f \in ApFields |-> FALSE]
    /\ sstate_idx \in StateIdxs
    /\ branch_distance \in Distances
    /\ result = NoResult
    /\ mutator = NoMutator

Next ==
    \/ Mutate
    \/ \E v \in Words : SetTxnValue(v)
    \/ \E c \in Addrs : SetCaller(c)
    \/ \E g \in BOOLEAN : SetStep(g)
    \/ \E s \in BOOLEAN : SetCudaInput(s)
    \/ SetAsPostExec
    \/ \E i \in StateIdxs : SetStagedState(i)
    \/ \E d \in Distances : SetDistance(d)
    \/ \E f \in ApFields : RecordAccess(f)

Spec == Init /\ [][Next]_vars

-----------------------------------------------------------------------------
(***************************************************************************)
(* Properties                                                              *)
(***************************************************************************)

\* The fields of the record a step changed, named after the access-pattern
\* flag that governs each ("data" for the payload).
ChangedFields ==
    {f \in EnvFields : env'[f] # env[f]}
    \cup (IF caller' # caller THEN {"caller"} ELSE {})
    \cup (IF txn_value' # txn_value THEN {"call_value"} ELSE {})
    \cup (IF data' # data THEN {"data"} ELSE {})
    \cup (IF sstate_idx' # sstate_idx THEN {"sstate"} ELSE {})
    \cup (IF branch_distance' # branch_distance THEN {"branch_distance"} ELSE {})

IsMutation == result' \in Results

\* Return contract of every mutator (spec 4.I and 8): a mutation that
\* returns Skipped leaves the record byte-identical, whichever of the
\* nested paths of mutate, mutate_env_with_access_pattern and the chosen
\* mutator produced it.
SkippedLeavesInputUnchanged ==
    [][result' = "Skipped" => UNCHANGED inputVars]_vars

\* A call_value mutation that succeeds leaves a value below 2^128 wei: the
\* zeroed bytes of call_value must be the most significant ones of the
\* encoding the mutated bytes are read back with.
CallValueBelowHalfWidth ==
    [][(IsMutation /\ mutator' = "call_value" /\ result' = "Mutated")
         => txn_value' < HalfBound]_vars

\* A mutation changes at most one field of the record, never the staged
\* state or the branch distance, and an environment field only when the access pattern recorded a read of it (call_value
\* also when the input already carries a value).
MutationTouchesOneGatedField ==
    [][IsMutation =>
         /\ Cardinality(ChangedFields) <= 1
         /\ \A f \in ChangedFields \ {"data"} :
               /\ f \in ApFields
               /\ \/ access_pattern[f]
                  \/ f = "call_value" /\ txn_value # NoValue]_vars

(***************************************************************************)
(* What the specification says of the mutators and the code does not do;  *)
(* each is checked by a run that expects TLC to find it violated.          *)
(***************************************************************************)

\* Spec 4.I and boundary scenario 6: environment mutators are enabled only
\* when the access pattern records a read of that field, so a mutation
\* only touches fields the access pattern names.  The code also enables
\* call_value when txn_value is Some (mutate_env_with_access_pattern).
AccessPatternGatesEnvMutation ==
    [][IsMutation => \A f \in ChangedFields \ {"data"} : access_pattern[f]]_vars

\* Spec 4.I: an address mutator returns Skipped when the drawn address
\* equals the field's current value, so a Mutated address mutation changes
\* the field.  impl_env_mutator_h160! compares with the caller instead.
AddressMutationChangesField ==
    [][(IsMutation /\ mutator' \in H160Fields /\ result' = "Mutated")
         => env'[mutator'] # env[mutator']]_vars

\* Spec 4.I: when no payload exists the environment is mutated.  mutate
\* never takes the environment branch for a CUDA input.
NoPayloadMutatesEnvironment ==
    [][(IsMutation /\ data = NoValue) => mutator' # "payload"]_vars

=============================================================================
