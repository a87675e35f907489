------------------------------ MODULE CudaBridge ------------------------------
(***************************************************************************)
(* The foreign executor bridge of src/src/evm/input.rs: cu_load_evm_env,   *)
(* cu_load_input, cu_load_storage and set_evm_env hand the fields of an    *)
(* EVMInput to the native `runner` library.  Several fuzz threads share    *)
(* one runner; each thread owns the input it loads.                        *)
(*                                                                         *)
(* The runner is not part of this repository.  Its side is the ABI the     *)
(* specification states: setEVMEnv(to, timestamp_le, blocknum_le) keeps    *)
(* one environment, cuLoadSeed keeps one seed per thread and truncates     *)
(* calldata past SEED_SIZE - 68, cuLoadStorage keeps one storage per state *)
(* id.  The runner variables hold the bytes it was handed; the properties  *)
(* decode them the way the runner does (little-endian) and compare them    *)
(* with the input they came from, recorded in history variables.          *)
(*                                                                         *)
(* An address is ABytes bytes, half a word, as 20 is to 32 in the code.    *)
(***************************************************************************)
EXTENDS Naturals, Sequences, FiniteSets, EvmWord
LOCAL INSTANCE SequencesExt

CONSTANTS
    Threads,     \* the tid values the fuzzer passes to cu_load_input
    Inputs,      \* the EVMInput records a thread can hold (see IsInput)
    StateIds,    \* the state ids cu_load_storage can be called with
    SeedSize,    \* SEED_SIZE of the runner
    Header,      \* 68: the seed header in front of the calldata
    NoValue      \* Rust None / nothing loaded yet

ABytes == NBytes \div 2
Addrs == 0..(ByteBase ^ ABytes - 1)

\* The fields of an EVMInput the bridge reads: get_contract, get_caller,
\* get_txn_value, env.block.timestamp / number, get_calldata (an id and a
\* length), the contract's storage in get_state() (NoValue when the state
\* has no entry for the contract) and get_state_idx.
IsInput(i) ==
    /\ DOMAIN i = {"contract", "caller", "txn_value", "timestamp", "number",
                   "calldata", "storage", "sstate_idx"}
    /\ i.contract \in Addrs /\ i.caller \in Addrs
    /\ i.txn_value \in Words \cup {NoValue}
    /\ i.timestamp \in Words /\ i.number \in Words
    /\ i.calldata \in [id : STRING, len : Nat]
    /\ i.storage = NoValue \/ (DOMAIN i.storage \subseteq Words /\ \A k \in DOMAIN i.storage : i.storage[k] \in Words)
    /\ i.sstate_idx \in StateIds

ASSUME
    /\ \A i \in Inputs : IsInput(i)
    \* get_state().get(&get_contract()): the storage is the staged state's
    \* entry for the contract, so inputs agreeing on both agree on it.
    /\ \A i, j \in Inputs :
          i.sstate_idx = j.sstate_idx /\ i.contract = j.contract => i.storage = j.storage
    /\ Header < SeedSize
    /\ 0 \in StateIds /\ Threads \subseteq StateIds

VARIABLES
    input,        \* thread -> the input it currently owns
    r_env,        \* the runner's environment bytes, or NoValue
    r_seed,       \* thread -> the runner's seed for it, or NoValue
    r_storage,    \* state id -> the runner's storage bytes, or NoValue
    warned,       \* thread -> its last cu_load_input printed the SEED_SIZE warning
    \* history: the input each runner copy was marshalled from
    env_src, seed_src, storage_src

history == <<env_src, seed_src, storage_src>>
vars == <<input, r_env, r_seed, r_storage, warned, history>>

SeedCapacity == SeedSize - Header
SlotBytes == 2 * NBytes

\* H160::to_fixed_bytes: the address bytes, most significant first.
AddrBytes(a) == [i \in 1..ABytes |-> (a \div ByteBase ^ (ABytes - i)) % ByteBase]

(***************************************************************************)
(* The runner's side of cuLoadSeed: it copies at most SEED_SIZE - 68       *)
(* bytes of calldata.                                                      *)
(***************************************************************************)
RunnerCopy(cd) == [cd EXCEPT !.len = IF @ > SeedCapacity THEN SeedCapacity ELSE @]

(***************************************************************************)
(* Actions                                                                 *)
(***************************************************************************)

\* The fuzzer hands thread t the next input it owns.
Assign(t) ==
    /\ \E i \in Inputs : input' = [input EXCEPT ![t] = i]
    /\ UNCHANGED <<r_env, r_seed, r_storage, warned, history>>

\* Mutant of MarshalAddr: the `.reverse()` is left out.
MarshalAddrUnreversed(a) == AddrBytes(a)

\* `let mut x = addr.to_fixed_bytes(); x.reverse();`
MarshalAddr(a) == Reverse(AddrBytes(a))

\* Mutant of MarshalValue: the value is sent as to_be_bytes.
MarshalValueBigEndian(v) == ToBytesBE(IF v = NoValue THEN 0 ELSE v)

\* `get_txn_value().unwrap_or(EVMU256::ZERO).to_le_bytes()`
MarshalValue(v) == ToBytesLE(IF v = NoValue THEN 0 ELSE v)

\* Mutant of SeedTooLarge: the check leaves out the 68-byte header.
SeedTooLargeWithoutHeader(len) == len > SeedSize

\* The condition of the SEED_SIZE warning, `68 + calldatasize > SEED_SIZE`.
SeedTooLarge(len) == Header + len > SeedSize

\* cu_load_evm_env: the contract address reversed, timestamp and block
\* number as to_le_bytes, passed to setEVMEnv(to, timestamp, blocknum).
CuLoadEvmEnv(t) ==
    LET in == input[t] IN
    /\ r_env' = [to |-> MarshalAddr(in.contract),
                 timestamp |-> ToBytesLE(in.timestamp),
                 blocknum |-> ToBytesLE(in.number)]
    /\ env_src' = in
    /\ UNCHANGED <<input, r_seed, r_storage, warned, seed_src, storage_src>>

\* cu_load_input(tid): the caller reversed, the value as to_le_bytes, the
\* calldata of get_calldata; print the warning when the seed is too large
\* (and go on); call cuLoadSeed with the literal state_idx 0 and thread tid.
CuLoadInput(t) ==
    LET in == input[t]
        cd == in.calldata
    IN
    /\ warned' = [warned EXCEPT ![t] = SeedTooLarge(cd.len)]
    /\ r_seed' = [r_seed EXCEPT ![t] =
          [caller |-> MarshalAddr(in.caller), value |-> MarshalValue(in.txn_value),
           data |-> RunnerCopy(cd), size |-> cd.len, state_idx |-> 0]]
    /\ seed_src' = [seed_src EXCEPT ![t] = in]
    /\ UNCHANGED <<input, r_env, r_storage, env_src, storage_src>>

\* Mutant of Slot: the key and value are concatenated as as_be_bytes.
SlotBigEndian(k, v) == ToBytesBE(k) \o ToBytesBE(v)

\* One slot of cu_load_storage: [key.as_le_bytes(), value.as_le_bytes()].concat().
Slot(k, v) == ToBytesLE(k) \o ToBytesLE(v)

\* cu_load_storage(state_id): the contract's storage, slot after slot in
\* the HashMap's iteration order, and its length; a null pointer and 0
\* when the state has no entry for the contract.  No code in src/ calls
\* it, so the state id is any the caller may pass.
CuLoadStorage(t, sid) ==
    LET in == input[t] IN
    /\ \/ /\ in.storage = NoValue
          /\ r_storage' = [r_storage EXCEPT ![sid] = [bytes |-> <<>>, count |-> 0]]
       \/ /\ in.storage # NoValue
          /\ \E order \in SetToSeqs(DOMAIN in.storage) :
                r_storage' = [r_storage EXCEPT ![sid] =
                   [bytes |-> FlattenSeq([i \in DOMAIN order |->
                                 Slot(order[i], in.storage[order[i]])]),
                    count |-> Cardinality(DOMAIN in.storage)]]
    /\ storage_src' = [storage_src EXCEPT ![sid] = in]
    /\ UNCHANGED <<input, r_env, r_seed, warned, env_src, seed_src>>

\* set_evm_env: calls setEVMEnv with four arguments (caller, to, timestamp,
\* blocknum), none reversed, against the runner's three parameters.  The
\* runner takes the caller's bytes for `to`, reads the 32-byte timestamp
\* from the 20-byte `to` array (the bytes past it are whatever the stack
\* holds) and the timestamp for the block number.
SetEvmEnv(t) ==
    LET in == input[t] IN
    /\ \E past \in [1..(NBytes - ABytes) -> Bytes] :
          r_env' = [to |-> AddrBytes(in.caller),
                    timestamp |-> AddrBytes(in.contract) \o past,
                    blocknum |-> ToBytesLE(in.timestamp)]
    /\ env_src' = in
    /\ UNCHANGED <<input, r_seed, r_storage, warned, seed_src, storage_src>>

Init ==
    /\ input \in [Threads -> Inputs]
    /\ r_env = NoValue
    /\ r_seed = [t \in Threads |-> NoValue]
    /\ r_storage = [s \in StateIds |-> NoValue]
    /\ warned = [t \in Threads |-> FALSE]
    /\ env_src = NoValue
    /\ seed_src = [t \in Threads |-> NoValue]
    /\ storage_src = [s \in StateIds |-> NoValue]

Next ==
    \E t \in Threads :
        \/ Assign(t)
        \/ CuLoadEvmEnv(t)
        \/ CuLoadInput(t)
        \/ \E sid \in StateIds : CuLoadStorage(t, sid)

\* The same, with set_evm_env among the calls a thread can make.
NextWithSetEvmEnv == Next \/ \E t \in Threads : SetEvmEnv(t)

Spec == Init /\ [][Next]_vars
SpecWithSetEvmEnv == Init /\ [][NextWithSetEvmEnv]_vars

(***************************************************************************)
(* How the runner reads what it was handed (little-endian words, 64-byte  *)
(* slots), and what it should find.                                        *)
(***************************************************************************)
ValueOf(v) == IF v = NoValue THEN 0 ELSE v

SlotAt(bytes, i) == SubSeq(bytes, (i - 1) * SlotBytes + 1, i * SlotBytes)

RunnerSlots(st) ==
    {<<FromBytesLE(SubSeq(SlotAt(st.bytes, i), 1, NBytes)),
       FromBytesLE(SubSeq(SlotAt(st.bytes, i), NBytes + 1, SlotBytes))>> :
        i \in 1..st.count}

StorageSlots(in) ==
    IF in.storage = NoValue THEN {} ELSE {<<k, in.storage[k]>> : k \in DOMAIN in.storage}

(***************************************************************************)
(* Properties                                                              *)
(***************************************************************************)

\* The environment the runner holds decodes to the contract, timestamp and
\* block number of the input that last loaded it (cu_load_evm_env's
\* reversal and to_le_bytes against the runner's little-endian reads).
EnvDecodesToLoadedInput ==
    r_env # NoValue =>
        /\ FromBytesLE(r_env.to) = env_src.contract
        /\ FromBytesLE(r_env.timestamp) = env_src.timestamp
        /\ FromBytesLE(r_env.blocknum) = env_src.number

\* Each thread's seed decodes to the caller, call value (0 for None) and
\* calldata size of the input the thread last loaded with cu_load_input.
SeedDecodesToLoadedInput ==
    \A t \in Threads : r_seed[t] # NoValue =>
        /\ FromBytesLE(r_seed[t].caller) = seed_src[t].caller
        /\ FromBytesLE(r_seed[t].value) = ValueOf(seed_src[t].txn_value)
        /\ r_seed[t].size = seed_src[t].calldata.len

\* The runner executes a shorter calldata than the input's exactly when
\* cu_load_input printed the SEED_SIZE warning for that load: no seed is
\* cut silently and no warning is spurious.
SeedCutOnlyWhenWarned ==
    \A t \in Threads : r_seed[t] # NoValue =>
        (r_seed[t].data # seed_src[t].calldata <=> warned[t])

\* The runner's storage under each state id decodes, slot by slot and in
\* whatever order the HashMap gave them, to exactly the slots of the input
\* cu_load_storage was last called with for that id.
StorageDecodesToLoadedState ==
    \A s \in StateIds : r_storage[s] # NoValue =>
        /\ RunnerSlots(r_storage[s]) = StorageSlots(storage_src[s])
        /\ r_storage[s].count = Cardinality(StorageSlots(storage_src[s]))

====
