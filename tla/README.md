# TLA+ models of the mau fuzz-input core and the heimdall decompile pipeline

This directory holds TLA+ models of the code under `src/`. Each model is
checked with TLC. `PROJECT.json` lists the components, the runs, the mutants
that show each property can fail, the source lines each definition models,
the findings and the hazards.

## 1. Inventory

The repository's `src/` has three files. Each belongs to one of two
subsystems (spec.md section 2).

### Fuzz-input record and mutators (`src/src/evm/input.rs`, component I)

- **State.** One `EVMInput` is the fuzzer's unit of work. It holds:
  - `caller` and `contract`;
  - `data`, an optional ABI payload, with `direct_data` as a fallback;
  - the staged VM state and its index;
  - `txn_value`, an `Option<U256>`;
  - `step`;
  - `env`, the block and cfg fields;
  - `access_pattern`, an `Rc<RefCell<..>>` shared with the executor;
  - `randomness`, `repeat`, `cu_data`, `is_cuda` and `branch_distance`.
- **Operations.**
  - `mutate` picks between the environment branch and the payload branch.
  - `mutate_env_with_access_pattern` builds the list of enabled mutators from
    the access pattern and picks one at random.
  - The environment mutators are:
    - the u256 macro (basefee, timestamp, gas_limit, number, chain_id);
    - the h160 macro (coinbase);
    - `caller`;
    - `call_value`, which zeroes the top 16 bytes;
    - three stubs that always return `Skipped` (prevrandao, gas_price, balance).
  - The setters are `set_txn_value`, `set_caller`, `set_step` (which also drops
    the value), `set_cuda_input`, `set_as_post_exec`, `set_staged_state` and
    `set_distance`.
- **Interactions.**
  - The fuzzer loop calls `mutate` and the setters.
  - The executor writes the shared access pattern between rounds.
  - The LibAFL `byte_mutator` and the ABI payload mutator are external
    collaborators.
- **Hard parts.** The Skipped/Mutated contract runs across three nested levels
  of dispatch. The byte-order conversions around the byte mutator matter. The
  gate on enabled mutators depends on two pieces of state: the access pattern
  and `txn_value`. These become hard when the setters and the fuzzer's calls
  come in long sequences.
- **Correctness.**
  - A `Skipped` mutation leaves the record unchanged.
  - A mutated call value stays below 2^128.
  - A mutation touches at most one field, and only a field the access pattern
    enables.
  - With no payload, the environment is mutated (spec 4.I).

### Foreign executor bridge (`input.rs`: `cu_load_evm_env`, `cu_load_input`, `cu_load_storage`, `set_evm_env`; component J)

- **What it does.** It marshals the record into the native runner through
  `extern "C"` calls. It uses little-endian integers and byte-reversed
  addresses.
- **Hard parts.**
  - `setEVMEnv` is declared with three parameters in one place and with four
    in another.
  - `cu_load_input` always passes `state_idx` 0, whatever the thread.
  - A SEED_SIZE overflow is only logged.
- **Correctness.** The runner decodes what the record holds. Which storage a
  seed runs against is the runner's contract, and spec 9 (open question 2)
  leaves it undecided.

### Decompile pipeline (`src/externals/heimdall-rs/heimdall/src/decompile/mod.rs`)

- **State.** The function `decompile_with_bytecode` keeps:
  - the selector list;
  - `resolved_selectors`;
  - `analyzed_functions`;
  - the loop position.
- **Operations.**
  1. Disassemble the bytecode and detect the compiler.
  2. Find the selectors. Resolving them is skipped: `skip_resolving` is a
     local `let ... = true` (line 75), not a parameter, and the CLI field
     `DecompilerArgs.skip_resolving` is never read. `resolved_selectors` stays
     the empty map of line 137.
  3. For each selector, in discovery order:
     - resolve its entry point. An entry point of 0 is a false positive, and
       the loop moves on to the next selector;
     - run `map_selector` and `analyze`;
     - skip the resolving block (lines 255-422), which never runs;
     - push the function.
  4. Call `build_output`.
- **Interactions.** The disassembler, the selector finder, the symbolic
  executor and the analyser are collaborators outside `src/`. Each gives a
  deterministic answer for a given bytecode.
- **Correctness.** The output lists, in discovery order, every selector with
  a real entry point, and the loop always reaches `build_output`.

### Target validation (`src/externals/heimdall-rs/common/src/consts.rs`)

This file only defines four regexes. No code in `src/` applies them: `mod.rs`
imports two and does not use them, and `REDUCE_HEX_REGEX` is never used. There
is no operation to model, so the file is not modelled (section 7).

### Not in `src/`

These collaborators are absent from `src/`:

- the disassembler;
- the compiler fingerprinter;
- the selector finder;
- the signature resolver;
- the symbolic executor;
- the analyser;
- the parameter matcher;
- the output assembler.

The pipeline model sees only their answers.

## 2. Plan

| Order | Module | Models | Status |
|---|---|---|---|
| 1 | `EvmWord` | U256 byte encodings (BE and LE, top-half zeroing), scaled to `NBytes` bytes | done |
| 2 | `EVMInput` + `MCEVMInput` | the record, `mutate` and every mutator and setter | done |
| 3 | `DecompilePipeline` + `MCDecompilePipeline` | the selector loop of `decompile_with_bytecode` | done |
| 4 | `DecompileOutput` | abstract spec of the loop, refined by `DecompilePipeline` through `INSTANCE ... WITH` | done |
| 5 | `CudaBridge` + `MCCudaBridge` (EXTENDS `EvmWord`) | `cu_load_evm_env`, `cu_load_input`, `cu_load_storage`, `set_evm_env`, with two threads loading into one runner | done |
| 6 | `FuzzWorker` | one worker's select, mutate, marshal and execute round | not possible: the worker loop is not in `src/` (see section 7) |

## 3. Modules and how they map to the code

### `EVMInput`

- **Variables.** One variable per field of the record that some control flow
  reads: `caller`, `env`, `txn_value`, `data`, `step`, `is_cuda`. The
  variable `access_pattern` holds the `AccessPattern` flags. `sstate_idx` and
  `branch_distance` hold what `set_staged_state` and `set_distance` store.
- **Return values.** `result` is the `MutationResult` of the last step, or
  `NoResult` when the step was not a mutation. `mutator` is the mutator that
  the last mutation dispatched to.
- **`Mutate`.** This action is the whole of `VMInputT::mutate`:
  - the random roll `% 100 > 87`, drawn only for non-CUDA inputs;
  - the environment branch or the payload branch;
  - inside the environment branch, the chosen mutator with its own
    skip/write logic.
- **Setters and the executor.** Each setter is an action. `RecordAccess`
  models the executor setting an access-pattern flag. That code is outside
  `src/` and is marked `spec_modelled`.
- **Collaborators.** `byte_mutator` is the set `ByteMutatorOutcomes`: either
  Skipped, or Mutated to any byte string of the same length. The ABI payload
  mutator either skips or yields any payload.

### `EvmWord`

- A word is a natural number below `ByteBase^NBytes`.
- `ToBytesBE`, `FromBytesBE` and `ToBytesLE` are the real conversions,
  defined byte by byte.
- `ZeroHighHalf` is the loop at `input.rs:531-533`.

### `DecompilePipeline`

- **Facts of the bytecode.** `entry_point`, the answer of the entry-point
  resolver for each selector, is chosen in `Init` and never changed.
- **Actions.**
  - `FindFunctionSelectors` is lines 134-144 with `skip_resolving` true.
  - `AnalyzeSelector` is one whole iteration of the loop at lines 152-424:
    the false-positive `continue`, or the analysis and the push.
  - `BuildOutput` hands the functions to the output.
- **Left out.** The resolving path is dead in this function (see section 1),
  so it is not modelled.

### `CudaBridge`

- **Inputs.** Each thread owns one EVMInput record from the constant set
  `Inputs`. The record holds only the fields the bridge reads: contract,
  caller, value, timestamp, block number, calldata (an id and a length), the
  contract's storage (or `NoValue` when the staged state has none) and the
  staged-state index. `Assign` hands a thread its next input. That is the
  fuzzer's worker loop, which is outside `src/`.
- **Runner.** The runner library is outside the repository. Its side follows
  the ABI of spec 5:
  - `r_env` holds the bytes of the one environment;
  - `r_seed[t]` holds the seed of thread `t`; `RunnerCopy` keeps at most
    `SEED_SIZE - 68` bytes of calldata;
  - `r_storage[id]` holds the slot bytes and slot count of a state id.
- **Actions.**
  - `CuLoadEvmEnv`, `CuLoadInput`, `CuLoadStorage` and `SetEvmEnv` each model
    one whole function.
  - The byte conversions are small operators (`MarshalAddr`, `MarshalValue`,
    `Slot`). They are written with the real big- and little-endian encodings
    of `EvmWord`.
  - `CuLoadStorage` sends the slots in any order, as a `HashMap` iterates.
  - No code in `src/` calls `cu_load_storage` (its calls in `cu_load_input`
    are commented out). So `CuLoadStorage(t, sid)` takes any state id, as
    its caller outside `src/` may pass.
  - `SetEvmEnv` passes four arguments to the three-parameter symbol. The
    runner reads the 32-byte timestamp from the 20-byte `to` array. The bytes
    past that array are undefined, so they are a nondeterministic choice.
- **History.** `env_src`, `seed_src` and `storage_src` record which
  input each runner copy came from. The properties decode the runner's bytes
  the way the runner does and compare them with those inputs.

### `DecompileOutput`

This is the abstract specification. In a single step it produces the function
list that spec 4.C-4.E, 5 and 7 promise: every selector with a real entry
point, in discovery order, none dropped, and under `--skip-resolving` none
resolved. `DecompilePipeline` maps its
`phase` and `analyzed_functions` onto the abstract `status` and `functions`.

## 4. Runs

| Run | Expect | What it shows |
|---|---|---|
| `evm_input` | pass | See below. |
| `evm_access_pattern_gate` | violation | An input with `txn_value = Some(0)` and an access pattern that never read `call_value` still has its call value mutated (`input.rs:561`). Spec 4.I and scenario 6 say otherwise. |
| `evm_address_mutation` | violation | The coinbase mutator draws the current coinbase, which differs from the caller. It returns `Mutated` and nothing changes (`input.rs:401`). |
| `evm_cuda_no_env` | violation | After `set_cuda_input(true)`, an input with no payload takes the payload branch and is `Skipped` every time (`input.rs:593`). |
| `decompile` | pass | See below. |
| `bridge` | pass | See below. |
| `bridge_set_evm_env` | violation | Through `set_evm_env` the runner's contract is the caller's unreversed bytes, its timestamp partly stack bytes and its block number the timestamp (`input.rs:640`). |

**`evm_input`.** In every order of mutations, setter calls and access-pattern
recordings, three things hold:

- a `Skipped` mutation leaves the record unchanged;
- a successful `call_value` mutation yields a value below 2^128;
- a mutation changes at most one field, and only a field that the access
  pattern or the existing value enables.

**`decompile`.** For every choice of entry points of three selectors, the
loop reaches `build_output` and implements `DecompileOutput`: the functions
it hands over are exactly the selectors with a real entry point, in
discovery order.

**`bridge`.** In every order of two threads loading environments, seeds and
storage:

- the environment decodes to the contract, timestamp and block number of the
  input that loaded it last;
- each thread's seed decodes to its input's caller, value (0 for `None`) and
  calldata size;
- a seed is cut short exactly when the SEED_SIZE warning was printed for it;
- each state id's storage decodes to exactly the slots of its input, in
  either `HashMap` order.

Each property of a passing run has a mutant in `PROJECT.json`. The mutant is a
plausible bug in the modelled code, and TLC finds the property violated when
the mutant replaces the definition. The mutants are:

- a value written back before the Skipped check;
- the loop zeroing the wrong half of the bytes;
- a u256 mutator enabled without its guard;
- the false-positive `continue` left out;
- an address sent without its reversal;
- a value or a storage slot sent big-endian;
- a SEED_SIZE check that forgets the 68-byte header.

No module has a type invariant. Rust's types already guarantee what one would
state, so no plausible bug of this code could violate it.

## 5. Bounds and why they are enough

### `MCEVMInput`

- **Callers.** Two addresses, so a draw can equal the current value or differ
  from it.
- **Payloads.** One payload, plus `None` and the post-execution `AUnknown`.
- **Words.** Two "bytes" of two values each. That is the smallest size with a
  high half and a low half, so the BE/LE order and the zeroing loop can be
  told apart.
- **Fields.** One field of each mutator family: `timestamp` for the u256
  macro, `coinbase` for the h160 macro, and `gas_price` for the stubs. The
  members of a family share one body, so more members add only symmetric
  states.
- **Staged states and distances.** Two values each, so a setter can store a
  value equal to or different from the current one.
- **Size.** The run reaches 546 176 distinct states in about 50 s.

### `MCDecompilePipeline`

- **Selectors.** Three selectors, each a false positive or real at one of two
  offsets, so dropped and kept selectors come in every order.
- **Size.** The run reaches 162 distinct states, all of them in under 1 s.

### `MCCudaBridge`

- **Threads.** Two threads and two state ids, so two threads can load
  different storages under one id.
- **Words and addresses.** Words of 4 bits and addresses of 2. At that size
  the two byte orders of the addresses 1 and 2 differ, and a 32-to-20 style
  over-read exists.
- **Inputs.**
  - `i1` has no storage and calldata that fits.
  - `i2` has two storage slots, so both iteration orders occur, and calldata
    one byte over `SEED_SIZE - 68`. With `SEED_SIZE` 4 and a header of 2, a
    check that forgets the header tells it apart.
  - `i3` shares `i2`'s contract and storage and has `Some(0)` as its value.
  - `i4` has a one-slot storage of the other contract.
- **Size.** The run reaches 98 000 distinct states in about 35 s.

## 6. Fairness

- `DecompilePipeline` assumes `WF_vars(Next)`. The pipeline is one sequential
  thread with no blocking step, because under `default_val` the prompts
  return at once. So while it has not finished, its next statement runs.
- `DecompileOutput`'s `WF` on `Finish` is the promise that decompilation ends.
- The pipeline really stops, at `done`. For that reason its cfgs
  set `CHECK_DEADLOCK FALSE`, and termination is checked by the refinement's
  liveness part instead.
- `CudaBridge` assumes no fairness. The bridge's calls are made by the
  worker loop outside `src/`, which promises no order.
- `EVMInput` assumes no fairness. The fuzzer's choices are random, and no
  property of this record depends on one of them eventually being made.

## 7. Not modelled, and why

- **Worker loop.** The loop that hands inputs to threads and orders the
  bridge calls is not in `src/`. So the bridge's `Assign` is free, and no
  property can say whether one batch's environment fits every seed in it
  (hazard at `input.rs:280`). For the same reason there is no `FuzzWorker`
  module composing `EVMInput` with `CudaBridge`: nothing in `src/` makes the
  two interact.
- **The runner library.** Only its ABI (spec 5) is modelled.
- **Target validation.** `consts.rs` only defines regexes that nothing in
  `src/` applies.
- **The resolving path of `decompile_with_bytecode`.** Lines 138-141 and
  255-422 never run, since `skip_resolving` is the local constant `true`.
- **Which storage a seed runs against.** `cu_load_input` passes the literal
  `state_idx` 0 (hazard at `input.rs:327`). Whether that is right is the
  runner's contract, which spec 9 leaves open.
- **Fields left out.** `randomness`, `liquidation_percent` (behind the
  `flashloan_v2` feature) and `repeat` are not modelled. No control flow in
  `src/` reads them. The staged state's index and the branch distance are
  modelled only as the values their setters store: the staged state supplies
  hint values to the byte mutator, whose nondeterministic outcome already
  covers them.
- **Formatting and scoring.** `pretty_txn`, `fav_factor` and `generate_name`
  are not modelled.
- **Logging and tracing.** The `trace.*` and progress-bar calls in `mod.rs`
  are left out.
- **External collaborators.** Everything in section 1 under "Not in `src/`"
  is seen only through its answers.
