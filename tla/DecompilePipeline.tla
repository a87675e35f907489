-------------------------- MODULE DecompilePipeline --------------------------
(***************************************************************************)
(* The per-selector loop of decompile_with_bytecode in                     *)
(* src/externals/heimdall-rs/heimdall/src/decompile/mod.rs: find the       *)
(* selectors, then for each selector in discovery order find its entry     *)
(* point, drop it as a false positive or analyse it and collect it, and    *)
(* hand the collected functions to build_output.                           *)
(*                                                                         *)
(* `let skip_resolving = true` (line 75) is a local constant: the calls to *)
(* resolve_function_selectors (line 139) and the whole resolving block of  *)
(* lines 255-422 never run in this function, and resolved_selectors stays *)
(* the empty HashMap of line 137.  They are not modelled.                  *)
(*                                                                         *)
(* The collaborators outside this repository (the selector finder, the     *)
(* entry-point resolver, the symbolic executor and analyser) are           *)
(* deterministic for a given bytecode: the entry points are chosen once in *)
(* Init and kept in entry_point.                                           *)
(***************************************************************************)
EXTENDS Naturals, Sequences

CONSTANTS
    Selectors,      \* find_function_selectors: the selectors in discovery order
    EntryPoints,    \* offsets resolve_entry_point can return; 0 flags a false positive
    NoValue         \* Rust None

ASSUME
    \* find_function_selectors collapses duplicates to the first occurrence
    /\ \A i, j \in 1..Len(Selectors) : Selectors[i] = Selectors[j] => i = j
    /\ 0 \in EntryPoints /\ EntryPoints \subseteq Nat

Sels == {Selectors[i] : i \in 1..Len(Selectors)}

VARIABLES
    entry_point,         \* selector -> resolve_entry_point (fixed after Init)
    idx,                 \* position of the loop in `selectors`
    analyzed_functions,  \* the Vec of line 151
    phase                \* "find", "analyze" or "done"

vars == <<entry_point, idx, analyzed_functions, phase>>

\* The Function map.analyze returns for selector s (lines 198-216): its
\* selector and entry point, resolved_function None.
Analyzed(s) == [selector |-> s, entry_point |-> entry_point[s], resolved |-> NoValue]

(***************************************************************************)
(* Actions                                                                 *)
(***************************************************************************)

\* Lines 134-144: find the selectors; with skip_resolving only log them.
FindFunctionSelectors ==
    /\ phase = "find"
    /\ phase' = "analyze"
    /\ UNCHANGED <<entry_point, idx, analyzed_functions>>

\* Mutant of AnalyzeSelector: the false-positive `continue` is left out.
AnalyzeSelectorKeepsFalsePositives ==
    /\ phase = "analyze"
    /\ idx <= Len(Selectors)
    /\ analyzed_functions' = Append(analyzed_functions, Analyzed(Selectors[idx]))
    /\ idx' = idx + 1
    /\ UNCHANGED <<entry_point, phase>>

\* One iteration of the loop of lines 152-424 for selectors[idx]: entry
\* point 0 is a false positive and `continue`s (lines 168-179); otherwise
\* the selector is mapped and analysed (181-253), the resolving block is
\* skipped, and the function pushed (line 424).
AnalyzeSelector ==
    /\ phase = "analyze"
    /\ idx <= Len(Selectors)
    /\ LET s == Selectors[idx] IN
       \/ entry_point[s] = 0 /\ UNCHANGED analyzed_functions
       \/ entry_point[s] # 0 /\ analyzed_functions' = Append(analyzed_functions, Analyzed(s))
    /\ idx' = idx + 1
    /\ UNCHANGED <<entry_point, phase>>

\* Lines 428-440: the loop is over; build_output receives the functions.
BuildOutput ==
    /\ phase = "analyze"
    /\ idx > Len(Selectors)
    /\ phase' = "done"
    /\ UNCHANGED <<entry_point, idx, analyzed_functions>>

\* Any bytecode: any entry point for each selector.
Init ==
    /\ entry_point \in [Sels -> EntryPoints]
    /\ idx = 1
    /\ analyzed_functions = <<>>
    /\ phase = "find"

Next ==
    \/ FindFunctionSelectors
    \/ AnalyzeSelector
    \/ BuildOutput

\* The pipeline is one sequential thread and its collaborators return (the
\* symbolic executor is bounded, spec 4.E): while it has not finished, its
\* next statement runs.
Spec == Init /\ [][Next]_vars /\ WF_vars(Next)

-----------------------------------------------------------------------------
(***************************************************************************)
(* Properties                                                              *)
(***************************************************************************)

\* The loop, seen from outside: running until build_output is called, then
\* the collected functions.
Output == INSTANCE DecompileOutput WITH
    status <- IF phase = "done" THEN "done" ELSE "running",
    functions <- IF phase = "done" THEN analyzed_functions ELSE <<>>

\* decompile_with_bytecode implements DecompileOutput: it always reaches
\* build_output, and hands it exactly the selectors with a real entry
\* point, in discovery order, each unresolved.
ImplementsDecompileOutput == Output!Spec

=============================================================================
