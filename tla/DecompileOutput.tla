--------------------------- MODULE DecompileOutput ---------------------------
(***************************************************************************)
(* What decompilation promises of the functions it hands to the output     *)
(* assembler, as one step from the bytecode's facts to the list: every     *)
(* selector the selector finder reported and the entry-point resolver did  *)
(* not flag as a false positive (spec 4.C, 4.E), in discovery order (spec  *)
(* 5: selectors are analysed sequentially), none dropped for want of a     *)
(* signature (spec 4.D, 7), and, under --skip-resolving, none resolved.    *)
(***************************************************************************)
EXTENDS Naturals, Sequences

CONSTANTS Selectors, EntryPoints, NoValue

VARIABLES
    entry_point,
    status,      \* "running" or "done"
    functions    \* the functions handed to the output

vars == <<entry_point, status, functions>>

Sels == {Selectors[i] : i \in 1..Len(Selectors)}

\* A selector yields a function when its entry point is real.
Emits(s) == entry_point[s] # 0

FunctionOf(s) == [selector |-> s, entry_point |-> entry_point[s], resolved |-> NoValue]

Emitted == SelectSeq(Selectors, Emits)

Expected == [i \in 1..Len(Emitted) |-> FunctionOf(Emitted[i])]

Init ==
    /\ entry_point \in [Sels -> EntryPoints]
    /\ status = "running"
    /\ functions = <<>>

Finish ==
    /\ status = "running"
    /\ status' = "done"
    /\ functions' = Expected
    /\ UNCHANGED entry_point

Spec == Init /\ [][Finish]_vars /\ WF_vars(Finish)

=============================================================================
