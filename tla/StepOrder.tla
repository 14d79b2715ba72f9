----------------------------- MODULE StepOrder -----------------------------
(***************************************************************************)
(* What the executor relies on: the steps of a pipeline are emitted one at *)
(* a time, each once, and each after every step it needs.                  *)
(***************************************************************************)
EXTENDS Sequences, Naturals

CONSTANT Steps
VARIABLES
  deps,      \* the steps each step needs
  emitted    \* the order so far

vars == <<deps, emitted>>

Emitted == {emitted[i] : i \in DOMAIN emitted}

Init ==
  /\ emitted = <<>>
  /\ deps \in [Steps -> SUBSET Steps]

Emit(s) ==
  /\ s \in Steps \ Emitted
  /\ deps[s] \subseteq Emitted
  /\ emitted' = Append(emitted, s)
  /\ UNCHANGED deps

Next == \E s \in Steps : Emit(s)

Spec == Init /\ [][Next]_vars
=============================================================================
