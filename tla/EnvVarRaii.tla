----------------------------- MODULE EnvVarRaii -----------------------------
(***************************************************************************)
(* nstl::env_var_raii (nstl/nstl/env_var_raii.cpp): guards on environment  *)
(* variables, nested in any way over several names, in a program that sets *)
(* variables itself.  setenv does not run out of memory.                   *)
(***************************************************************************)
EXTENDS Integers, SequencesExt

CONSTANTS
  Names, Values,
  Unset,              \* no value: a null pointer
  MaxGuards           \* bound: guards that exist at once

EnvAssumption == Unset \notin Values /\ MaxGuards \in Nat

VARIABLES
  env,                \* the environment
  guards              \* the guards, innermost last; before (the environment at the
                      \* construction) and dirty (set by the program since) are history

envVars == <<env, guards>>

Init ==
  /\ env \in [Names -> Values \cup {Unset}]
  /\ guards = <<>>

Noop(name, value) == value = Unset /\ env[name] = Unset

\* The constructor: value is a string, or null to clear the variable.
Construct(name, value) ==
  /\ Len(guards) < MaxGuards
  /\ guards' = Append(guards, [name |-> name, prev |-> env[name],
                               noop |-> Noop(name, value),
                               before |-> env, dirty |-> {}])
  /\ env' = [env EXCEPT ![name] = value]

\* Mutant: only a variable that was set before is restored.
RestoredSet(g) == IF g.noop \/ g.prev = Unset THEN env ELSE [env EXCEPT ![g.name] = g.prev]

Restored(g) == IF g.noop THEN env ELSE [env EXCEPT ![g.name] = g.prev]

\* The destructor of the innermost guard.
Destruct ==
  /\ guards # <<>>
  /\ env' = Restored(Last(guards))
  /\ guards' = Front(guards)

\* The program sets a variable itself, under the guards it has.
Setenv(name, value) ==
  /\ env' = [env EXCEPT ![name] = value]
  /\ guards' = [i \in DOMAIN guards |-> [guards[i] EXCEPT !.dirty = @ \cup {name}]]

Next ==
  \/ \E n \in Names, v \in Values \cup {Unset} : Construct(n, v) \/ Setenv(n, v)
  \/ Destruct
-----------------------------------------------------------------------------
(***************************************************************************)
(* README.md:80: "restores its previous value on destruction".  When a     *)
(* guard is destroyed, every variable is what it was when the guard was    *)
(* constructed, whatever guards came and went inside, except those that    *)
(* the program set itself; of these the guard's own is restored as well,   *)
(* unless there was nothing to clear.                                      *)
(***************************************************************************)
EnvIsRestored ==
  [][Len(guards') < Len(guards) =>
       LET g == Last(guards) IN
       \A n \in Names :
         (n \notin g.dirty \/ (n = g.name /\ ~g.noop)) => env'[n] = g.before[n]]_envVars
=============================================================================
