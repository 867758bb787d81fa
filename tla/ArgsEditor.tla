----------------------------- MODULE ArgsEditor -----------------------------
(***************************************************************************)
(* nstl::is_arg_set (nstl/nstl/args_editor.cpp): the loop that takes every *)
(* occurrence of a flag out of argv, in place.  Indices are the code's,    *)
(* from 0.  The comparison is nstl::strcmp, for which a null entry is not  *)
(* the flag.                                                               *)
(***************************************************************************)
EXTENDS Integers, Sequences, FiniteSets

CONSTANTS
  Entries,            \* what argv may hold, null pointers included
  Flag,               \* value_
  MaxArgs             \* bound: argc at the call

ArgsAssumption == Flag \in Entries /\ MaxArgs \in Nat

VARIABLES
  argv, argc, index, found,
  loop,               \* the loop is running
  given               \* history: argv at the call

argsVars == <<argv, argc, index, found, loop, given>>

Init ==
  /\ given \in UNION {[0..(n - 1) -> Entries] : n \in 0..MaxArgs}
  /\ argv = given
  /\ argc = Cardinality(DOMAIN given)
  /\ index = 0
  /\ found = FALSE
  /\ loop = TRUE

Strcmp(l, r) == l = r

\* Mutant: the entry that moved into the gap is not looked at.
RemoveSkips ==
  /\ loop /\ index < argc /\ Strcmp(Flag, argv[index])
  /\ found' = TRUE
  /\ argv' = [k \in DOMAIN argv |-> IF k \in index..(argc - 2) THEN argv[k + 1]
                                    ELSE IF k = argc - 1 THEN argv[index] ELSE argv[k]]
  /\ argc' = argc - 1
  /\ index' = index + 1
  /\ UNCHANGED <<loop, given>>

\* The entries behind move down, the flag goes to the end; index stays.
Remove ==
  /\ loop /\ index < argc /\ Strcmp(Flag, argv[index])
  /\ found' = TRUE
  /\ argv' = [k \in DOMAIN argv |-> IF k \in index..(argc - 2) THEN argv[k + 1]
                                    ELSE IF k = argc - 1 THEN argv[index] ELSE argv[k]]
  /\ argc' = argc - 1
  /\ UNCHANGED <<index, loop, given>>

Pass ==
  /\ loop /\ index < argc /\ ~Strcmp(Flag, argv[index])
  /\ index' = index + 1
  /\ UNCHANGED <<argv, argc, found, loop, given>>

Return ==
  /\ loop /\ ~(index < argc)
  /\ loop' = FALSE
  /\ UNCHANGED <<argv, argc, index, found, given>>

Next == Remove \/ Pass \/ Return
-----------------------------------------------------------------------------
(***************************************************************************)
(* README.md:66: "removing every matching entry in place (shifting         *)
(* `argc`/`argv` down) and returning whether it was found".  Adjacent,     *)
(* first and last flags are all removed, the others keep their order, and  *)
(* no pointer is lost from argv.                                           *)
(***************************************************************************)
ArgsAreFiltered ==
  LET Listed(a, n) == [i \in 1..n |-> a[i - 1]]
      all == Cardinality(DOMAIN given)
  IN  ~loop =>
        /\ Listed(argv, argc) = SelectSeq(Listed(given, all), LAMBDA e : e # Flag)
        /\ found <=> Flag \in {given[k] : k \in DOMAIN given}
        /\ \A k \in argc..(all - 1) : argv[k] = Flag
=============================================================================
