----------------------------- MODULE HandleRaii -----------------------------
(***************************************************************************)
(* custom_raii as FileIntRaii and HandleRaii (nstl/nstl/handle_raii.hpp,   *)
(* handle_raii.cpp) and scope_exit (scope_exit.hpp), in a program that     *)
(* hands its handles from one owner to the next: to objects, to guards     *)
(* that close them, and back.  0 is descriptor 0, or a null HANDLE.        *)
(***************************************************************************)
EXTENDS Integers, FiniteSets

CONSTANTS
  Objects,            \* custom_raii objects
  Guards,             \* scope_exit objects, their function closes a handle
  Handles,            \* a subset of Nat
  None                \* the object does not exist

HandleAssumption == Handles \subseteq Nat

VARIABLES
  held,               \* _hndlr of each object
  armed,              \* the handle each guard's _func closes, Invalid if it is empty
  raw,                \* handles in variables of the program
  open                \* handles the system has given out

vars == <<held, armed, raw, open>>

Invalid == -1

Init ==
  /\ held = [o \in Objects |-> None]
  /\ armed = [g \in Guards |-> None]
  /\ raw = {}
  /\ open = {}

\* FileIntHandle::valid and WindowsHandle::valid.
Valid(h) == h # Invalid /\ h # 0

\* What a variable of the program holds: nothing is gained from Invalid.
Kept(h) == {h} \ {Invalid}
-----------------------------------------------------------------------------
(* The program and the system (external).                                  *)

Opens(h) ==
  /\ h \notin open
  /\ open' = open \cup {h}
  /\ raw' = raw \cup {h}
  /\ UNCHANGED <<held, armed>>

Closes(h) ==
  /\ h \in raw
  /\ open' = open \ {h}
  /\ raw' = raw \ {h}
  /\ UNCHANGED <<held, armed>>
-----------------------------------------------------------------------------
(* custom_raii                                                             *)

Exists(o) == held[o] # None

\* What stays open once the object has let go of its handle.
Freed(o) == IF Valid(held[o]) THEN open \ {held[o]} ELSE open

Construct(o, h) ==
  /\ ~Exists(o)
  /\ held' = [held EXCEPT ![o] = h]
  /\ raw' = raw \ {h}
  /\ UNCHANGED <<armed, open>>

\* Mutant: the other object keeps the handle.
MoveConstructCopy(o, p) ==
  /\ ~Exists(o) /\ Exists(p)
  /\ held' = [held EXCEPT ![o] = held[p]]
  /\ UNCHANGED <<armed, raw, open>>

MoveConstruct(o, p) ==
  /\ ~Exists(o) /\ Exists(p)
  /\ held' = [held EXCEPT ![o] = held[p], ![p] = Invalid]
  /\ UNCHANGED <<armed, raw, open>>

\* reset(), then swap(): the other object gets what reset() leaves here.
MoveAssign(o, p) ==
  /\ o # p
  /\ Exists(o) /\ Exists(p)
  /\ open' = Freed(o)
  /\ held' = [held EXCEPT ![o] = held[p], ![p] = Invalid]
  /\ UNCHANGED <<armed, raw>>

Reset(o, h) ==
  /\ Exists(o)
  /\ open' = Freed(o)
  /\ held' = [held EXCEPT ![o] = h]
  /\ raw' = raw \ {h}
  /\ UNCHANGED armed

Release(o) ==
  /\ Exists(o)
  /\ held' = [held EXCEPT ![o] = Invalid]
  /\ raw' = raw \cup Kept(held[o])
  /\ UNCHANGED <<armed, open>>

Swap(o, p) ==
  /\ Exists(o) /\ Exists(p)
  /\ held' = [held EXCEPT ![o] = held[p], ![p] = held[o]]
  /\ UNCHANGED <<armed, raw, open>>

SwapRaw(o, h) ==
  /\ Exists(o)
  /\ held' = [held EXCEPT ![o] = h]
  /\ raw' = (raw \ {h}) \cup Kept(held[o])
  /\ UNCHANGED <<armed, open>>

Destruct(o) ==
  /\ Exists(o)
  /\ open' = Freed(o)
  /\ held' = [held EXCEPT ![o] = None]
  /\ UNCHANGED <<armed, raw>>
-----------------------------------------------------------------------------
(* scope_exit: the handle goes to the function, and comes back with it.    *)

OnScopeExit(g, h) ==
  /\ armed[g] = None
  /\ armed' = [armed EXCEPT ![g] = h]
  /\ raw' = raw \ {h}
  /\ UNCHANGED <<held, open>>

\* The function is dropped without being called: the handle is the program's again.
GuardReset(g) ==
  /\ armed[g] # None
  /\ armed' = [armed EXCEPT ![g] = Invalid]
  /\ raw' = raw \cup Kept(armed[g])
  /\ UNCHANGED <<held, open>>

GuardSwap(g, h) ==
  /\ armed[g] # None
  /\ armed' = [armed EXCEPT ![g] = h]
  /\ raw' = (raw \ {h}) \cup Kept(armed[g])
  /\ UNCHANGED <<held, open>>

\* The scope is left, by return or by an exception.
GuardEnd(g) ==
  /\ armed[g] # None
  /\ armed' = [armed EXCEPT ![g] = None]
  /\ open' = open \ Kept(armed[g])
  /\ UNCHANGED <<held, raw>>
-----------------------------------------------------------------------------
Next ==
  \/ \E h \in Handles : Opens(h) \/ Closes(h)
  \/ \E o \in Objects :
       \/ Release(o) \/ Destruct(o)
       \/ \E p \in Objects : MoveConstruct(o, p) \/ MoveAssign(o, p) \/ Swap(o, p)
       \/ \E h \in raw \cup {Invalid} : Construct(o, h) \/ Reset(o, h) \/ SwapRaw(o, h)
  \/ \E g \in Guards :
       \/ GuardReset(g) \/ GuardEnd(g)
       \/ \E h \in raw \cup {Invalid} : OnScopeExit(g, h) \/ GuardSwap(g, h)

Spec == Init /\ [][Next]_vars
-----------------------------------------------------------------------------
(* Properties.                                                             *)

Owners(h) ==
  Cardinality({o \in Objects : held[o] = h}) + Cardinality({g \in Guards : armed[g] = h})
    + IF h \in raw THEN 1 ELSE 0

(***************************************************************************)
(* However a handle travels, it is closed once: an open one has exactly    *)
(* one owner, and nobody owns one that is closed and may be given out      *)
(* again.  The exception is 0, which an object drops without closing it.   *)
(***************************************************************************)
HandleClosedOnce ==
  \A h \in Handles :
    /\ h \notin open => Owners(h) = 0
    /\ h \in open => Owners(h) = 1 \/ (h = 0 /\ Owners(h) = 0)
=============================================================================
