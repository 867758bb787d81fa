------------------------------- MODULE Vector -------------------------------
(***************************************************************************)
(* nstl::vector (nstl/nstl/vector.hpp): objects with a malloc'ed block     *)
(* each, grown by realloc, copied, moved, swapped and released.            *)
(*                                                                         *)
(* The heap is modelled block by block: realloc may return the same block  *)
(* or another one, or fail.  A cell without a living element is Junk.      *)
(* push_back takes a value that is not an element of the vector itself.  A *)
(* call that throws changes nothing.                                       *)
(***************************************************************************)
EXTENDS Integers, SequencesExt

CONSTANTS
  Objects,            \* vector objects
  Values,             \* elements
  Blocks,             \* addresses malloc may return
  Null, Junk,
  First,              \* the first capacity (16)
  SizeOf,             \* sizeof(Type)
  Modulus,            \* 2^w of size_t
  MaxSize             \* bound: no push_back beyond this size

VectorAssumption ==
  /\ Null \notin Blocks /\ Junk \notin Values
  /\ First \in Nat \ {0} /\ SizeOf \in Nat \ {0} /\ Modulus \in Nat \ {0}

VARIABLES
  vector,             \* _ptr, _size and _capacity of each object
  heap,               \* the cells of each block, Null for a free one
  contents,           \* history: the sequence each object should hold
  released            \* history: blocks handed out by release()

vectorVars == <<vector, heap, contents, released>>

Empty == [ptr |-> Null, size |-> 0, capacity |-> 0]

Init ==
  /\ vector = [o \in Objects |-> Empty]
  /\ heap = [b \in Blocks |-> Null]
  /\ contents = [o \in Objects |-> <<>>]
  /\ released = {}

\* The cells of a block with s in front.
Cells(s, capacity) == [i \in 1..capacity |-> IF i <= Len(s) THEN s[i] ELSE Junk]

Elements(h, v) == IF v.size = 0 THEN <<>> ELSE SubSeq(h[v.ptr], 1, v.size)

Free(h, b) == IF b = Null THEN h ELSE [h EXCEPT ![b] = Null]

MaxCapacity == (Modulus - 1) \div SizeOf
-----------------------------------------------------------------------------
(* _mem_reserve and _auto_capacity: the results [v, h] of a call for a     *)
(* vector v and a heap h, where ok is FALSE if it throws.                  *)

Grown(v, h, n) ==
  {[v |-> [v EXCEPT !.ptr = b, !.capacity = n],
    h |-> [Free(h, v.ptr) EXCEPT ![b] = Cells(Elements(h, v), n)],
    ok |-> TRUE] : b \in {b \in Blocks : h[b] = Null \/ b = v.ptr}}

MemReserve(v, h, n) ==
  IF MaxCapacity < n THEN {[v |-> v, h |-> h, ok |-> FALSE]}
  ELSE Grown(v, h, n) \cup {[v |-> v, h |-> h, ok |-> FALSE]}

\* Mutant: the needed capacity is not compared with the doubled one.
AutoCapacityDoubled(v, h, needed) ==
  IF needed <= v.capacity THEN {[v |-> v, h |-> h, ok |-> TRUE]}
  ELSE MemReserve(v, h, IF needed < First THEN First ELSE (v.capacity * 2) % Modulus)

AutoCapacity(v, h, needed) ==
  IF needed <= v.capacity THEN {[v |-> v, h |-> h, ok |-> TRUE]}
  ELSE MemReserve(v, h, IF needed < First THEN First
                        ELSE Max({needed, (v.capacity * 2) % Modulus}))
-----------------------------------------------------------------------------
(* Operations on one object.                                               *)

PushBack(o, e) ==
  /\ vector[o].size < MaxSize
  /\ \E r \in AutoCapacity(vector[o], heap, vector[o].size + 1) :
       /\ r.ok
       /\ vector' = [vector EXCEPT ![o] = [r.v EXCEPT !.size = @ + 1]]
       /\ heap' = [r.h EXCEPT ![r.v.ptr][r.v.size + 1] = e]
  /\ contents' = [contents EXCEPT ![o] = Append(@, e)]
  /\ UNCHANGED released

Reserve(o, n) ==
  \E r \in AutoCapacity(vector[o], heap, n) :
    /\ vector' = [vector EXCEPT ![o] = r.v]
    /\ heap' = r.h
    /\ UNCHANGED <<contents, released>>

\* The elements i..j-1 (from 1) go and the ones behind move down.
EraseCells(o, i, j) ==
  LET v == vector[o]
      left == SubSeq(heap[v.ptr], 1, i - 1) \o SubSeq(heap[v.ptr], j, v.size)
  IN  /\ heap' = [heap EXCEPT ![v.ptr] = Cells(left, v.capacity)]
      /\ vector' = [vector EXCEPT ![o].size = Len(left)]

PopBack(o) ==
  /\ vector[o].size > 0
  /\ EraseCells(o, vector[o].size, vector[o].size + 1)
  /\ contents' = [contents EXCEPT ![o] = Front(@)]
  /\ UNCHANGED released

\* erase(itr) of the i-th element; end() is refused.
EraseOne(o, i) ==
  /\ i \in 1..vector[o].size
  /\ EraseCells(o, i, i + 1)
  /\ contents' = [contents EXCEPT ![o] = RemoveAt(@, i)]
  /\ UNCHANGED released

\* erase(beg, end), where end may be end(); an end before beg is refused.
EraseRange(o, i, j) ==
  /\ i \in 1..vector[o].size /\ j \in (i + 1)..(vector[o].size + 1)
  /\ EraseCells(o, i, j)
  /\ contents' = [contents EXCEPT ![o] = SubSeq(@, 1, i - 1) \o SubSeq(@, j, Len(@))]
  /\ UNCHANGED released

Clear(o) ==
  /\ vector[o].ptr # Null
  /\ EraseCells(o, 1, vector[o].size + 1)
  /\ contents' = [contents EXCEPT ![o] = <<>>]
  /\ UNCHANGED released

\* reset(), and the destructor with a new object in its place.
Reset(o) ==
  /\ heap' = Free(heap, vector[o].ptr)
  /\ vector' = [vector EXCEPT ![o] = Empty]
  /\ contents' = [contents EXCEPT ![o] = <<>>]
  /\ UNCHANGED released

\* release(): the caller has the block now ...
Release(o) ==
  /\ vector[o].ptr # Null
  /\ vector' = [vector EXCEPT ![o] = Empty]
  /\ contents' = [contents EXCEPT ![o] = <<>>]
  /\ released' = released \cup {vector[o].ptr}
  /\ UNCHANGED heap

\* ... and frees it.
CallerFrees(b) ==
  /\ b \in released
  /\ released' = released \ {b}
  /\ heap' = Free(heap, b)
  /\ UNCHANGED <<vector, contents>>
-----------------------------------------------------------------------------
(* Operations on two objects.                                              *)

Swap(o, p) ==
  /\ vector' = [vector EXCEPT ![o] = vector[p], ![p] = vector[o]]
  /\ contents' = [contents EXCEPT ![o] = contents[p], ![p] = contents[o]]
  /\ UNCHANGED <<heap, released>>

\* The copy constructor: a block of its own, nothing for an empty vector.
Copies(p) ==
  IF vector[p].size = 0 THEN {[v |-> Empty, h |-> heap, ok |-> TRUE]}
  ELSE {[v |-> [r.v EXCEPT !.size = vector[p].size],
         h |-> [r.h EXCEPT ![r.v.ptr] = Cells(Elements(heap, vector[p]), r.v.capacity)],
         ok |-> TRUE] :
        r \in {r \in AutoCapacity(Empty, heap, vector[p].size) : r.ok}}

\* o = p: copied, swapped, and the old block freed.
CopyAssign(o, p) ==
  /\ o # p
  /\ \E r \in Copies(p) :
       /\ vector' = [vector EXCEPT ![o] = r.v]
       /\ heap' = Free(r.h, vector[o].ptr)
  /\ contents' = [contents EXCEPT ![o] = contents[p]]
  /\ UNCHANGED released

\* o = std::move(p): reset, then swapped.
MoveAssign(o, p) ==
  /\ o # p
  /\ heap' = Free(heap, vector[o].ptr)
  /\ vector' = [vector EXCEPT ![o] = vector[p], ![p] = Empty]
  /\ contents' = [contents EXCEPT ![o] = contents[p], ![p] = <<>>]
  /\ UNCHANGED released
-----------------------------------------------------------------------------
Next ==
  \/ \E o \in Objects :
       \/ \E e \in Values : PushBack(o, e)
       \/ \E n \in 0..(MaxCapacity + 1) : Reserve(o, n)
       \/ \E i \in 1..MaxSize : EraseOne(o, i)
       \/ \E i, j \in 1..(MaxSize + 1) : EraseRange(o, i, j)
       \/ PopBack(o) \/ Clear(o) \/ Reset(o) \/ Release(o)
  \/ \E b \in Blocks : CallerFrees(b)
  \/ \E o, p \in Objects : Swap(o, p) \/ CopyAssign(o, p) \/ MoveAssign(o, p)
-----------------------------------------------------------------------------
(***************************************************************************)
(* After any calls, failed allocations included, every vector holds the    *)
(* elements a sequence would hold, inside a block of its own that is as    *)
(* large as it says, and no block is lost or used after it was freed.      *)
(***************************************************************************)
VectorIsSequence ==
  /\ \A o \in Objects :
       LET v == vector[o] IN
       /\ v.size <= v.capacity
       /\ v.ptr = Null <=> v.capacity = 0
       /\ v.ptr # Null => heap[v.ptr] # Null /\ Len(heap[v.ptr]) = v.capacity
       /\ Elements(heap, v) = contents[o]
  /\ \A b \in Blocks :
       heap[b] # Null =>
         Cardinality({o \in Objects : vector[o].ptr = b})
           = (IF b \in released THEN 0 ELSE 1)
=============================================================================
