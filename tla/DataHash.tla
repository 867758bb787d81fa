------------------------------ MODULE DataHash ------------------------------
(***************************************************************************)
(* Hasher on its three back ends (nstl/nstl/datahashopenssl.cpp,           *)
(* datahashwin32.cpp, datahashmacos.cpp) and hash_file() over it           *)
(* (datahash.cpp).  A digest is known by the bytes it is the digest of:    *)
(* what the native libraries compute is external, what matters is which    *)
(* bytes reached them.  Sizes are taken modulo Word, the range of a DWORD, *)
(* a CC_LONG and an unsigned int.                                          *)
(***************************************************************************)
EXTENDS Integers, Sequences, SequencesExt

CONSTANTS
  Platforms,          \* a subset of {"openssl", "win32", "macos"}
  Threads,            \* threads that may use the hasher, one call at a time
  Inputs,             \* byte sequences given to add()
  MaxAdded,           \* bytes a digest is made of, at most
  Word,               \* 2 to the width of unsigned int
  BufferSizes,        \* sizes of hash_file()'s buffer
  MaxFile,            \* bytes in the file, at most
  None,               \* no digest, no thread
  Threw,              \* the call ended with an exception
  Undefined           \* what a finished context computes, but for CryptoAPI's

HashAssumption ==
  /\ Platforms \subseteq {"openssl", "win32", "macos"}
  /\ Word \in Nat \ {0}
  /\ MaxAdded \in Nat /\ MaxFile \in Nat
  /\ BufferSizes \subseteq Nat

VARIABLES
  platform,
  alive,              \* threads that have not ended
  context,            \* of the native context: "none", "ready", "final" or "dead"
  home,               \* win32: the thread whose ThreadProvider made _hHash, or None
  hashed,             \* bytes the native context has taken, or Undefined
  added,              \* history: bytes add() returned for since the last reset(), None if that threw
  clipped,            \* history: an add() was larger than a DWORD or a CC_LONG holds
  digest,             \* what the last call returned: bytes, None, Threw or Undefined
  size,               \* bytes in the file
  reading,            \* hash_file(): "idle", "opened", "loop", "finish", "returned", "threw"
  buffersize,         \* its buffer
  position,           \* bytes of the file given to its hasher
  opened,             \* its descriptor is open
  atEnd               \* history: size when read() returned 0

hasherVars == <<alive, context, home, hashed, added, clipped, digest>>
fileVars == <<size, reading, buffersize, position, opened, atEnd>>
vars == <<platform, hasherVars, fileVars>>

Init ==
  /\ platform \in Platforms
  /\ alive = Threads
  /\ context = "none"
  /\ home = None
  /\ hashed = <<>>
  /\ added = <<>>
  /\ clipped = FALSE
  /\ digest = None
  /\ size \in 0..MaxFile
  /\ reading = "idle"
  /\ buffersize = 1
  /\ position = 0
  /\ opened = FALSE
  /\ atEnd = 0
-----------------------------------------------------------------------------
(* The hasher.                                                             *)

\* Mutant: the bytes taken before stay in the context.
FreshKept(t) ==
  /\ context' = "ready"
  /\ home' = t
  /\ added' = <<>>
  /\ clipped' = FALSE
  /\ digest' = None
  /\ UNCHANGED hashed

Fresh(t) ==
  /\ context' = "ready"
  /\ home' = t
  /\ hashed' = <<>>
  /\ added' = <<>>
  /\ clipped' = FALSE
  /\ digest' = None

Factory(t) == context = "none" /\ Fresh(t) /\ UNCHANGED alive

\* win32: the new hash belongs to the provider of the thread that calls.
Reset(t) == context # "none" /\ Fresh(t) /\ UNCHANGED alive

\* openssl: a context without an algorithm; win32: no hash.  CommonCrypto cannot fail.
ResetThrows ==
  /\ context # "none"
  /\ platform # "macos"
  /\ context' = "dead"
  /\ added' = None
  /\ digest' = Threw
  /\ UNCHANGED <<alive, home, hashed, clipped>>

\* The native context takes data; a released provider takes its hashes with it.
Usable == platform = "win32" => home \in alive

\* What a DWORD or a CC_LONG leaves of the size.
Taken(d) == IF platform = "openssl" THEN d ELSE SubSeq(d, 1, Len(d) % Word)

Add(d) ==
  /\ context = "ready" /\ Usable
  /\ Len(added) + Len(d) <= MaxAdded
  /\ hashed' = hashed \o Taken(d)
  /\ added' = added \o d
  /\ clipped' = (clipped \/ Taken(d) # d)
  /\ digest' = None
  /\ UNCHANGED <<alive, context, home>>

\* EVP_DigestUpdate() or CryptHashData() may fail at any time, and has then taken nothing;
\* CommonCrypto cannot fail.
AddThrows ==
  /\ context # "none"
  /\ platform # "macos"
  /\ digest' = Threw
  /\ UNCHANGED <<alive, context, home, hashed, added, clipped>>

AddUndefined ==
  /\ context = "final" /\ platform # "win32"
  /\ hashed' = Undefined
  /\ digest' = None
  /\ UNCHANGED <<alive, context, home, added, clipped>>

\* CryptGetHashParam() may be asked again; the others have cleaned their context.
Finish ==
  /\ context \in {"ready", "final"} /\ Usable
  /\ digest' = IF context = "final" /\ platform # "win32" THEN Undefined ELSE hashed
  /\ context' = "final"
  /\ UNCHANGED <<alive, home, hashed, added, clipped>>

\* A native call that fails may have finished its context or not.
FinishThrows ==
  /\ context # "none"
  /\ platform # "macos"
  /\ digest' = Threw
  /\ context' \in {context} \cup (IF context = "ready" THEN {"final"} ELSE {})
  /\ UNCHANGED <<alive, home, hashed, added, clipped>>

\* ThreadProvider is thread_local.
ThreadEnds(t) ==
  /\ alive # {t}
  /\ alive' = alive \ {t}
  /\ digest' = None
  /\ UNCHANGED <<context, home, hashed, added, clipped>>

HasherStep ==
  /\ \/ \E t \in alive : Factory(t) \/ Reset(t) \/ ThreadEnds(t)
     \/ \E d \in Inputs : Add(d)
     \/ ResetThrows \/ AddThrows \/ AddUndefined \/ Finish \/ FinishThrows
  /\ UNCHANGED <<platform, fileVars>>
-----------------------------------------------------------------------------
(* hash_file(), with a hasher of its own.                                  *)

Open(b) ==
  /\ reading = "idle"
  /\ buffersize' = b
  /\ IF b = 0
     THEN reading' = "threw" /\ UNCHANGED opened
     ELSE reading' = "opened" /\ opened' = TRUE
  /\ UNCHANGED <<size, position, atEnd>>

OpenThrows(b) ==
  /\ reading = "idle"
  /\ buffersize' = b
  /\ reading' = "threw"
  /\ UNCHANGED <<size, position, opened, atEnd>>

\* scope_exit closes the descriptor on every way out.
CloseAnd(outcome) == reading' = outcome /\ opened' = FALSE

FactoryOf ==
  /\ reading = "opened"
  /\ reading' = "loop"
  /\ UNCHANGED <<size, buffersize, position, opened, atEnd>>

FactoryOfThrows ==
  /\ reading = "opened"
  /\ CloseAnd("threw")
  /\ UNCHANGED <<size, buffersize, position, atEnd>>

\* The size of the buffer is passed as an unsigned int.
Asked == buffersize % Word

Readable == Min({Asked, size - position})

\* Mutant: a read() that returns less than was asked for is the last one.
ReadSomeShort(n) ==
  /\ reading = "loop"
  /\ n \in 1..Readable
  /\ position' = position + n
  /\ atEnd' = IF n < Asked THEN size ELSE atEnd
  /\ reading' = IF n < Asked THEN "finish" ELSE "loop"
  /\ UNCHANGED <<size, buffersize, opened>>

ReadSome(n) ==
  /\ reading = "loop"
  /\ n \in 1..Readable
  /\ position' = position + n
  /\ UNCHANGED <<size, reading, buffersize, opened, atEnd>>

ReadEnd ==
  /\ reading = "loop"
  /\ Readable = 0
  /\ reading' = "finish"
  /\ atEnd' = size
  /\ UNCHANGED <<size, buffersize, position, opened>>

ReadThrows ==
  /\ reading = "loop"
  /\ CloseAnd("threw")
  /\ UNCHANGED <<size, buffersize, position, atEnd>>

FinishOf ==
  /\ reading = "finish"
  /\ CloseAnd("returned")
  /\ UNCHANGED <<size, buffersize, position, atEnd>>

\* Another process appends to the file while it is read.
FileGrows ==
  /\ size < MaxFile
  /\ size' = size + 1
  /\ UNCHANGED <<reading, buffersize, position, opened, atEnd>>

FileStep ==
  /\ \/ \E b \in BufferSizes : Open(b) \/ OpenThrows(b)
     \/ \E n \in 1..MaxFile : ReadSome(n)
     \/ FactoryOf \/ FactoryOfThrows \/ ReadEnd \/ ReadThrows \/ FinishOf \/ FileGrows
  /\ UNCHANGED <<platform, hasherVars>>

Next == HasherStep \/ FileStep

Spec == Init /\ [][Next]_vars
-----------------------------------------------------------------------------
(* Properties.                                                             *)

(***************************************************************************)
(* finish() returns the digest of exactly the bytes that were added since  *)
(* the last reset(), also when calls failed in between, when threads came  *)
(* and went and when it was called before.  After a reset() that threw     *)
(* there is no digest at all.  Left out are an OpenSSL or CommonCrypto     *)
(* context that is used again without reset(), and a single add() of       *)
(* 4 GiB or more on Windows and macOS, of which the size is cut to 32 bits *)
(* and only the rest taken.                                                *)
(***************************************************************************)
DigestIsOfAdded ==
  digest \notin {None, Threw, Undefined} /\ ~clipped => digest = added

(***************************************************************************)
(* hash_file() returns the digest of the file as it was when its end was   *)
(* met, whatever read() returned at a time, and its descriptor is open     *)
(* only while it runs.  The size of the buffer must not be a multiple of   *)
(* 4 GiB, for which read() is asked for nothing.                           *)
(***************************************************************************)
FileDigestIsWhole ==
  /\ reading = "returned" /\ Asked # 0 => position = atEnd
  /\ opened <=> reading \in {"opened", "loop", "finish"}
=============================================================================
