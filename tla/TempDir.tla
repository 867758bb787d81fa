------------------------------- MODULE TempDir -------------------------------
(***************************************************************************)
(* nstl::temp_file and nstl::temp_dir (nstl/nstl/temp_dir.cpp), in a       *)
(* directory that other processes use as well.  The other processes create *)
(* and remove files of their own only; names may collide.                  *)
(*                                                                         *)
(* The constructor of temp_file looks whether the name exists and then     *)
(* opens it; the destructor closes the file and then removes the name.  It *)
(* holds the descriptor in a FileIntRaii (nstl/nstl/handle_raii.hpp), for  *)
(* which 0 is not valid; open() returns 0 if standard input was closed.    *)
(***************************************************************************)
EXTENDS Integers, FiniteSetsExt

CONSTANTS
  Files, Dirs,        \* temp_file and temp_dir objects
  Names,              \* the names they may be given or draw
  Descriptors,        \* the descriptors the process may have: 0, 1, ...
  None

TempAssumption == Files \cap Dirs = {} /\ 0 \in Descriptors /\ Descriptors \subseteq Nat

VARIABLES
  disk,               \* the creator of each name: "us", "other", or None
  temp,               \* each object: stage, _target, _owned and _handler
  fds                 \* the open descriptors

tempVars == <<disk, temp, fds>>

Invalid == -1

Dead == [stage |-> "none", target |-> None, owned |-> FALSE, fd |-> Invalid]

Init ==
  /\ disk \in [Names -> {None, "other"}]
  /\ temp = [o \in Files \cup Dirs |-> Dead]
  /\ fds \in {{}, {0}}

\* The other processes (external).
OtherCreates(n) == disk[n] = None /\ disk' = [disk EXCEPT ![n] = "other"] /\ UNCHANGED <<temp, fds>>
OtherRemoves(n) == disk[n] = "other" /\ disk' = [disk EXCEPT ![n] = None] /\ UNCHANGED <<temp, fds>>
-----------------------------------------------------------------------------
(* FileIntRaii                                                             *)

Valid(fd) == 0 < fd

\* reset(fd): what is held is closed if it is valid.
ResetFd(open, held) == IF Valid(held) THEN open \ {held} ELSE open

\* open() takes the lowest descriptor that is free (external).
Lowest(open) == Min(Descriptors \ open)
-----------------------------------------------------------------------------
(* temp_file                                                               *)

\* _owned{ !fs::exists(_target) }
FileExists(f, n) ==
  /\ temp[f].stage = "none"
  /\ temp' = [temp EXCEPT ![f] = [Dead EXCEPT !.stage = "open", !.target = n, !.owned = disk[n] = None]]
  /\ UNCHANGED <<disk, fds>>

\* The constructor ends with the descriptor, or throws if it is not valid.
Opened(f, fd) ==
  temp' = [temp EXCEPT ![f] = IF Valid(fd) THEN [@ EXCEPT !.stage = "valid", !.fd = fd] ELSE Dead]

\* Mutant: without O_EXCL.
FileOpenShared(f) ==
  /\ temp[f].stage = "open"
  /\ Descriptors \ fds # {}
  /\ disk' = [disk EXCEPT ![temp[f].target] = IF @ = None THEN "us" ELSE @]
  /\ fds' = fds \cup {Lowest(fds)}
  /\ Opened(f, Lowest(fds))

\* O_CREAT | O_EXCL: creates the file.
FileOpen(f) ==
  /\ temp[f].stage = "open"
  /\ disk[temp[f].target] = None
  /\ Descriptors \ fds # {}
  /\ disk' = [disk EXCEPT ![temp[f].target] = "us"]
  /\ fds' = fds \cup {Lowest(fds)}
  /\ Opened(f, Lowest(fds))

\* open() fails, because of O_EXCL or for another reason.
FileOpenFails(f) ==
  /\ temp[f].stage = "open"
  /\ Opened(f, Invalid)
  /\ UNCHANGED <<disk, fds>>

\* The destructor: the file is closed ...
FileClose(f) ==
  /\ temp[f].stage = "valid"
  /\ fds' = ResetFd(fds, temp[f].fd)
  /\ temp' = [temp EXCEPT ![f] = IF temp[f].owned THEN [@ EXCEPT !.stage = "remove", !.fd = Invalid]
                                  ELSE Dead]
  /\ UNCHANGED disk

\* ... and the name removed; an error is ignored.
FileRemove(f) ==
  /\ temp[f].stage = "remove"
  /\ disk' \in {disk, [disk EXCEPT ![temp[f].target] = None]}
  /\ temp' = [temp EXCEPT ![f] = Dead]
  /\ UNCHANGED fds

\* The move constructor, and a move assignment to an object without a file.
FileMove(f, g) ==
  /\ temp[f].stage = "none" /\ temp[g].stage = "valid"
  /\ temp' = [temp EXCEPT ![f] = temp[g], ![g] = Dead]
  /\ UNCHANGED <<disk, fds>>

\* swap(); a move assignment to an object with a file is a swap and the end of the other.
FileSwap(f, g) ==
  /\ f # g
  /\ temp[f].stage = "valid" /\ temp[g].stage = "valid"
  /\ temp' = [temp EXCEPT ![f] = temp[g], ![g] = temp[f]]
  /\ UNCHANGED <<disk, fds>>
-----------------------------------------------------------------------------
(* temp_dir                                                                *)

\* create_directories: TRUE only for the one that creates it; otherwise it throws.
DirCreate(d, n) ==
  /\ temp[d].stage = "none"
  /\ disk[n] = None
  /\ disk' = [disk EXCEPT ![n] = "us"]
  /\ temp' = [temp EXCEPT ![d] = [Dead EXCEPT !.stage = "chmod", !.target = n, !.owned = TRUE]]
  /\ UNCHANGED fds

DirChmod(d) ==
  /\ temp[d].stage = "chmod"
  /\ temp' = [temp EXCEPT ![d].stage = "valid"]
  /\ UNCHANGED <<disk, fds>>

\* chmod() fails: the constructor throws, the destructor does not run, the directory stays.
DirChmodFails(d) ==
  /\ temp[d].stage = "chmod"
  /\ temp' = [temp EXCEPT ![d] = Dead]
  /\ UNCHANGED <<disk, fds>>

DirDestruct(d) ==
  /\ temp[d].stage = "valid"
  /\ disk' \in {disk, [disk EXCEPT ![temp[d].target] = None]}
  /\ temp' = [temp EXCEPT ![d] = Dead]
  /\ UNCHANGED fds
-----------------------------------------------------------------------------
Next ==
  \/ \E n \in Names :
       \/ OtherCreates(n) \/ OtherRemoves(n)
       \/ \E f \in Files : FileExists(f, n)
       \/ \E d \in Dirs : DirCreate(d, n)
  \/ \E f \in Files :
       \/ FileOpen(f) \/ FileOpenFails(f) \/ FileClose(f) \/ FileRemove(f)
       \/ \E g \in Files : FileMove(f, g) \/ FileSwap(f, g)
  \/ \E d \in Dirs : DirChmod(d) \/ DirChmodFails(d) \/ DirDestruct(d)
-----------------------------------------------------------------------------
(***************************************************************************)
(* Objects remove and close only what is theirs: whatever name another     *)
(* process takes, before the test, between the test and the open, or       *)
(* after, an object that is going to remove its target still has that      *)
(* target, and alone; a file object has an open descriptor that no other   *)
(* object has; and none but 0 is left open without an object.              *)
(***************************************************************************)
OnlyOwnFilesRemoved ==
  LET held == {o \in Files \cup Dirs : temp[o].stage \in {"valid", "remove"} /\ temp[o].owned}
      valid == {f \in Files : temp[f].stage = "valid"}
  IN  /\ \A o, p \in held : /\ disk[temp[o].target] = "us"
                            /\ temp[o].target = temp[p].target => o = p
      /\ \A f, g \in valid : temp[f].fd = temp[g].fd => f = g
      /\ {temp[f].fd : f \in valid} = fds \ {0}
=============================================================================
