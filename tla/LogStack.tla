------------------------------ MODULE LogStack ------------------------------
(***************************************************************************)
(* nstl::log::Logger, the stack of sinks behind it (log_stack in           *)
(* nstl/nstl/logger.cpp) and the log macros that find their sink through   *)
(* the global functor and level (nstl/nstl/logging.cpp).                   *)
(*                                                                         *)
(* Every Logger is a process of its own, constructed and reset once by     *)
(* some thread; every thread in Threads logs.  A sink is opaque here: what *)
(* it does with a line is OstreamLog's subject.  It lives as long as a     *)
(* Logger or the stack has a shared_ptr to it.                             *)
(*                                                                         *)
(* _items is used under log_stack::_lock; the functor is assigned under it *)
(* but copied by log calls without it.  Copying while it is assigned is a  *)
(* data race: the copy is the old or the new functor, or the process       *)
(* crashes on the closure being freed.                                     *)
(***************************************************************************)
EXTENDS Naturals, SequencesExt

CONSTANTS
  Loggers,            \* the Logger objects of the program
  Sinks,              \* the LoggerAPI objects
  SinkOf,             \* the sink each Logger is constructed with
  CoutSinks,          \* the sinks with is_cout_logger()
  LevelOf,            \* LoggerAPI::_level
  InitialLevel,       \* current_level before any Logger (Info)
  Levels,             \* the levels, Debug to Terminate, as numbers
  Threads,            \* threads that log
  NoSink              \* an empty functor

StackAssumption ==
  /\ Levels \subseteq Nat
  /\ InitialLevel \in Levels
  /\ SinkOf \in [Loggers -> Sinks]
  /\ LevelOf \in [Sinks -> Levels]
  /\ CoutSinks \subseteq Sinks
  /\ NoSink \notin Sinks

VARIABLES
  items,              \* log_stack::_items
  functor,            \* logger(): the sink its weak_ptr points to, or NoSink
  level,              \* current_level
  activeCout,         \* active_cout_logger
  logger,             \* progress of each Logger
  call,               \* progress of each thread's log call
  seen,               \* the functor the call copied
  line,               \* the level of the call's line
  crashed,            \* the data race took the process down
  stack,              \* history: the registered Loggers, innermost last
  disturbed           \* history: log calls that overlap a construction or reset

registry == <<items, functor, level, stack>>
calls == <<call, seen, line>>
vars == <<registry, activeCout, logger, calls, crashed, disturbed>>

Init ==
  /\ items = <<>>
  /\ functor = NoSink
  /\ level = InitialLevel
  /\ activeCout = FALSE
  /\ logger = [l \in Loggers |-> "none"]
  /\ call = [t \in Threads |-> "idle"]
  /\ seen = [t \in Threads |-> NoSink]
  /\ line = [t \in Threads |-> InitialLevel]
  /\ crashed = FALSE
  /\ stack = <<>>
  /\ disturbed = {}

IsCout(l) == SinkOf[l] \in CoutSinks

\* Mutant: reset() moves its only reference into the stack.
HoldingUntilReset == {"push", "assign", "level", "alive"}

\* The states of a Logger that has its _log, or the local copy of it in reset().
Holding == {"push", "assign", "level", "alive", "erase", "reassign", "relevel", "release"}

Alive(s) ==
  \/ s \in Range(items)
  \/ \E l \in Loggers : SinkOf[l] = s /\ logger[l] \in Holding

\* log_stack::_lock is held.
Locked == \E l \in Loggers : logger[l] \in {"assign", "level", "reassign", "relevel"}

\* Every step of a Logger disturbs the log calls under way.
LoggerGoes(l, to) ==
  /\ logger' = [logger EXCEPT ![l] = to]
  /\ disturbed' = disturbed \cup {t \in Threads : call[t] # "idle"}
  /\ UNCHANGED <<calls, crashed>>
-----------------------------------------------------------------------------
(* Logger::Logger and log_stack::push_back                                 *)

\* The check for a second cout logger, one exchange; it throws, or goes on.
Construct(l) ==
  /\ logger[l] = "none"
  /\ LoggerGoes(l, IF IsCout(l) /\ activeCout THEN "refused" ELSE "push")
  /\ activeCout' = (activeCout \/ IsCout(l))
  /\ UNCHANGED registry

PushBack(l) ==
  /\ logger[l] = "push"
  /\ ~Locked
  /\ items' = Append(items, SinkOf[l])
  /\ stack' = Append(stack, l)
  /\ LoggerGoes(l, "assign")
  /\ UNCHANGED <<functor, level, activeCout>>

\* _set_functor: logger() = ..., then setLevel(), still under the lock.
SetFunctor(l) ==
  /\ logger[l] \in {"assign", "reassign"}
  /\ functor' = Last(items)
  /\ LoggerGoes(l, IF logger[l] = "assign" THEN "level" ELSE "relevel")
  /\ UNCHANGED <<items, level, activeCout, stack>>

\* Mutant: the level is that of the Logger being handled, not of the innermost one.
SetLevelOwn(l) ==
  /\ logger[l] \in {"level", "relevel"}
  /\ level' = LevelOf[SinkOf[l]]
  /\ LoggerGoes(l, IF logger[l] = "level" THEN "alive" ELSE "release")
  /\ UNCHANGED <<items, functor, activeCout, stack>>

SetLevel(l) ==
  /\ logger[l] \in {"level", "relevel"}
  /\ level' = LevelOf[Last(items)]
  /\ LoggerGoes(l, IF logger[l] = "level" THEN "alive" ELSE "release")
  /\ UNCHANGED <<items, functor, activeCout, stack>>
-----------------------------------------------------------------------------
(* Logger::reset and log_stack::erase                                      *)

\* _log is swapped out and active_cout_logger cleared.
ResetClear(l) ==
  /\ logger[l] = "alive"
  /\ LoggerGoes(l, "erase")
  /\ activeCout' = (activeCout /\ ~IsCout(l))
  /\ UNCHANGED registry

\* The sink is the innermost: pop it, and give the functor to the one below.
EraseTop(l) ==
  /\ logger[l] = "erase"
  /\ ~Locked
  /\ items # <<>> /\ Last(items) = SinkOf[l]
  /\ items' = Front(items)
  /\ stack' = SelectSeq(stack, LAMBDA k : k # l)
  /\ LoggerGoes(l, IF Len(items) = 1 THEN "release" ELSE "reassign")
  /\ UNCHANGED <<functor, level, activeCout>>

\* It is not: every entry equal to it goes.
EraseInner(l) ==
  /\ logger[l] = "erase"
  /\ ~Locked
  /\ items = <<>> \/ Last(items) # SinkOf[l]
  /\ items' = SelectSeq(items, LAMBDA s : s # SinkOf[l])
  /\ stack' = SelectSeq(stack, LAMBDA k : k # l)
  /\ LoggerGoes(l, "release")
  /\ UNCHANGED <<functor, level, activeCout>>

\* reset() returns and drops its reference.
ResetRelease(l) ==
  /\ logger[l] = "release"
  /\ LoggerGoes(l, "gone")
  /\ UNCHANGED <<registry, activeCout>>
-----------------------------------------------------------------------------
(* NSTL_LOG_LEVEL_IMPL and LoggerFormatter::operator()                     *)

\* isLevelActive(n); a line below the level is not formatted at all, and the
\* formatter throws for a number that is no level.
LogCheck(t) ==
  /\ call[t] = "idle"
  /\ \E n \in Levels :
       /\ level <= n
       /\ line' = [line EXCEPT ![t] = n]
  /\ call' = [call EXCEPT ![t] = "copy"]
  /\ disturbed' = IF \E l \in Loggers : logger[l] \notin {"none", "refused", "alive", "gone"}
                  THEN disturbed \cup {t} ELSE disturbed \ {t}
  /\ UNCHANGED <<registry, activeCout, logger, seen, crashed>>

Copied(t, s) ==
  /\ seen' = [seen EXCEPT ![t] = s]
  /\ call' = [call EXCEPT ![t] = IF s = NoSink THEN "idle" ELSE "push"]

LogCopy(t) ==
  /\ call[t] = "copy"
  /\ Copied(t, functor)
  /\ UNCHANGED <<registry, activeCout, logger, line, crashed, disturbed>>

\* The functor is being assigned.
LogCopyRace(t) ==
  /\ call[t] = "copy"
  /\ \E l \in Loggers : logger[l] \in {"assign", "reassign"}
  /\ \/ Copied(t, Last(items)) /\ UNCHANGED crashed
     \/ crashed' = TRUE /\ UNCHANGED <<call, seen>>
  /\ UNCHANGED <<registry, activeCout, logger, line, disturbed>>

\* The functor locks its weak_ptr and pushes; an expired one swallows the line.
LogPush(t) ==
  /\ call[t] = "push"
  /\ call' = [call EXCEPT ![t] = "idle"]
  /\ UNCHANGED <<registry, activeCout, logger, seen, line, crashed, disturbed>>
-----------------------------------------------------------------------------
LoggerStep(l) ==
  \/ PushBack(l) \/ SetFunctor(l) \/ SetLevel(l)
  \/ EraseTop(l) \/ EraseInner(l) \/ ResetRelease(l)

CallStep(t) == LogCopy(t) \/ LogCopyRace(t) \/ LogPush(t)

Next ==
  \/ /\ ~crashed
     /\ \/ \E l \in Loggers : Construct(l) \/ ResetClear(l) \/ LoggerStep(l)
        \/ \E t \in Threads : LogCheck(t) \/ CallStep(t)
  \/ crashed /\ UNCHANGED vars

Spec == Init /\ [][Next]_vars
-----------------------------------------------------------------------------
(* Properties.                                                             *)

\* Every variable stays in its range.
TypeOK ==
  /\ items \in Seq(Sinks)
  /\ functor \in Sinks \cup {NoSink}
  /\ level \in Levels
  /\ activeCout \in BOOLEAN
  /\ logger \in [Loggers -> Holding \cup {"none", "refused", "gone"}]
  /\ call \in [Threads -> {"idle", "copy", "push"}]
  /\ seen \in [Threads -> Sinks \cup {NoSink}]
  /\ line \in [Threads -> Levels]
  /\ crashed \in BOOLEAN
  /\ stack \in Seq(Loggers)
  /\ disturbed \subseteq Threads

(***************************************************************************)
(* A sink is never destroyed by a change of _items, that is under the      *)
(* lock: its destructor joins a thread that may be blocked on its target,  *)
(* and every other Logger would wait for it.                               *)
(***************************************************************************)
DestroyedUnlocked ==
  [][\A s \in Sinks : Alive(s) /\ ~Alive(s)' => UNCHANGED items]_vars

(***************************************************************************)
(* A log call that no construction or reset() overlaps reaches the         *)
(* innermost sink, alive, with a line of that sink's level or above.       *)
(***************************************************************************)
QuietCallReachesInnermost ==
  [][\A t \in Threads :
       call[t] = "push" /\ call'[t] = "idle" /\ t \notin disturbed /\ stack # <<>> =>
         /\ seen[t] = SinkOf[Last(stack)]
         /\ Alive(seen[t])
         /\ LevelOf[seen[t]] <= line[t]]_vars
=============================================================================
