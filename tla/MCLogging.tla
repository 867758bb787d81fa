------------------------------ MODULE MCLogging ------------------------------
(***************************************************************************)
(* The logging classes for TLC: a sink with the threads that log through   *)
(* it, the stack of sinks with the Loggers on it, or the time zone of the  *)
(* stamps; and, beside them, threads that use unlock_guard.  The initial   *)
(* state chooses which of them runs; the variables of the others do not    *)
(* move.                                                                   *)
(***************************************************************************)
EXTENDS OstreamLog, TLC

CONSTANTS
  t1, t2,                       \* threads that log
  a, b, c, d,                   \* Loggers ...
  sa, sb, sc, sd,               \* ... and their sinks
  NoSink

VARIABLES
  part, items, functor, level, activeCout, logger, call, seen, line, crashed, stack,
  disturbed,
  logTz, made, zone, name, user, wish,
  owner, stage, next, wrong

\* Each Logger has a sink of its own; console sinks of two levels, and one of a third.
Stack == INSTANCE LogStack WITH
  Loggers <- {a, b, c, d},
  Sinks <- {sa, sb, sc, sd},
  SinkOf <- a :> sa @@ b :> sb @@ c :> sc @@ d :> sd,
  CoutSinks <- {sa, sb, sd},
  LevelOf <- sa :> 0 @@ sb :> 2 @@ sc :> 1 @@ sd :> 2,
  InitialLevel <- 1,
  Levels <- 0..2,
  Threads <- {t1}

\* Two names of UTC, the current zone, a zone that exists and one that does not.
Texts == {"", "utc", "UTC", "Zone", "Nowhere"}

Zone == INSTANCE LogTimeZone WITH
  ZoneThreads <- {t1, t2},
  Lower <- [x \in Texts |-> IF x = "UTC" THEN "utc" ELSE x],
  Empty <- "", Utc <- "utc",
  Located <- {"Zone"},
  Current <- "current", NoZone <- NoSink

\* Opposite orders, a thread with one mutex and one with none: every form of the class.
Lists ==
  [t \in {"ab", "ba", "a", "none"} |->
     CASE t = "ab" -> <<"m1", "m2">> [] t = "ba" -> <<"m2", "m1">>
       [] t = "a" -> <<"m1">> [] t = "none" -> <<>>]

G == INSTANCE UnlockGuard WITH GuardThreads <- DOMAIN Lists, Mutexes <- {"m1", "m2"}, Free <- NoSink

ASSUME Stack!StackAssumption
ASSUME Zone!ZoneAssumption
ASSUME G!GuardAssumption

stackVars == <<items, functor, level, activeCout, logger, call, seen, line, crashed, stack,
               disturbed>>
zoneVars == <<logTz, made, zone, name, user, wish>>
guardVars == <<owner, stage, next, wrong>>
allVars == <<vars, stackVars, zoneVars, guardVars, part>>

AllInit ==
  /\ part \in {"sink", "stack", "zone", "guards"}
  /\ Init /\ Stack!Init /\ Zone!Init /\ G!Init
  /\ part # "zone" => logTz = NoSink

OfSink(A) == part = "sink" /\ A /\ UNCHANGED <<stackVars, zoneVars, guardVars, part>>

OfStack(A) == part = "stack" /\ A /\ UNCHANGED <<vars, zoneVars, guardVars, part>>

OfZone(A) == part = "zone" /\ A /\ UNCHANGED <<vars, stackVars, guardVars, part>>

OfGuards(A) == part = "guards" /\ A /\ UNCHANGED <<vars, stackVars, zoneVars, part>>

\* LOG_TZ may name no zone at all: then there never is an object.
Unmade == part = "zone" /\ Zone!Refused(logTz) /\ UNCHANGED allVars

AllNext ==
  OfSink(Next) \/ OfStack(Stack!Next) \/ OfZone(Zone!Next) \/ OfGuards(G!Next) \/ Unmade

\* Threads that can run are scheduled, and writing to the target returns.
AllSpec ==
  /\ AllInit /\ [][AllNext]_allVars
  /\ WF_allVars(OfSink(~Over /\ WorkerStep))
  /\ \A t \in Holders : WF_allVars(OfSink(~Over /\ HolderStep(t)))
  /\ \A t \in {"ab", "ba", "a"} : WF_allVars(OfGuards(G!Runs(t)))
-----------------------------------------------------------------------------
(* Properties of the stack, the time zone and the guards.                  *)

\* No sink is destroyed under the stack's lock.
DestroyedUnlocked == Stack!DestroyedUnlocked

\* An undisturbed log call reaches the innermost sink.
QuietCallReachesInnermost == Stack!QuietCallReachesInnermost

\* The name and the zone of the stamps go together.
ZoneIsNamed == Zone!ZoneIsNamed

\* Mutexes come back after the scope of an unlock_guard, without a deadlock.
GuardsRelock == G!GuardsRelock
=============================================================================
