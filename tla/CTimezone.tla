------------------------------ MODULE CTimezone ------------------------------
(***************************************************************************)
(* c_timezone (nstl/nstl/c_timezone.hpp, c_timezone.cpp): conversions      *)
(* between system and local time through the C library.  The zone has a    *)
(* standard offset and one summer during which clocks are an hour ahead;   *)
(* it is external, and mktime() may read a local time that happens twice   *)
(* or not at all either way.  The library has dates for some seconds only, *)
(* on Windows for none before 1970.  Times are counted in ticks, a second  *)
(* having Ticks of them; a conversion works on whole seconds.              *)
(***************************************************************************)
EXTENDS Integers

CONSTANTS
  Offsets,            \* standard offsets, in seconds
  Summers,            \* [begin, end] of the summers, in seconds of system time
  Hour,               \* seconds clocks are ahead in summer
  Ticks,              \* ticks per second
  From, Until,        \* seconds at which the clock starts and ends
  Earliest, Latest,   \* seconds the C library has dates for
  Threw               \* the call ended with an exception

TimezoneAssumption ==
  /\ Offsets \subseteq Int
  /\ Hour \in Nat \ {0} /\ Ticks \in Nat \ {0}
  /\ From \in Int /\ Until \in Int /\ From < Until
  /\ Earliest \in Int /\ Latest \in Nat

VARIABLES
  win32,              \* _WIN32
  offset, summer,     \* the zone
  late,               \* how mktime() reads what is ambiguous
  now                 \* the time point, in ticks

vars == <<win32, offset, summer, late, now>>

Init ==
  /\ win32 \in BOOLEAN
  /\ offset \in Offsets
  /\ summer \in Summers
  /\ late \in BOOLEAN
  /\ now = From * Ticks

Tick == now < Until * Ticks /\ now' = now + 1 /\ UNCHANGED <<win32, offset, summer, late>>

Next == Tick

Spec == Init /\ [][Next]_vars
-----------------------------------------------------------------------------
(* The C library.                                                          *)

IsDst(s) == s \in summer.begin..(summer.end - 1)

LocalTime(s) == s + offset + IF IsDst(s) THEN Hour ELSE 0

\* localtime_r(), gmtime_r() and their Windows forms have a date for the second.
HasDate(s) == s \in (IF win32 THEN 0 ELSE Earliest)..Latest

\* What timegm() and mktime() return for the second s: -1 is an error, too.
TimeT(s) == IF win32 /\ s < 0 THEN -1 ELSE s

\* With tm_isdst negative mktime() finds out whether it is summer.
MkTime(l) ==
  LET standard == l - offset
      dst == l - offset - Hour
  IN IF LocalTime(standard) = l /\ (LocalTime(dst) # l \/ late) THEN standard
     ELSE IF LocalTime(dst) = l THEN dst
     ELSE IF late THEN standard ELSE dst
-----------------------------------------------------------------------------
(* The conversions.                                                        *)

Floor(t) == t \div Ticks

ToLocalCommon(s) ==
  IF ~HasDate(s) THEN Threw
  ELSE IF TimeT(LocalTime(s)) = -1 THEN Threw
  ELSE LocalTime(s)


ToSysCommon(l) ==
  IF ~HasDate(l) THEN Threw
  ELSE IF TimeT(MkTime(l)) = -1 THEN Threw
  ELSE MkTime(l)

ToLocal(t) ==
  LET seconds == ToLocalCommon(Floor(t))
  IN IF seconds = Threw THEN Threw ELSE Ticks * seconds + (t - Ticks * Floor(t))

ToSys(t) ==
  LET seconds == ToSysCommon(Floor(t))
  IN IF seconds = Threw THEN Threw ELSE Ticks * seconds + (t - Ticks * Floor(t))

SysInfo(s, l) ==
  [begin |-> s, end |-> s + 1, offset |-> l - s, save |-> IF IsDst(s) THEN Hour ELSE 0]

\* get_info() of a local time always says that it is unique.
GetLocalInfo(t) ==
  LET s == ToSysCommon(Floor(t)) IN IF s = Threw THEN Threw ELSE SysInfo(s, Floor(t))

GetInfo(t) ==
  LET l == ToLocalCommon(Floor(t)) IN IF l = Threw THEN Threw ELSE SysInfo(Floor(t), l)
-----------------------------------------------------------------------------
(* Properties.                                                             *)

\* Seconds that read l on the clock, and those it might be read as where none does.
Readings(l) == {s \in {l - offset, l - offset - Hour} : LocalTime(s) = l}

Near(l) == IF Readings(l) = {} THEN {l - offset, l - offset - Hour} ELSE Readings(l)

\* A second the library refuses to convert to another: it has no date, the result looks
\* like an error or, on Windows, is before 1970.
Refused(from, to) == ~HasDate(from) \/ to = -1 \/ (win32 /\ to < 0)

(***************************************************************************)
(* A time point is converted to the local time of its season, to the tick, *)
(* and back to a time point that reads the same: itself, or the other one  *)
(* where clocks are set back.  A local time that is skipped where clocks   *)
(* are set forward becomes one that reads exactly an hour earlier or       *)
(* later.  So before and after 1970, but on Windows before 1970 by either  *)
(* clock; an exception is thrown only there, beyond the library's dates    *)
(* and for the one second that looks like an error.                        *)
(***************************************************************************)
LocalTimeIsExact ==
  LET s == Floor(now)
      local == ToLocal(now)
      back == ToSys(local)
      sys == ToSys(now)
  IN /\ IF local = Threw THEN Refused(s, LocalTime(s))
        ELSE /\ ~Refused(s, LocalTime(s))
             /\ local - now = Ticks * GetInfo(now).offset
             /\ GetInfo(now).offset = offset + GetInfo(now).save
             /\ IF back = Threw THEN \E u \in Readings(Floor(local)) : Refused(Floor(local), u)
                ELSE /\ Floor(back) \in Readings(Floor(local))
                     /\ back % Ticks = now % Ticks
                     /\ HasDate(Floor(back)) => GetLocalInfo(local) = GetInfo(back)
     /\ IF sys = Threw THEN \E u \in Near(s) : Refused(s, u)
        ELSE /\ Floor(sys) \in Near(s)
             /\ Readings(s) = {} => LocalTime(Floor(sys)) \in {s - Hour, s + Hour}
=============================================================================
