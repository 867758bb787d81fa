----------------------------- MODULE LogTimeZone -----------------------------
(***************************************************************************)
(* LogTimeZone (nstl/nstl/logging.cpp): the zone log lines are stamped in. *)
(* It is made by the first call that needs it, from LOG_TZ; setZone()      *)
(* takes its lock, printStamp() shares it.  operator<<, which prints the   *)
(* name, takes no lock and is left out: it must not meet a setZone().      *)
(***************************************************************************)
EXTENDS FiniteSets

CONSTANTS
  ZoneThreads,        \* threads that use it
  Texts,              \* texts a zone may be named by
  Lower,              \* each text in lower case
  Empty, Utc,         \* the texts "" and "utc"
  Located,            \* texts locate_zone() knows; it throws for the others
  Current,            \* the zone of the system
  NoZone              \* no name: std::nullopt, and no zone: nullptr

ZoneAssumption ==
  /\ {Empty, Utc} \subseteq Texts
  /\ Located \subseteq Texts
  /\ Lower \in [Texts -> Texts]
  /\ NoZone \notin Texts /\ Current \notin Texts

VARIABLES
  logTz,              \* LOG_TZ, or NoZone
  made,               \* tz_instance() has its static object
  zone, name,         \* _zone, _name
  user,               \* each thread: "idle", "parse", "name" or "format"
  wish                \* the argument of each thread's setZone()

zoneVars == <<logTz, made, zone, name, user, wish>>

\* nullptr is UTC; the empty name is the current zone.
Known(text) == text = Empty \/ Lower[text] = Utc \/ text \in Located

ParseZone(text) ==
  CASE text = Empty -> Current
    [] text # Empty /\ Lower[text] = Utc -> NoZone
    [] OTHER -> text

ZoneOf(n) == IF n = NoZone THEN NoZone ELSE ParseZone(n)

Refused(n) == n # NoZone /\ ~Known(n)

Init ==
  /\ logTz \in Texts \cup {NoZone}
  /\ made = FALSE
  /\ zone = NoZone /\ name = NoZone
  /\ user = [t \in ZoneThreads |-> "idle"]
  /\ wish = [t \in ZoneThreads |-> NoZone]

\* The static object: if its constructor throws, the next call tries again.
TzInstance ==
  /\ ~made
  /\ ~Refused(logTz)
  /\ made' = TRUE
  /\ name' = logTz
  /\ zone' = ZoneOf(logTz)
  /\ UNCHANGED <<logTz, user, wish>>

Go(t, stage) == user' = [user EXCEPT ![t] = stage]

\* _lock: one thread in setZone(), or any number in printStamp().
Exclusive == \A t \in ZoneThreads : user[t] \notin {"parse", "name", "format"}
Shared == \A t \in ZoneThreads : user[t] \notin {"parse", "name"}

SetZone(t, n) ==
  /\ made /\ user[t] = "idle"
  /\ Exclusive
  /\ Go(t, "parse")
  /\ wish' = [wish EXCEPT ![t] = n]
  /\ UNCHANGED <<logTz, made, zone, name>>

\* Mutant: the name is assigned before it is parsed.
SetZoneParseNamed(t) ==
  /\ user[t] = "parse"
  /\ name' = wish[t]
  /\ IF Refused(wish[t])
     THEN Go(t, "idle") /\ wish' = [wish EXCEPT ![t] = NoZone] /\ UNCHANGED zone
     ELSE Go(t, "name") /\ zone' = ZoneOf(wish[t]) /\ UNCHANGED wish
  /\ UNCHANGED <<logTz, made>>

\* locate_zone() throws for an unknown name: nothing has changed, the lock is released.
SetZoneParse(t) ==
  /\ user[t] = "parse"
  /\ IF Refused(wish[t])
     THEN Go(t, "idle") /\ wish' = [wish EXCEPT ![t] = NoZone] /\ UNCHANGED zone
     ELSE Go(t, "name") /\ zone' = ZoneOf(wish[t]) /\ UNCHANGED wish
  /\ UNCHANGED <<logTz, made, name>>

SetZoneName(t) ==
  /\ user[t] = "name"
  /\ name' = wish[t]
  /\ wish' = [wish EXCEPT ![t] = NoZone]
  /\ Go(t, "idle")
  /\ UNCHANGED <<logTz, made, zone>>

PrintStamp(t) ==
  /\ made /\ user[t] = "idle"
  /\ Shared
  /\ Go(t, "format")
  /\ UNCHANGED <<logTz, made, zone, name, wish>>

\* The stamp is in zone; what it looks like is left out.
PrintStampFormat(t) ==
  /\ user[t] = "format"
  /\ Go(t, "idle")
  /\ UNCHANGED <<logTz, made, zone, name, wish>>

Next ==
  \/ TzInstance
  \/ \E t \in ZoneThreads :
       \/ \E n \in Texts \cup {NoZone} : SetZone(t, n)
       \/ SetZoneParse(t) \/ SetZoneName(t)
       \/ PrintStamp(t) \/ PrintStampFormat(t)

Spec == Init /\ [][Next]_zoneVars
-----------------------------------------------------------------------------
(* Properties.                                                             *)

(***************************************************************************)
(* The name and the zone go together: whenever no setZone() is under way,  *)
(* also after one that threw, lines are stamped in the zone the name says; *)
(* so is every line that is being stamped, and no setZone() comes between. *)
(***************************************************************************)
ZoneIsNamed ==
  /\ Shared => zone = ZoneOf(name) /\ ~Refused(name)
  /\ \A t \in ZoneThreads : user[t] = "format" => Shared
=============================================================================
