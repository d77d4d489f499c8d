------------------------------- MODULE WallTime -------------------------------
(***************************************************************************)
(* wallTimeInZoneToUtc: the earliest departure, a local time at the origin, *)
(* becomes an instant.  The function guesses the instant and corrects the   *)
(* guess three times by the zone's offset at the guess.                     *)
(*                                                                          *)
(* Instants and local times are counted in half hours from the zone's       *)
(* change of the clocks, where its offset goes from "before" to             *)
(* "before + shift".                                                        *)
(***************************************************************************)
EXTENDS Integers

CONSTANTS
  Zones,        \* records with the fields before and shift
  LocalTimes    \* the local times asked for

ASSUME WallTimeAssumption ==
  /\ Zones \subseteq [before : Int, shift : Int]
  /\ LocalTimes \subseteq Int

VARIABLES
  asked,    \* the zone and the local time
  utc,      \* the guess
  turns     \* corrections so far

wallTimeVars == <<asked, utc, turns>>

Offset(zone, t) == IF t < 0 THEN zone.before ELSE zone.before + zone.shift
LocalTime(zone, t) == t + Offset(zone, t)

\* Mistake: the offset at the first guess is good enough.
OneCorrection == 1

Corrections == 3

WallTimeInit ==
  /\ asked \in [zone : Zones, local : LocalTimes]
  /\ utc = asked.local
  /\ turns = 0

Correct ==
  /\ turns < Corrections
  /\ utc' = utc + asked.local - LocalTime(asked.zone, utc)
  /\ turns' = turns + 1
  /\ UNCHANGED asked

WallTimeSpec == WallTimeInit /\ [][Correct]_wallTimeVars

-----------------------------------------------------------------------------
Exists(zone, local) ==
  \/ local - zone.before < 0
  \/ local - zone.before - zone.shift >= 0

\* A local time that exists, however near to a change of the clocks, becomes an
\* instant at which the clocks show it (wall-time.ts:21-48).  One that is
\* skipped becomes an instant before the gap or after it, by the gap's length.
WallTimesAreExact ==
  turns = Corrections =>
    \/ LocalTime(asked.zone, utc) = asked.local
    \/ /\ ~Exists(asked.zone, asked.local)
       /\ LocalTime(asked.zone, utc) \in {asked.local - asked.zone.shift, asked.local + asked.zone.shift}
=============================================================================
