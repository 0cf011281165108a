----------------------------- MODULE TimeWindows ----------------------------
(***************************************************************************)
(* The time windows of ABAC events.  Time is counted in ticks, Day of them *)
(* to a day; a time zone is its offset from UTC, which does not change     *)
(* within the time modelled.  Bounds are as the policy states them:        *)
(* instants with an offset of their own ("aware"), local instants, local   *)
(* times of day, or local dates.  Both bounds belong to the window.        *)
(***************************************************************************)
EXTENDS Integers

CONSTANTS Day, Zones, Offset, UTC

ASSUME DayIsPositive == Day \in Nat \ {0}
ASSUME OffsetsAreShorterThanADay ==
    Offset \in [Zones -> (1 - Day)..(Day - 1)] /\ UTC \in Zones /\ Offset[UTC] = 0

Modes == {"wildcard", "aware", "datetime", "time_of_day", "date"}

Local(t, zone) == t + Offset[zone]
TimeOfDay(t, zone) == Local(t, zone) % Day
DateOf(t, zone) == Local(t, zone) \div Day

\* What TimeWindow.validate_bounds lets through: only a time of day may wrap.
ValidWindow(window) ==
    window.mode \in {"aware", "datetime", "date"} => window.start <= window.end

\* A window from 22:00 to 06:00 is open in the evening and in the morning.
InTimeOfDay(start, end, c) ==
    IF start <= end THEN start <= c /\ c <= end
                    ELSE c >= start \/ c <= end

\* Mutant: bounds without an offset are taken to be in UTC.
InWindow_BoundsInUTC(window, t, zone) ==
    CASE window.mode = "wildcard"    -> TRUE
      [] window.mode \in {"aware", "datetime"} -> window.start <= t /\ t <= window.end
      [] window.mode = "time_of_day" ->
            InTimeOfDay(window.start, window.end, TimeOfDay(t, zone))
      [] window.mode = "date"        ->
            window.start <= DateOf(t, zone) /\ DateOf(t, zone) <= window.end

\* TimeWindow.matches for an instant t under a policy in this zone.
InWindow(window, t, zone) ==
    CASE window.mode = "wildcard"    -> TRUE
      [] window.mode = "aware"       -> window.start <= t /\ t <= window.end
      [] window.mode = "datetime"    ->
            window.start <= Local(t, zone) /\ Local(t, zone) <= window.end
      [] window.mode = "time_of_day" ->
            InTimeOfDay(window.start, window.end, TimeOfDay(t, zone))
      [] window.mode = "date"        ->
            window.start <= DateOf(t, zone) /\ DateOf(t, zone) <= window.end
=============================================================================
