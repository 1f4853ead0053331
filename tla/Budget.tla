------------------------------- MODULE Budget -------------------------------
(***************************************************************************)
(* Spending in a period: the window of time a day, a week or a month is in *)
(* the user's zone, and what was spent in it.                              *)
(*                                                                         *)
(* Time is counted in units, DayLength to a day; instant 0 is a midnight in*)
(* UTC and day 0 a Monday.  A civil date is the number of its day.  A zone *)
(* is ahead of UTC by `before` units up to the instant `at`, and by `after`*)
(* units from then on.                                                     *)
(***************************************************************************)
EXTENDS Basics, FiniteSets, FiniteSetsExt

CONSTANTS
  DayLength,     \* units of time in a day
  MonthStarts    \* days on which a month begins, in increasing order

ASSUME BudgetAssumption ==
  /\ DayLength \in Nat \ {0}
  /\ \A k \in 1..(Len(MonthStarts) - 1) : MonthStarts[k] < MonthStarts[k + 1]

Periods == {"daily", "weekly", "monthly"}
UTC == [at |-> 0, before |-> 0, after |-> 0]

(* A zone that is missing, or that the platform does not know, is UTC. *)
usableZone(zone) == Given(zone, UTC)

(* The platform: how far ahead the clocks of a zone are, and what they say.*)
Offset(zone, instant) == IF instant < zone.at THEN zone.before ELSE zone.after
partsIn(instant, zone) ==
  LET local == instant + Offset(zone, instant)
  IN  [day |-> local \div DayLength, time |-> local % DayLength]

civilDateIn(instant, zone) == partsIn(instant, zone).day

utcDate(day) == day * DayLength

zoneOffset(instant, zone) ==
  utcDate(partsIn(instant, zone).day) + partsIn(instant, zone).time - instant

(* Mutant of instantAtCivilMidnight: the guess is not corrected. *)
instantAtCivilMidnightGuess(day, zone) == utcDate(day) - zoneOffset(utcDate(day), zone)

(* A guess with the offset at the same reading in UTC, and a correction    *)
(* with the offset at the guess.                                           *)
instantAtCivilMidnight(day, zone) ==
  LET guess == utcDate(day) - zoneOffset(utcDate(day), zone)
  IN  utcDate(day) - zoneOffset(guess, zone)

Month(day) == CHOOSE k \in 1..Len(MonthStarts) :
  MonthStarts[k] <= day /\ (k < Len(MonthStarts) => day < MonthStarts[k + 1])

startCivilDate(period, day) ==
  FirstMatch(<< <<period = "daily", day>>,
                <<period = "weekly", day - (day % 7)>>,
                <<TRUE, MonthStarts[Month(day)]>> >>)

advance(period, start) ==
  FirstMatch(<< <<period = "daily", start + 1>>,
                <<period = "weekly", start + 7>>,
                <<TRUE, MonthStarts[Month(start) + 1]>> >>)

periodWindow(period, now, timeZone) ==
  LET zone == usableZone(timeZone)
      start == startCivilDate(period, civilDateIn(now, zone))
  IN  [start |-> instantAtCivilMidnight(start, zone),
       end |-> instantAtCivilMidnight(advance(period, start), zone)]

-----------------------------------------------------------------------------
(* The service.  Usage is a set of events, many of which cost nothing. *)

spendIn(usage, window) ==
  LET within == {e \in usage : e.cost # None /\ window.start <= e.at /\ e.at < window.end}
  IN  [spent |-> MapThenSumSet(LAMBDA e : e.cost, within),
       calls |-> Cardinality(within)]

(* The row is there from the first reading on: without a limit, monthly. *)
Provisioned(row) == Given(row, [limit |-> None, period |-> "monthly"])

(* Percent stand for the fraction of the limit that is used. *)
mapBudgetToResponse(row, window, spend) ==
  [window |-> window, spent |-> spend.spent, calls |-> spend.calls, limit |-> row.limit,
   remaining |-> IF row.limit = None THEN None ELSE row.limit - spend.spent,
   used |-> IF row.limit = None THEN None ELSE (100 * spend.spent) \div row.limit]

find(row, usage, now, timeZone) ==
  LET window == periodWindow(Provisioned(row).period, now, timeZone)
  IN  mapBudgetToResponse(Provisioned(row), window, spendIn(usage, window))
=============================================================================
