--------------------------------- MODULE Dates ---------------------------------
(***************************************************************************)
(* The dates of requests and answers: ValidateDate (pkg/types/request.go)  *)
(* and U16ToDate (internal/protocol/helpers.go).                           *)
(*                                                                         *)
(* A date is <<year, month, day>>, three numbers in the form YYYY-MM-DD,   *)
(* of the calendar or not; Malformed is any other text.                    *)
(***************************************************************************)
EXTENDS Integers, Sequences

Malformed == <<>>

Leap(year) == year % 4 = 0 /\ (year % 100 # 0 \/ year % 400 = 0)

DaysIn(year, month) ==
  IF month = 2 THEN IF Leap(year) THEN 29 ELSE 28
  ELSE IF month \in {4, 6, 9, 11} THEN 30 ELSE 31

\* time.Parse accepts the date, and time.Date leaves it as it is.
IsDate(d) == d[2] \in 1..12 /\ d[3] \in 1..DaysIn(d[1], d[2])

\* d.Before(e).
Before(d, e) ==
  \/ d[1] < e[1]
  \/ d[1] = e[1] /\ d[2] < e[2]
  \/ d[1] = e[1] /\ d[2] = e[2] /\ d[3] < e[3]

\* d.AddDate(1, 0, 0), which makes the 1st of March of a missing 29th of
\* February.
AddYear(d) ==
  IF d[2] = 2 /\ d[3] = 29 /\ ~Leap(d[1] + 1) THEN <<d[1] + 1, 3, 1>>
  ELSE <<d[1] + 1, d[2], d[3]>>

\* d.AddDate(0, 0, 1).
DayAfter(d) ==
  IF d[3] < DaysIn(d[1], d[2]) THEN <<d[1], d[2], d[3] + 1>>
  ELSE IF d[2] < 12 THEN <<d[1], d[2] + 1, 1>>
  ELSE <<d[1] + 1, 1, 1>>

\* Truncate(24h) goes back to the last midnight in UTC and keeps the zone of
\* the host.  A clock is what the host shows of that midnight: its date there,
\* the minutes that its time is then ahead of UTC (now), and those that it will
\* be a year later (then), as summer time comes and goes.  The two differ by
\* less than a day: zones that are moved across the date line are left out.
MinutesAhead == -1439..1439
IsClock(clock) ==
  /\ DOMAIN clock = {"date", "now", "then"}
  /\ IsDate(clock.date)
  /\ clock.now \in Int /\ clock.then \in Int /\ clock.now - clock.then \in MinutesAhead

\* West of Greenwich a midnight in UTC is in the evening before.
UTCDay(date, offset) == IF offset < 0 THEN DayAfter(date) ELSE date
Today(clock) == UTCDay(clock.date, clock.now)

\* AddDate moves the local date by a year and keeps the local time, which is
\* now - then minutes later in UTC: past the midnight of the last day allowed,
\* on it, or before it.
LastDay(clock) == UTCDay(AddYear(clock.date), clock.now)
Beyond(d, clock) ==
  \/ Before(LastDay(clock), d)
  \/ d = LastDay(clock) /\ clock.now < clock.then

\* A fault: the year that a request may look ahead is one of the calendar.
ValidateDateCalendar(d, clock) ==
  /\ d # Malformed /\ IsDate(d)
  /\ ~Before(d, Today(clock)) /\ d[1] <= Today(clock)[1] + 1

\* ValidateDate: the form, the calendar, not before today in UTC, and not
\* beyond a year from now.
ValidateDate(d, clock) ==
  /\ d # Malformed /\ IsDate(d)
  /\ ~Before(d, Today(clock)) /\ ~Beyond(d, clock)

\* A fault: bits of the month are read as bits of the day.
U16ToDateMisread(packed, year) ==
  LET d == <<year + ((packed \div 512) % 8), ((packed \div 32) % 16) + 1, (packed % 64) + 1>>
  IN IF IsDate(d) THEN d ELSE Malformed

\* U16ToDate, when the host is in the given year: three bits of years from then on, four of the
\* month and five of the day, both from zero.
U16ToDate(packed, year) ==
  LET d == <<year + ((packed \div 512) % 8), ((packed \div 32) % 16) + 1, (packed % 32) + 1>>
  IN IF IsDate(d) THEN d ELSE Malformed

\* The router packs a date, in what is for it the given year.
Pack(d, year) == (d[1] - year) * 512 + (d[2] - 1) * 32 + (d[3] - 1)
===============================================================================
