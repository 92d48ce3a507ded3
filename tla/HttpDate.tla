------------------------------ MODULE HttpDate ------------------------------
(***************************************************************************)
(* The date of an Expires or Date header as days since 1970-01-01: the     *)
(* conversion of the response cache (parse_http_date and days_from_civil   *)
(* in crates/silksurf-net/src/cache.rs) and the one of the cookie jar      *)
(* (cookie.rs), a second copy of the formula with checks of its own.  The  *)
(* reference is                                                            *)
(* a calendar that is turned page by page from the epoch in both           *)
(* directions.  The clock time, which both add to the days, and the split  *)
(* of the header into its fields are left out.                             *)
(***************************************************************************)
EXTENDS Integers

CONSTANTS
  FirstYear,  \* model bound: the calendar ends with 1 January of this year
  LastYear    \* model bound: and with 31 December of this one

ASSUME DateAssumption ==
  /\ FirstYear \in 1..1970 /\ LastYear \in Nat /\ LastYear >= 1970

VARIABLES
  date,   \* the page of the calendar
  count   \* how many pages after that of the epoch it is

dateVars == <<date, count>>

-----------------------------------------------------------------------------
(***************************************************************************)
(* The code.  Divisions are of naturals and truncate.                      *)
(***************************************************************************)
EpochDay == 719468  \* days from 0000-03-01 to the epoch

MarchYearStart(d) == IF d.month <= 2 THEN d.year - 1 ELSE d.year
MarchMonth(d) == IF d.month > 2 THEN d.month - 3 ELSE d.month + 9
DayOfYear(d) == (153 * MarchMonth(d) + 2) \div 5 + d.day - 1

\* Mutant: the years that are no leap years at a century's end are not taken
\* out again.
DayOfEraJulian(yoe, doy) == yoe * 365 + yoe \div 4 + doy
DayOfEra(yoe, doy) == yoe * 365 + yoe \div 4 - yoe \div 100 + doy

CivilDays(d) ==
  LET year == MarchYearStart(d)
      era == year \div 400
  IN  era * 146097 + DayOfEra(year - era * 400, DayOfYear(d))

\* cache.rs: saturates at the epoch.
CacheDays(d) == IF CivilDays(d) > EpochDay THEN CivilDays(d) - EpochDay ELSE 0

\* cookie.rs: a date before the epoch, or one whose day no month has, is no
\* date.
NoDate == -1
CookieDays(d) ==
  IF d.year < 1970 \/ d.day = 0 \/ d.day > 31 THEN NoDate
  ELSE CivilDays(d) - EpochDay

-----------------------------------------------------------------------------
(***************************************************************************)
(* The reference.                                                          *)
(***************************************************************************)
IsLeap(year) == year % 4 = 0 /\ (year % 100 # 0 \/ year % 400 = 0)

MonthLength(year, month) ==
  CASE month = 2 -> IF IsLeap(year) THEN 29 ELSE 28
    [] month \in {4, 6, 9, 11} -> 30
    [] OTHER -> 31

Day(y, m, d) == [year |-> y, month |-> m, day |-> d]

DateInit == date = Day(1970, 1, 1) /\ count = 0

TurnForward ==
  /\ date # Day(LastYear, 12, 31) /\ count >= 0
  /\ count' = count + 1
  /\ date' =
       IF date.day < MonthLength(date.year, date.month)
       THEN [date EXCEPT !.day = @ + 1]
       ELSE IF date.month < 12 THEN Day(date.year, date.month + 1, 1)
       ELSE Day(date.year + 1, 1, 1)

TurnBack ==
  /\ date # Day(FirstYear, 1, 1) /\ count <= 0
  /\ count' = count - 1
  /\ date' =
       IF date.day > 1 THEN [date EXCEPT !.day = @ - 1]
       ELSE IF date.month > 1
       THEN Day(date.year, date.month - 1, MonthLength(date.year, date.month - 1))
       ELSE Day(date.year - 1, 12, 31)

DateNext == TurnForward \/ TurnBack

DateSpec == DateInit /\ [][DateNext]_dateVars

-----------------------------------------------------------------------------
(***************************************************************************)
(* Properties.                                                             *)
(***************************************************************************)

\* The formula without a table and without a loop counts as the calendar
\* does, on every day, the leap days and the ends of centuries and of the
\* 400-year era included; both copies of it agree from the epoch on, and
\* before it one saturates and the other refuses (days_from_civil,
\* parse_http_date).
CivilExact ==
  /\ CacheDays(date) = IF count > 0 THEN count ELSE 0
  /\ CookieDays(date) = IF count >= 0 THEN count ELSE NoDate
=============================================================================
