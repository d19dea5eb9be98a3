--------------------------- MODULE MonthlySchedule ---------------------------
(***************************************************************************)
(* The schedule "0 0 L * *": once a month, on its last day.  ParseSchedule *)
(* replaces the L by the last day of the present month, and the cron       *)
(* library computes the next run from that; the controller repeats both    *)
(* after each run.                                                         *)
(***************************************************************************)
EXTENDS Integers, Sequences

CONSTANT Days   \* the lengths of the months of the calendar

\* Of two months in a row, one has 31 days.
ASSUME CalendarAssumption ==
    /\ Days \in Seq(28..31) /\ Len(Days) >= 1
    /\ \A m \in 1..(Len(Days) - 1) : 31 \in {Days[m], Days[m + 1]}

VARIABLES
    month, day,   \* today; it is past midnight
    next,         \* NextScheduleTime
    runs          \* the days on which a backup was made

calendarVars == <<month, day, next, runs>>

Months == 1..Len(Days)

\* Dates compare as month * 32 + day.
Date(m, d) == 32 * m + d
Today == Date(month, day)
NoDate == Date(Len(Days) + 1, 1)

\* What L becomes in month m.
ParseSchedule(m) == Days[m]

\* Mutant: it starts to look a month later.
After_NextMonth(d) ==
    LET Dates == {Date(m, d) : m \in {n \in Months : d <= Days[n]}}
        Later == {x \in Dates : x > Date(month + 1, day)} IN
    IF Later = {} THEN NoDate ELSE CHOOSE x \in Later : \A y \in Later : x <= y

\* cron's Next: the first date after today with this day of the month.
After(d) ==
    LET Dates == {Date(m, d) : m \in {n \in Months : d <= Days[n]}}
        Later == {x \in Dates : x > Today} IN
    IF Later = {} THEN NoDate ELSE CHOOSE x \in Later : \A y \in Later : x <= y

CalendarInit ==
    /\ month = 1 /\ day \in 1..Days[1]
    /\ next = After(ParseSchedule(1))
    /\ runs = {}

\* Reconcile when the time has come.
Run ==
    /\ next <= Today
    /\ runs' = runs \cup {Today}
    /\ next' = After(ParseSchedule(month))
    /\ UNCHANGED <<month, day>>

NextDay ==
    /\ next > Today
    /\ IF day < Days[month] THEN day' = day + 1 /\ UNCHANGED month
       ELSE month < Len(Days) /\ month' = month + 1 /\ day' = 1
    /\ UNCHANGED <<next, runs>>

CalendarNext == Run \/ NextDay

CalendarSpec == CalendarInit /\ [][CalendarNext]_calendarVars

-----------------------------------------------------------------------------
RunIn(m) == \E d \in 1..Days[m] : Date(m, d) \in runs

\* Two months in a row are never left out (ParseSchedule, s.Next).
NoTwoMonthsLeftOut == \A m \in 2..(month - 2) : RunIn(m) \/ RunIn(m + 1)

=============================================================================
